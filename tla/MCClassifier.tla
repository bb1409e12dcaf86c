---------------------------- MODULE MCClassifier ----------------------------
\* Two classes on a small grid, points with equal coordinates and with equal
\* distances; and lines of the kinds that the readers take in different ways.
EXTENDS Classifier

CONSTANTS A, B

ProperLines == {<<0, 0, A>>, <<0, 0, B>>, <<3, 0, A>>, <<2, 2, B>>, <<0, 4, B>>}

OddLines == {<<1>>, <<1, A>>, <<0, 0>>, <<0, 4>>, <<2, A, B>>, <<0, 0, 4, Empty>>}

SomeLines == ProperLines \cup OddLines
=============================================================================
