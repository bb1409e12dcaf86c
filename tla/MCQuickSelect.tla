--------------------------- MODULE MCQuickSelect ---------------------------
\* The constants are given in the .cfg files.
EXTENDS QuickSelect
=============================================================================
