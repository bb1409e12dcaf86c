------------------------------ MODULE LocalIO ------------------------------
(***************************************************************************)
(* The DefaultIO interface of server/include/cli.h as its user means it,   *)
(* and as DefaultTerminalIO implements it: every operation acts at once on *)
(* one terminal and the local files.  RemoteIO is shown to look like this. *)
(***************************************************************************)
EXTENDS Sequences

CONSTANTS Messages,     \* strings that the program prints or saves
          Words,        \* strings that the user types
          Files,        \* file names
          Content,      \* the lines of each file that can be read
          NoLine        \* the empty string

VARIABLES dev,          \* which file is open: "idle", "reading", "writing";
                        \* "closed" after close()
          screen,       \* what was printed
          rest,         \* the lines of the input file not yet read
          given,        \* what the operations >> and read have returned
          out,          \* the name of the output file, when writing
          saved         \* what each file that was opened for output holds

vars == <<dev, screen, rest, given, out, saved>>

Init ==
    /\ dev = "idle"
    /\ screen = <<>>
    /\ rest = <<>>
    /\ given = <<>>
    /\ out \in Files
    /\ saved = [f \in Files |-> <<>>]

Output(m) ==
    /\ dev = "idle"
    /\ screen' = Append(screen, m)
    /\ UNCHANGED <<dev, rest, given, out, saved>>

Input(w) ==
    /\ dev = "idle"
    /\ given' = Append(given, w)
    /\ UNCHANGED <<dev, screen, rest, out, saved>>

\* A file that does not exist is read like an empty one.
OpenInput(f) ==
    /\ dev = "idle"
    /\ dev' = "reading"
    /\ rest' = Content[f].lines
    /\ UNCHANGED <<screen, given, out, saved>>

\* Past the end of the file, getline leaves its fresh string empty.
Read ==
    /\ dev = "reading"
    /\ given' = Append(given, IF rest = <<>> THEN NoLine ELSE Head(rest))
    /\ rest' = IF rest = <<>> THEN <<>> ELSE Tail(rest)
    /\ UNCHANGED <<dev, screen, out, saved>>

CloseInput ==
    /\ dev = "reading"
    /\ dev' = "idle"
    /\ UNCHANGED <<screen, rest, given, out, saved>>

OpenOutput(f) ==
    /\ dev = "idle"
    /\ dev' = "writing"
    /\ out' = f
    /\ saved' = [saved EXCEPT ![f] = <<>>]
    /\ UNCHANGED <<screen, rest, given>>

Write(m) ==
    /\ dev = "writing"
    /\ saved' = [saved EXCEPT ![out] = Append(@, m)]
    /\ UNCHANGED <<dev, screen, rest, given, out>>

CloseOutput ==
    /\ dev = "writing"
    /\ dev' = "idle"
    /\ UNCHANGED <<screen, rest, given, out, saved>>

Close ==
    /\ dev = "idle"
    /\ dev' = "closed"
    /\ UNCHANGED <<screen, rest, given, out, saved>>

Next ==
    \/ \E m \in Messages : Output(m) \/ Write(m)
    \/ \E w \in Words : Input(w)
    \/ \E f \in Files : OpenInput(f) \/ OpenOutput(f)
    \/ Read \/ CloseInput \/ CloseOutput \/ Close

Spec == Init /\ [][Next]_vars
=============================================================================
