------------------------------ MODULE Channel ------------------------------
(***************************************************************************)
(* What Serializer promises its user over one direction of a connection:   *)
(* objects come out whole and in order until the connection is lost.  This *)
(* is what RemoteIO takes a direction of its connection to be; TcpStream   *)
(* is shown to implement it with bytes.                                    *)
(***************************************************************************)
EXTENDS Sequences

CONSTANT Objects

VARIABLES queue,        \* serialized and not yet deserialized
          received,     \* what >> has returned
          broken        \* >> has thrown

vars == <<queue, received, broken>>

Init == queue = <<>> /\ received = <<>> /\ broken = FALSE

Send(o) == queue' = Append(queue, o) /\ UNCHANGED <<received, broken>>

Receive ==
    /\ ~broken
    /\ queue # <<>>
    /\ received' = Append(received, Head(queue))
    /\ queue' = Tail(queue)
    /\ UNCHANGED broken

Break == broken' = TRUE /\ UNCHANGED <<queue, received>>

Next == (\E o \in Objects : Send(o)) \/ Receive \/ Break

Spec == Init /\ [][Next]_vars
=============================================================================
