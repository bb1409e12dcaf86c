----------------------------- MODULE TcpStream -----------------------------
(***************************************************************************)
(* One direction of a connection, byte by byte: Serializer                 *)
(* (include/serialization.h) turns a token or a length into a fixed number *)
(* of bytes and a string into its length and its characters; the loops of  *)
(* TCPSocket::send and TCPSocket::receive (lib/streams.cpp) move them      *)
(* through a kernel that takes and gives as many bytes at a time as it     *)
(* likes, and over a connection that may end after any byte.               *)
(*                                                                         *)
(* script is the sequence of objects the two programs have agreed on: that *)
(* the receiver expects the kind of object that is sent is RemoteIO!InStep.*)
(***************************************************************************)
EXTENDS Naturals, Sequences

CONSTANTS Tokens,       \* SerializationTokens
          Chars,        \* the bytes that strings are made of
          Strings,      \* strings, sequences of bytes
          TokenSize, LengthSize,
                        \* sizeof(SerializationTokens), sizeof(size_t)
          Capacity,     \* how many bytes the kernel keeps for the receiver
          MaxObjects    \* bound on the objects that are sent

Objects == Tokens \cup Strings
Lengths == {Len(s) : s \in Strings}

ASSUME StreamAssumption ==
    /\ Strings \subseteq Seq(Chars)
    /\ Tokens \cap Strings = {}
    /\ TokenSize \in Nat \ {0} /\ LengthSize \in Nat \ {0}
    /\ Capacity \in Nat \ {0} /\ MaxObjects \in Nat

VARIABLES script,
          spc,          \* the sender: "idle", or which send of an object it
                        \* is in; "failed" after a throw, "gone" after close
          i,            \* the loop index of send
          starts,       \* history: where in stream each object starts
          stream,       \* the bytes the kernel took for the receiver, ever
          conn,         \* "open", "fin" after the sender's end, "reset"
          nread,        \* how many bytes of stream the receiver has read
          rpc,          \* the receiver: "idle", the receive it is in, "threw"
          data,         \* what this receive has read so far
          length,       \* n, the length of the string that is received
          received      \* history: what >> has returned

senderVars == <<spc, i, starts>>
receiverVars == <<nread, rpc, data, length, received>>
vars == <<script, senderVars, stream, conn, receiverVars>>

-----------------------------------------------------------------------------
(* Serialization *)

\* The bytes of a primitive of that size
Bytes(value, size) == [j \in 1..size |-> <<value, j>>]

\* Bytes that nobody has sent together have some value, too.
Decoded(bytes, size, values) ==
    CHOOSE v \in values :
        (\E u \in values : Bytes(u, size) = bytes) => Bytes(v, size) = bytes

\* The first send of an object: a token, or a string's length
Primitive(o) ==
    IF o \in Tokens THEN Bytes(o, TokenSize) ELSE Bytes(Len(o), LengthSize)

\* All bytes of an object
Encoding(o) == IF o \in Tokens THEN Primitive(o) ELSE Primitive(o) \o o

Init ==
    /\ script \in UNION {[1..n -> Objects] : n \in 0..MaxObjects}
    /\ spc = "idle"
    /\ i = 0
    /\ starts = <<>>
    /\ stream = <<>>
    /\ conn = "open"
    /\ nread = 0
    /\ rpc = "idle"
    /\ data = <<>>
    /\ length = 0
    /\ received = <<>>

-----------------------------------------------------------------------------
(* The sender *)

\* The object that was begun last, and what the present send is called with
Sending == script[Len(starts)]
Sent == IF spc = "primitive" THEN Primitive(Sending) ELSE Sending

Serialize ==
    /\ spc = "idle"
    /\ Len(starts) < Len(script)
    /\ starts' = Append(starts, Len(stream))
    /\ spc' = "primitive"
    /\ i' = 0
    /\ UNCHANGED <<script, stream, conn, receiverVars>>

\* mutant: send calls ::send once and does not look how much it took
SendBytesOnce(m) ==
    /\ spc \in {"primitive", "chars"}
    /\ i < Len(Sent)
    /\ conn = "open"
    /\ m <= Len(Sent) - i
    /\ Len(stream) + m - nread <= Capacity
    /\ stream' = stream \o SubSeq(Sent, i + 1, i + m)
    /\ i' = Len(Sent)
    /\ UNCHANGED <<script, spc, starts, conn, receiverVars>>

\* ::send takes m of the remaining bytes
SendBytes(m) ==
    /\ spc \in {"primitive", "chars"}
    /\ i < Len(Sent)
    /\ conn = "open"
    /\ m <= Len(Sent) - i
    /\ Len(stream) + m - nread <= Capacity
    /\ stream' = stream \o SubSeq(Sent, i + 1, i + m)
    /\ i' = i + m
    /\ UNCHANGED <<script, spc, starts, conn, receiverVars>>

\* The loop of send ends; the characters of a string follow its length.
SendReturns ==
    /\ spc \in {"primitive", "chars"}
    /\ i >= Len(Sent)
    /\ spc' = IF spc = "primitive" /\ Sending \notin Tokens THEN "chars" ELSE "idle"
    /\ i' = 0
    /\ UNCHANGED <<script, starts, stream, conn, receiverVars>>

\* ::send returns -1 and send throws; that it may also be the end of the
\* process is in Session.
SendThrows ==
    /\ spc \in {"primitive", "chars"}
    /\ i < Len(Sent)
    /\ conn = "reset"
    /\ spc' = "failed"
    /\ UNCHANGED <<script, i, starts, stream, conn, receiverVars>>

\* The sender closes its socket, or its process ends inside an object.
SenderLeaves ==
    /\ spc \notin {"failed", "gone"}
    /\ conn = "open"
    /\ spc' = "gone"
    /\ conn' = "fin"
    /\ UNCHANGED <<script, i, starts, stream, receiverVars>>

\* The connection is lost, with any of the bytes that were under way.
Reset ==
    /\ conn = "open"
    /\ conn' = "reset"
    /\ \E m \in nread..Len(stream) : stream' = SubSeq(stream, 1, m)
    /\ UNCHANGED <<script, senderVars, receiverVars>>

-----------------------------------------------------------------------------
(* The receiver *)

\* The size that the present receive is called with
Wanted ==
    IF rpc = "chars" THEN length
    ELSE IF script[Len(received) + 1] \in Tokens THEN TokenSize ELSE LengthSize

Deserialize ==
    /\ rpc = "idle"
    /\ Len(received) < Len(script)
    /\ rpc' = "primitive"
    /\ UNCHANGED <<script, senderVars, stream, conn, nread, data, length, received>>

\* mutant: recv is asked for size bytes instead of size - i
ReceiveBytesAgain(m) ==
    /\ rpc \in {"primitive", "chars"}
    /\ Len(data) < Wanted
    /\ m <= Wanted
    /\ nread + m <= Len(stream)
    /\ data' = data \o SubSeq(stream, nread + 1, nread + m)
    /\ nread' = nread + m
    /\ UNCHANGED <<script, senderVars, stream, conn, rpc, length, received>>

\* recv gives m of the bytes that the loop still asks for
ReceiveBytes(m) ==
    /\ rpc \in {"primitive", "chars"}
    /\ Len(data) < Wanted
    /\ m <= Wanted - Len(data)
    /\ nread + m <= Len(stream)
    /\ data' = data \o SubSeq(stream, nread + 1, nread + m)
    /\ nread' = nread + m
    /\ UNCHANGED <<script, senderVars, stream, conn, rpc, length, received>>

\* mutant: a read of zero bytes is not taken for the end, and recv called again
ReceiveThrowsOnErrorOnly ==
    /\ rpc \in {"primitive", "chars"}
    /\ Len(data) < Wanted
    /\ nread = Len(stream)
    /\ conn # "open"
    /\ rpc' = IF conn = "reset" THEN "threw" ELSE rpc
    /\ UNCHANGED <<script, senderVars, stream, conn, nread, data, length, received>>

\* mutant: the error of the connection comes before the bytes that arrived
ReceiveThrowsEarly ==
    /\ rpc \in {"primitive", "chars"}
    /\ Len(data) < Wanted
    /\ conn # "open"
    /\ rpc' = "threw"
    /\ UNCHANGED <<script, senderVars, stream, conn, nread, data, length, received>>

\* Nothing is left to read: recv returns 0 at the end of the stream and -1
\* when it was reset, and receive throws for both.
ReceiveThrows ==
    /\ rpc \in {"primitive", "chars"}
    /\ Len(data) < Wanted
    /\ nread = Len(stream)
    /\ conn # "open"
    /\ rpc' = "threw"
    /\ UNCHANGED <<script, senderVars, stream, conn, nread, data, length, received>>

\* A token is complete, or a length, which tells what to receive next
PrimitiveReceived ==
    /\ rpc = "primitive"
    /\ Len(data) >= Wanted
    /\ data' = <<>>
    /\ IF script[Len(received) + 1] \in Tokens
       THEN /\ rpc' = "idle"
            /\ received' = Append(received, Decoded(data, TokenSize, Tokens))
            /\ UNCHANGED length
       ELSE /\ rpc' = "chars"
            /\ length' = Decoded(data, LengthSize, Lengths)
            /\ UNCHANGED received
    /\ UNCHANGED <<script, senderVars, stream, conn, nread>>

\* For the empty string receive returns at once, with no data.
StringReceived ==
    /\ rpc = "chars"
    /\ Len(data) >= length
    /\ rpc' = "idle"
    /\ received' = Append(received, data)
    /\ data' = <<>>
    /\ UNCHANGED <<script, senderVars, stream, conn, nread, length>>

-----------------------------------------------------------------------------
\* Inside <<, the sender goes on; >> is always called again.
SenderStep == (\E m \in 1..Capacity : SendBytes(m)) \/ SendReturns \/ SendThrows
ReceiverStep ==
    \/ Deserialize \/ (\E m \in 1..Capacity : ReceiveBytes(m)) \/ ReceiveThrows
    \/ PrimitiveReceived \/ StringReceived

Over ==
    /\ spc # "primitive" /\ spc # "chars"
    /\ rpc = "threw" \/ Len(received) = Len(script)
    /\ UNCHANGED vars

Next == Serialize \/ SenderStep \/ SenderLeaves \/ Reset \/ ReceiverStep \/ Over

SafetySpec == Init /\ [][Next]_vars

\* Both programs run; nothing obliges the sender to begin another object.
Spec == SafetySpec /\ WF_vars(SenderStep) /\ WF_vars(ReceiverStep)

-----------------------------------------------------------------------------
(* Properties *)

\* The two loops stay inside their buffers, and the kernel inside its own.
TypeOK ==
    /\ script \in Seq(Objects) /\ Len(script) <= MaxObjects
    /\ spc \in {"idle", "primitive", "chars", "failed", "gone"}
    /\ rpc \in {"idle", "primitive", "chars", "threw"}
    /\ conn \in {"open", "fin", "reset"}
    /\ starts \in Seq(Nat) /\ Len(starts) <= Len(script)
    /\ spc \in {"primitive", "chars"} => starts # <<>> /\ i \in 0..Len(Sent)
    /\ nread \in 0..Len(stream) /\ Len(stream) - nread <= Capacity
    /\ length \in Lengths \cup {0}
    /\ Len(received) <= Len(script)
    /\ rpc \in {"primitive", "chars"} =>
          Len(received) < Len(script) /\ Len(data) <= Wanted

\* An object of which the kernel took every byte, and kept them
Arrived(k) ==
    k \in DOMAIN starts /\ starts[k] + Len(Encoding(script[k])) <= Len(stream)

\* receive throws only at the end of what arrived: a connection that is closed
\* or lost inside an object costs that object, and none that arrived before.
ThrowsAtTheEnd ==
    rpc = "threw" => \A k \in DOMAIN script : Arrived(k) => k <= Len(received)

\* Whatever pieces the kernel cuts the stream into, and wherever it ends,
\* objects come out whole, in order, and as they were sent.
Objectwise == INSTANCE Channel WITH
    queue <- SubSeq(script, Len(received) + 1, Len(starts)),
    broken <- rpc = "threw"
ImplementsChannel == Objectwise!Spec

\* An object whose sending has begun is delivered, or the receiver is told by
\* an exception: it never waits for the rest of an object that cannot come.
DeliveredOrThrown ==
    \A k \in 1..MaxObjects :
        (Len(starts) >= k) ~> (Len(received) >= k \/ rpc = "threw")
=============================================================================
