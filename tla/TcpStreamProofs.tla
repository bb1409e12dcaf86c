-------------------------- MODULE TcpStreamProofs --------------------------
(***************************************************************************)
(* Proofs about TcpStream for any strings, sizes and capacity: objects come*)
(* out whole and in order whatever the pieces the kernel cuts the stream   *)
(* into, and an end of the connection costs none that had arrived.         *)
(***************************************************************************)
EXTENDS TcpStream, SequenceTheorems, TLAPS

-----------------------------------------------------------------------------
(* Serialized objects *)

Byte == Chars \cup ((Tokens \cup Nat) \X Nat)

Size(o) == IF o \in Tokens THEN TokenSize ELSE LengthSize
Full(o) == IF o \in Tokens THEN TokenSize ELSE LengthSize + Len(o)

\* What an object is as bytes: a primitive, and the characters after a length
LEMMA EncodingOf ==
    ASSUME NEW o \in Objects
    PROVE  /\ Size(o) \in Nat \ {0} /\ Full(o) \in Nat /\ Size(o) <= Full(o)
           /\ Primitive(o) \in Seq(Byte) /\ Len(Primitive(o)) = Size(o)
           /\ Encoding(o) \in Seq(Byte) /\ Len(Encoding(o)) = Full(o)
           /\ \A j \in 1..Size(o) : Encoding(o)[j] = Primitive(o)[j]
           /\ o \in Tokens => Full(o) = Size(o) /\ Size(o) = TokenSize
           /\ o \notin Tokens =>
                /\ o \in Strings /\ o \in Seq(Byte) /\ Len(o) \in Nat
                /\ Size(o) = LengthSize /\ Full(o) = LengthSize + Len(o)
                /\ \A j \in 1..Len(o) : Encoding(o)[LengthSize + j] = o[j]
<1>1. TokenSize \in Nat \ {0} /\ LengthSize \in Nat \ {0}
  BY StreamAssumption
<1>2. \A v \in Tokens \cup Nat, n \in Nat :
         Bytes(v, n) \in Seq(Byte) /\ Len(Bytes(v, n)) = n
  <2>. TAKE v \in Tokens \cup Nat, n \in Nat
  <2>1. Bytes(v, n) \in [1..n -> Byte]
    BY DEF Bytes, Byte
  <2>2. DOMAIN Bytes(v, n) = 1..n /\ Bytes(v, n) \in Seq(Byte)
    BY <2>1, SeqDef
  <2>. QED BY <2>2, LenProperties
<1>3. CASE o \in Tokens
  <2>1. Primitive(o) \in Seq(Byte) /\ Len(Primitive(o)) = TokenSize
    BY <1>1, <1>2, <1>3 DEF Primitive
  <2>. QED BY <1>1, <1>3, <2>1 DEF Encoding, Size, Full
<1>4. CASE o \notin Tokens
  <2>1. o \in Strings /\ o \in Seq(Chars)
    BY <1>4, StreamAssumption DEF Objects
  <2>2. o \in Seq(Byte) /\ Len(o) \in Nat
    BY <2>1, SeqMonotonic, LenProperties DEF Byte
  <2>3. Primitive(o) \in Seq(Byte) /\ Len(Primitive(o)) = LengthSize
    BY <1>1, <1>2, <1>4, <2>2 DEF Primitive
  <2>4. Encoding(o) = Primitive(o) \o o
    BY <1>4 DEF Encoding
  <2>5. /\ Encoding(o) \in Seq(Byte) /\ Len(Encoding(o)) = LengthSize + Len(o)
        /\ \A j \in 1..(LengthSize + Len(o)) :
              Encoding(o)[j] = IF j <= LengthSize THEN Primitive(o)[j] ELSE o[j - LengthSize]
    BY <2>2, <2>3, <2>4, ConcatProperties
  <2>6. \A j \in 1..LengthSize : Encoding(o)[j] = Primitive(o)[j]
    BY <1>1, <2>2, <2>5
  <2>7. \A j \in 1..Len(o) : Encoding(o)[LengthSize + j] = o[j]
    BY <1>1, <2>2, <2>5
  <2>. QED BY <1>1, <1>4, <2>1, <2>2, <2>3, <2>5, <2>6, <2>7 DEF Size, Full
<1>. QED BY <1>3, <1>4

\* A primitive that arrived whole is decoded to what was encoded.
LEMMA DecodedOf ==
    ASSUME NEW size \in Nat \ {0}, NEW values, NEW v \in values
    PROVE  Decoded(Bytes(v, size), size, values) = v
<1>. DEFINE IsIt(w) == (\E u \in values : Bytes(u, size) = Bytes(v, size))
                          => Bytes(w, size) = Bytes(v, size)
            d == CHOOSE w \in values : IsIt(w)
<1>1. IsIt(v)
  OBVIOUS
<1>2. d \in values /\ IsIt(d)
  BY <1>1
<1>3. Bytes(d, size) = Bytes(v, size)
  BY <1>2
<1>4. Bytes(d, size)[1] = <<d, 1>> /\ Bytes(v, size)[1] = <<v, 1>>
  BY DEF Bytes
<1>5. d = v
  BY <1>3, <1>4
<1>. QED BY <1>5 DEF Decoded

-----------------------------------------------------------------------------
(* The inductive invariant *)

End(k) == starts[k] + Full(script[k])
Begun == 1..Len(starts)
Whole(k) == End(k) <= Len(stream)

Types ==
    /\ TypeOK
    /\ stream \in Seq(Byte) /\ data \in Seq(Byte) /\ received \in Seq(Objects)
    /\ i \in Nat /\ length \in Nat
    /\ spc = "chars" => Sending \notin Tokens

\* Where the objects lie in the stream.  One that is begun after the stream
\* was cut lies behind its end.
Layout ==
    /\ \A k \in Begun : \A j \in 1..Full(script[k]) :
          starts[k] + j <= Len(stream) => stream[starts[k] + j] = Encoding(script[k])[j]
    /\ \A k \in Begun : Whole(k) /\ k + 1 \in Begun => starts[k + 1] = End(k)
    /\ \A j, k \in Begun :
          j < k /\ (Whole(k) \/ conn = "open") => End(j) <= starts[k]
    /\ starts = <<>> => stream = <<>>
    /\ starts # <<>> => Len(stream) <= End(Len(starts))

\* While the connection is open nothing is missing before the byte that is
\* sent next.
SentSoFar ==
    conn = "open" =>
        /\ \A k \in Begun : k < Len(starts) => Whole(k)
        /\ spc = "idle" /\ starts # <<>> => Len(stream) = End(Len(starts))
        /\ spc = "primitive" => Len(stream) = starts[Len(starts)] + i
        /\ spc = "chars" => Len(stream) = starts[Len(starts)] + LengthSize + i
        /\ spc \in {"idle", "primitive", "chars"}

\* How much of the present object the receiver has read
Progress == IF rpc = "chars" THEN LengthSize + Len(data) ELSE Len(data)

\* The receiver is inside the object after those that it has returned, or at
\* the end of a stream that holds no more.
Place ==
    /\ Len(received) <= Len(starts)
    /\ \A k \in Begun : k <= Len(received) => End(k) <= nread
    /\ rpc # "threw" =>
        /\ Len(received) < Len(starts) => nread = starts[Len(received) + 1] + Progress
        /\ Len(received) = Len(starts) => nread = Len(stream) /\ Progress = 0
        /\ \A j \in 1..Len(data) : data[j] = stream[nread - Len(data) + j]
    /\ rpc = "idle" => data = <<>>
    /\ rpc = "chars" => /\ script[Len(received) + 1] \notin Tokens
                        /\ length = Len(script[Len(received) + 1])
    /\ rpc = "threw" => conn # "open"

\* The exception comes after every object that arrived.
Ended == rpc = "threw" => \A k \in Begun : Whole(k) => k <= Len(received)

IInv == Types /\ Layout /\ SentSoFar /\ Place /\ Ended

\* The invariant's facts about one object
LEMMA ObjectFacts ==
    ASSUME Types
    PROVE  /\ Len(script) \in Nat /\ Len(starts) \in Nat /\ Len(stream) \in Nat
           /\ Len(received) \in Nat /\ Len(data) \in Nat /\ nread \in Nat
           /\ (starts = <<>> <=> Len(starts) = 0)
           /\ \A k \in 1..Len(script) : script[k] \in Objects
           /\ \A k \in Begun : /\ script[k] \in Objects /\ starts[k] \in Nat
                               /\ Full(script[k]) \in Nat \ {0} /\ End(k) \in Nat
                               /\ starts[k] < End(k)
                               /\ Arrived(k) <=> Whole(k)
<1>1. /\ script \in Seq(Objects) /\ starts \in Seq(Nat) /\ stream \in Seq(Byte)
      /\ received \in Seq(Objects) /\ data \in Seq(Byte) /\ Len(starts) <= Len(script)
      /\ nread \in 0..Len(stream)
  BY DEF Types, TypeOK
<1>2. /\ Len(script) \in Nat /\ Len(starts) \in Nat /\ Len(stream) \in Nat
      /\ Len(received) \in Nat /\ Len(data) \in Nat /\ nread \in Nat
      /\ DOMAIN starts = 1..Len(starts)
  BY <1>1, LenProperties
<1>3. starts = <<>> <=> Len(starts) = 0
  BY <1>1, <1>2, EmptySeq
<1>4. \A k \in 1..Len(script) : script[k] \in Objects
  BY <1>1, ElementOfSeq
<1>5. ASSUME NEW k \in Begun
      PROVE  /\ script[k] \in Objects /\ starts[k] \in Nat
             /\ Full(script[k]) \in Nat \ {0} /\ End(k) \in Nat
             /\ starts[k] < End(k)
             /\ Arrived(k) <=> Whole(k)
  <2>1. k \in 1..Len(script) /\ k \in 1..Len(starts)
    BY <1>1, <1>2 DEF Begun
  <2>2. script[k] \in Objects /\ starts[k] \in Nat
    BY <1>1, <1>4, <2>1, ElementOfSeq
  <2>3. Full(script[k]) \in Nat \ {0} /\ Len(Encoding(script[k])) = Full(script[k])
    BY <2>2, EncodingOf
  <2>. QED BY <1>2, <2>1, <2>2, <2>3 DEF End, Arrived, Whole
<1>. QED BY <1>2, <1>3, <1>4, <1>5

\* Nothing is sent or received yet.
LEMMA InitInv == Init => IInv
<1>. SUFFICES ASSUME Init  PROVE IInv
  OBVIOUS
<1>. USE DEF Init
<1>1. (\A S : << >> \in Seq(S)) /\ Len(<< >>) = 0 /\ DOMAIN << >> = {}
  BY EmptySeq
<1>2. script \in Seq(Objects) /\ Len(script) <= MaxObjects
  <2>1. PICK n \in 0..MaxObjects : script \in [1..n -> Objects]
    OBVIOUS
  <2>2. n \in Nat /\ script \in Seq(Objects)
    BY <2>1, StreamAssumption, SeqDef
  <2>3. Len(script) = n
    BY <2>1, <2>2
  <2>. QED BY <2>2, <2>3, StreamAssumption
<1>3. Len(script) \in Nat
  BY <1>2, LenProperties
<1>4. TypeOK
  BY <1>1, <1>2, <1>3, StreamAssumption DEF TypeOK
<1>5. Types
  BY <1>1, <1>4 DEF Types
<1>6. Begun = {}
  BY <1>1 DEF Begun
<1>7. Layout /\ SentSoFar /\ Place /\ Ended
  BY <1>1, <1>6 DEF Layout, SentSoFar, Place, Progress, Ended
<1>. QED BY <1>5, <1>7 DEF IInv

-----------------------------------------------------------------------------
(* The sender *)

\* A new object starts where everything before it ends.
LEMMA StepSerialize ==
    ASSUME IInv, Serialize
    PROVE  IInv'
<1>0. Types /\ Layout /\ SentSoFar /\ Place /\ Ended
  BY DEF IInv
<1>1. PICK n, r : n = Len(starts) /\ r = Len(received)
  OBVIOUS
<1>2. /\ spc = "idle" /\ spc' = "primitive" /\ i' = 0 /\ n < Len(script)
      /\ starts' = Append(starts, Len(stream))
      /\ UNCHANGED <<script, stream, conn, nread, rpc, data, length, received>>
  BY <1>1 DEF Serialize, receiverVars
<1>3. /\ n \in Nat /\ r \in Nat /\ Len(stream) \in Nat /\ nread \in Nat
      /\ Len(script) \in Nat /\ (starts = <<>> <=> n = 0)
      /\ starts \in Seq(Nat) /\ n + 1 \in 1..Len(script) /\ script[n + 1] \in Objects
      /\ \A k \in 1..n : End(k) \in Nat
  BY <1>0, <1>1, <1>2, ObjectFacts DEF Types, TypeOK, Begun
<1>4. /\ starts' \in Seq(Nat) /\ Len(starts') = n + 1 /\ starts' # <<>>
      /\ \A k \in 1..n : starts'[k] = starts[k]
      /\ starts'[n + 1] = Len(stream)
  BY <1>1, <1>2, <1>3, AppendProperties
<1>5. /\ Full(script[n + 1]) \in Nat \ {0} /\ Size(script[n + 1]) \in Nat
      /\ Len(Primitive(script[n + 1])) = Size(script[n + 1])
  BY <1>3, EncodingOf
<1>6. /\ Begun = 1..n /\ Begun' = 1..(n + 1)
      /\ \A k \in 1..n : End(k)' = End(k) /\ (Whole(k)' <=> Whole(k))
      /\ End(n + 1)' = Len(stream) + Full(script[n + 1]) /\ ~Whole(n + 1)'
  BY <1>1, <1>2, <1>3, <1>4, <1>5 DEF Begun, End, Whole, Full
<1>7. Types'
  <2>1. Sent' = Primitive(script[n + 1])
    BY <1>2, <1>4 DEF Sent, Sending
  <2>2. spc' \in {"primitive", "chars"} => starts' # <<>> /\ i' \in 0..Len(Sent')
    BY <1>2, <1>4, <1>5, <2>1
  <2>3. TypeOK'
    BY <1>0, <1>2, <1>3, <1>4, <2>2 DEF Types, TypeOK, Wanted
  <2>. QED BY <1>0, <1>2, <2>3 DEF Types
<1>8. Layout'
  <2>1. ASSUME NEW k \in 1..(n + 1), NEW j \in 1..Full(script[k]),
               starts'[k] + j <= Len(stream)
        PROVE  stream[starts'[k] + j] = Encoding(script[k])[j]
    <3>1. k \in 1..n
      BY <1>3, <1>4, <1>5, <2>1
    <3>. QED BY <1>0, <1>4, <1>6, <2>1, <3>1 DEF Layout
  <2>2. ASSUME NEW k \in 1..n, Whole(k)  PROVE starts'[k + 1] = End(k)
    <3>1. CASE k + 1 \in 1..n
      BY <1>0, <1>4, <1>6, <2>2, <3>1 DEF Layout
    <3>2. CASE k = n
      BY <1>0, <1>1, <1>3, <1>4, <2>2, <3>2 DEF Layout, Whole
    <3>. QED BY <1>3, <3>1, <3>2
  <2>3. ASSUME NEW j \in 1..(n + 1), NEW k \in 1..(n + 1), j < k,
               Whole(k)' \/ conn = "open"
        PROVE  End(j)' <= starts'[k]
    <3>1. CASE k \in 1..n
      <4>1. j \in 1..n
        BY <1>3, <2>3, <3>1
      <4>2. Whole(k) \/ conn = "open"
        BY <1>6, <2>3, <3>1
      <4>3. End(j) <= starts[k]
        BY <1>0, <1>6, <2>3, <3>1, <4>1, <4>2 DEF Layout
      <4>. QED BY <1>4, <1>6, <3>1, <4>1, <4>3
    <3>2. CASE k = n + 1
      <4>1. conn = "open" /\ j \in 1..n
        BY <1>3, <1>6, <2>3, <3>2
      <4>2. CASE j < n
        BY <1>0, <1>1, <1>4, <1>6, <3>2, <4>1, <4>2 DEF SentSoFar, Whole
      <4>3. CASE j = n
        BY <1>0, <1>1, <1>2, <1>3, <1>4, <1>6, <3>2, <4>1, <4>3 DEF SentSoFar, Whole
      <4>. QED BY <1>3, <4>1, <4>2, <4>3
    <3>. QED BY <1>3, <3>1, <3>2
  <2>4. \A k \in 1..(n + 1) : Whole(k)' /\ k + 1 \in 1..(n + 1) => starts'[k + 1] = End(k)'
    BY <1>3, <1>6, <2>2
  <2>5. Len(stream) <= End(n + 1)'
    BY <1>3, <1>5, <1>6
  <2>. QED BY <1>2, <1>4, <1>6, <2>1, <2>3, <2>4, <2>5 DEF Layout
<1>9. SentSoFar'
  <2>1. ASSUME conn = "open", NEW k \in 1..n  PROVE Whole(k)'
    <3>1. CASE k < n
      BY <1>0, <1>1, <1>6, <2>1, <3>1 DEF SentSoFar
    <3>2. CASE k = n
      BY <1>0, <1>1, <1>2, <1>3, <1>6, <2>1, <3>2 DEF SentSoFar, Whole
    <3>. QED BY <1>3, <3>1, <3>2
  <2>. QED BY <1>2, <1>3, <1>4, <1>6, <2>1 DEF SentSoFar
<1>10. Place'
  <2>1. Progress' = Progress
    BY <1>2 DEF Progress
  <2>2. ASSUME rpc # "threw"  PROVE nread = starts'[r + 1] + Progress
    <3>1. CASE r < n
      BY <1>0, <1>1, <1>3, <1>4, <2>2, <3>1 DEF Place
    <3>2. CASE r = n
      BY <1>0, <1>1, <1>3, <1>4, <2>2, <3>2 DEF Place
    <3>. QED BY <1>0, <1>1, <1>3, <3>1, <3>2 DEF Place
  <2>3. r <= n /\ \A k \in 1..n : k <= r => End(k)' <= nread
    BY <1>0, <1>1, <1>6 DEF Place
  <2>4. rpc # "threw" => \A j \in 1..Len(data) : data[j] = stream[nread - Len(data) + j]
    BY <1>0 DEF Place
  <2>5. r <= n + 1 /\ r # n + 1 /\ \A k \in 1..(n + 1) : k <= r => End(k)' <= nread
    BY <1>3, <2>3
  <2>6. Len(received') = r
    BY <1>1, <1>2
  <2>. QED BY <1>0, <1>2, <1>4, <1>6, <2>1, <2>2, <2>4, <2>5, <2>6 DEF Place
<1>11. Ended'
  BY <1>0, <1>2, <1>3, <1>6 DEF Ended
<1>. QED BY <1>7, <1>8, <1>9, <1>10, <1>11 DEF IInv

\* The kernel takes more bytes of the object that is being sent.
LEMMA StepSendBytes ==
    ASSUME IInv, NEW m \in Nat, SendBytes(m)
    PROVE  IInv'
<1>0. Types /\ Layout /\ SentSoFar /\ Place
  BY DEF IInv
<1>1. PICK n, r, l, o : n = Len(starts) /\ r = Len(received) /\ l = Len(stream) /\ o = Sending
  OBVIOUS
<1>2. /\ spc \in {"primitive", "chars"} /\ i < Len(Sent) /\ conn = "open"
      /\ m <= Len(Sent) - i /\ l + m - nread <= Capacity
      /\ stream' = stream \o SubSeq(Sent, i + 1, i + m) /\ i' = i + m
      /\ UNCHANGED <<script, spc, starts, conn, nread, rpc, data, length, received>>
  BY <1>1 DEF SendBytes, receiverVars
<1>3. starts # <<>> /\ i \in Nat /\ stream \in Seq(Byte) /\ nread \in 0..l
  BY <1>0, <1>1, <1>2 DEF Types, TypeOK
<1>4. /\ n \in Nat \ {0} /\ r \in Nat /\ l \in Nat /\ nread \in Nat /\ Len(data) \in Nat
      /\ Begun = 1..n /\ n \in 1..n /\ o = script[n] /\ o \in Objects
      /\ \A k \in 1..n : starts[k] \in Nat /\ Full(script[k]) \in Nat /\ End(k) \in Nat
  BY <1>0, <1>1, <1>3, ObjectFacts DEF Begun, Sending
<1>5. PICK off \in Nat :
         /\ l = starts[n] + off + i
         /\ Sent \in Seq(Byte) /\ Len(Sent) \in Nat /\ off + Len(Sent) <= Full(o)
         /\ \A j \in 1..Len(Sent) : Encoding(o)[off + j] = Sent[j]
  <2>1. CASE spc = "primitive"
    <3>1. Sent = Primitive(o) /\ l = starts[n] + i
      BY <1>0, <1>1, <1>2, <2>1 DEF Sent, SentSoFar
    <3>2. /\ Sent \in Seq(Byte) /\ Len(Sent) \in Nat /\ Len(Sent) <= Full(o)
          /\ \A j \in 1..Len(Sent) : Encoding(o)[j] = Sent[j]
      BY <1>4, <3>1, EncodingOf
    <3>3. /\ \A j \in 1..Len(Sent) : 0 + j = j
          /\ 0 + Len(Sent) = Len(Sent) /\ starts[n] + 0 + i = starts[n] + i
      BY <1>3, <1>4, <3>2
    <3>4. /\ 0 \in Nat /\ l = starts[n] + 0 + i /\ 0 + Len(Sent) <= Full(o)
          /\ \A j \in 1..Len(Sent) : Encoding(o)[0 + j] = Sent[j]
      BY <3>1, <3>2, <3>3
    <3>. QED BY <3>2, <3>4
  <2>2. CASE spc = "chars"
    <3>1. Sent = o /\ o \notin Tokens /\ l = starts[n] + LengthSize + i
      BY <1>0, <1>1, <1>2, <2>2 DEF Sent, SentSoFar, Types
    <3>2. /\ Sent \in Seq(Byte) /\ Len(Sent) \in Nat /\ LengthSize + Len(Sent) <= Full(o)
          /\ \A j \in 1..Len(Sent) : Encoding(o)[LengthSize + j] = Sent[j]
      BY <1>4, <3>1, EncodingOf, StreamAssumption
    <3>. QED BY <3>1, <3>2, StreamAssumption
  <2>. QED BY <1>2, <2>1, <2>2
<1>6. PICK z, sn, fo, ii : z = Len(Sent) /\ sn = starts[n] /\ fo = Full(o) /\ ii = i
  OBVIOUS
<1>7. /\ z \in Nat /\ sn \in Nat /\ fo \in Nat /\ ii \in Nat /\ l = sn + off + ii
      /\ off + z <= fo /\ ii < z /\ ii + m <= z
  <2>1. sn \in Nat /\ fo \in Nat
    BY <1>4, <1>6
  <2>2. z \in Nat /\ l = sn + off + ii /\ off + z <= fo
    BY <1>5, <1>6
  <2>3. ii \in Nat /\ ii < z /\ m <= z - ii
    BY <1>2, <1>3, <1>6
  <2>. QED BY <2>1, <2>2, <2>3
<1>8. ii + m \in 0..z /\ l < sn + fo /\ l + m <= sn + fo /\ l + m = sn + off + (ii + m)
  BY <1>7
<1>9. /\ stream' \in Seq(Byte) /\ Len(stream') = l + m
      /\ \A j \in 1..l : stream'[j] = stream[j]
      /\ \A j \in 1..m : stream'[l + j] = Sent[i + j]
  <2>. DEFINE piece == SubSeq(Sent, i + 1, i + m)
  <2>1. \A j \in (i + 1)..(i + m) : Sent[j] \in Byte
    BY <1>2, <1>3, <1>5, ElementOfSeq
  <2>2. piece \in Seq(Byte) /\ Len(piece) = m /\ \A j \in 1..m : piece[j] = Sent[i + j]
    <3>1. i + 1 \in Int /\ i + m \in Int /\ (i + m) - (i + 1) + 1 = m
      BY <1>6, <1>7
    <3>2. /\ piece \in Seq(Byte)
          /\ Len(piece) = IF i + 1 <= i + m THEN (i + m) - (i + 1) + 1 ELSE 0
          /\ \A j \in 1..((i + m) - (i + 1) + 1) : piece[j] = Sent[(i + 1) + j - 1]
      BY <2>1, <3>1, SubSeqProperties
    <3>3. Len(piece) = m
      BY <1>6, <1>7, <3>1, <3>2
    <3>4. \A j \in 1..m : (i + 1) + j - 1 = i + j
      BY <1>6, <1>7
    <3>. QED BY <3>1, <3>2, <3>3, <3>4
  <2>. HIDE DEF piece
  <2>3. /\ stream \o piece \in Seq(Byte) /\ Len(stream \o piece) = l + m
        /\ \A j \in 1..(l + m) :
              (stream \o piece)[j] = IF j <= l THEN stream[j] ELSE piece[j - l]
    BY <1>1, <1>3, <2>2, ConcatProperties
  <2>4. stream' = stream \o piece
    BY <1>2 DEF piece
  <2>5. /\ \A j \in 1..l : j \in 1..(l + m) /\ j <= l
        /\ \A j \in 1..m : l + j \in 1..(l + m) /\ ~(l + j <= l) /\ (l + j) - l = j
    BY <1>4
  <2>. QED BY <2>2, <2>3, <2>4, <2>5
<1>10. /\ End(n) = starts[n] + Full(o) /\ l < End(n) /\ l + m <= End(n)
      /\ r < n
  <2>1. End(n) = starts[n] + Full(o)
    BY <1>4 DEF End
  <2>2. l < End(n) /\ l + m <= End(n)
    BY <1>6, <1>8, <2>1
  <2>3. r <= n /\ (n <= r => End(n) <= nread)
    BY <1>0, <1>1, <1>4 DEF Place
  <2>. QED BY <1>3, <1>4, <2>1, <2>2, <2>3
<1>11. /\ Begun' = 1..n /\ \A k \in 1..n : End(k)' = End(k) /\ (Whole(k) => Whole(k)')
      /\ \A k \in 1..n : k < n => Whole(k)
  <2>1. Begun' = Begun /\ \A k : End(k)' = End(k)
    BY <1>2 DEF Begun, End, Full
  <2>2. \A k \in 1..n : Whole(k) => Whole(k)'
    BY <1>1, <1>4, <1>9, <2>1 DEF Whole
  <2>. QED BY <1>0, <1>1, <1>2, <1>4, <2>1, <2>2 DEF SentSoFar
<1>12. Types'
  <2>1. Sent' = Sent /\ Sending' = Sending
    BY <1>2 DEF Sent, Sending
  <2>2. nread \in 0..(l + m) /\ i + m \in 0..Len(Sent) /\ i + m \in Nat
    <3>1. nread \in 0..(l + m)
      BY <1>3, <1>4
    <3>. QED BY <1>6, <1>7, <1>8, <3>1
  <2>3. TypeOK'
    BY <1>0, <1>1, <1>2, <1>9, <2>1, <2>2 DEF Types, TypeOK, Wanted
  <2>. QED BY <1>0, <1>2, <1>9, <2>1, <2>2, <2>3 DEF Types
<1>13. Layout'
  <2>1. ASSUME NEW k \in 1..n, NEW j \in 1..Full(script[k]), starts[k] + j <= l + m
        PROVE  stream'[starts[k] + j] = Encoding(script[k])[j]
    <3>1. CASE starts[k] + j <= l
      <4>1. stream[starts[k] + j] = Encoding(script[k])[j]
        BY <1>0, <1>1, <1>4, <3>1 DEF Layout
      <4>. QED BY <1>4, <1>9, <3>1, <4>1
    <3>2. CASE starts[k] + j > l
      <4>1. k = n
        <5>1. Whole(k) => starts[k] + j <= l
          BY <1>1, <1>4 DEF Whole, End
        <5>. QED BY <1>4, <1>11, <3>2, <5>1
      <4>2. PICK q \in 1..m : sn + j = l + q
        <5>1. sn + j > l /\ sn + j <= l + m
          BY <1>6, <2>1, <3>2, <4>1
        <5>2. (sn + j) - l \in 1..m /\ sn + j = l + ((sn + j) - l)
          BY <1>4, <1>7, <2>1, <5>1
        <5>. QED BY <5>2
      <4>3. j = off + (ii + q) /\ ii + q \in 1..z
        BY <1>7, <2>1, <4>2
      <4>. QED BY <1>4, <1>5, <1>9, <1>6, <4>1, <4>2, <4>3
    <3>. QED BY <1>4, <3>1, <3>2
  <2>2. \A k \in 1..n : k + 1 \in 1..n => starts[k + 1] = End(k)
    BY <1>0, <1>4, <1>11 DEF Layout
  <2>3. \A j, k \in 1..n : j < k => End(j) <= starts[k]
    BY <1>0, <1>2, <1>4 DEF Layout
  <2>4. End(n)' = End(n) /\ Len(stream') <= End(n)
    BY <1>4, <1>9, <1>10, <1>11
  <2>5. \A k \in 1..n : End(k)' = End(k)
    BY <1>11
  <2>6. /\ Begun' = 1..n /\ Len(stream') = l + m /\ starts' = starts /\ script' = script
        /\ starts' # <<>> /\ Len(starts') = n
    BY <1>1, <1>2, <1>3, <1>9, <1>11
  <2>7. \A k \in Begun' : \A j \in 1..Full(script[k])' :
           starts'[k] + j <= Len(stream') => stream'[starts'[k] + j] = Encoding(script[k])'[j]
    <3>1. \A k : Full(script[k])' = Full(script[k]) /\ Encoding(script[k])' = Encoding(script[k])
      BY <2>6
    <3>. QED BY <2>1, <2>6, <3>1
  <2>8. \A k \in Begun' : k + 1 \in Begun' => starts'[k + 1] = End(k)'
    BY <2>2, <2>5, <2>6
  <2>9. \A j, k \in Begun' : j < k => End(j)' <= starts'[k]
    BY <2>3, <2>5, <2>6
  <2>10. Len(stream') <= End(Len(starts))'
    BY <1>1, <2>4, <2>6
  <2>. QED BY <2>6, <2>7, <2>8, <2>9, <2>10 DEF Layout
<1>14. SentSoFar'
  <2>1. spc = "primitive" => l + m = starts[n] + (i + m)
    <3>1. spc = "primitive" => l = sn + ii
      BY <1>0, <1>1, <1>2, <1>6 DEF SentSoFar
    <3>. QED BY <1>6, <1>7, <3>1
  <2>2. spc = "chars" => l + m = starts[n] + LengthSize + (i + m)
    <3>1. spc = "chars" => l = sn + LengthSize + ii
      BY <1>0, <1>1, <1>2, <1>6 DEF SentSoFar
    <3>. QED BY <1>6, <1>7, <3>1, StreamAssumption
  <2>. QED BY <1>1, <1>2, <1>9, <1>11, <2>1, <2>2 DEF SentSoFar
<1>15. Place'
  <2>1. Progress' = Progress /\ Progress \in Nat /\ Len(data) <= Progress
    BY <1>2, <1>4, StreamAssumption DEF Progress
  <2>2. ASSUME rpc # "threw", NEW j \in 1..Len(data)
        PROVE  data[j] = stream'[nread - Len(data) + j]
    <3>1. r + 1 \in 1..n
      BY <1>4, <1>10
    <3>2. nread = starts[r + 1] + Progress
      BY <1>0, <1>1, <1>10, <2>2 DEF Place
    <3>3. starts[r + 1] \in Nat
      BY <1>4, <3>1
    <3>4. nread - Len(data) + j \in 1..l
      <4>1. /\ nread \in Nat /\ nread <= l /\ l \in Nat
            /\ Len(data) \in Nat /\ Len(data) <= nread
        BY <1>3, <1>4, <2>1, <3>2, <3>3
      <4>. QED BY <2>2, <4>1
    <3>. QED BY <1>0, <1>9, <2>2, <3>4 DEF Place
  <2>3. r # n
    BY <1>4, <1>10
  <2>. QED BY <1>0, <1>1, <1>2, <1>4, <1>10, <1>11, <2>1, <2>2, <2>3 DEF Place
<1>16. Ended'
  BY <1>0, <1>2 DEF Place, Ended
<1>. QED BY <1>12, <1>13, <1>14, <1>15, <1>16 DEF IInv

\* A step of the sender that leaves the stream and the receiver alone
LEMMA StaysLaidOut ==
    ASSUME Layout, Place, Ended,
           UNCHANGED <<script, starts, stream, nread, rpc, data, length, received>>,
           conn' = "open" => conn = "open", conn # "open" => conn' # "open"
    PROVE  Layout' /\ Place' /\ Ended'
<1>1. /\ Begun' = Begun /\ \A k : End(k)' = End(k) /\ (Whole(k)' <=> Whole(k))
      /\ Progress' = Progress
  BY DEF Begun, End, Whole, Full, Progress
<1>2. Layout'
  <2>1. \A k : Full(script[k])' = Full(script[k]) /\ Encoding(script[k])' = Encoding(script[k])
    OBVIOUS
  <2>2. \A k \in Begun' : \A j \in 1..Full(script[k])' :
           starts'[k] + j <= Len(stream') => stream'[starts'[k] + j] = Encoding(script[k])'[j]
    BY <1>1, <2>1 DEF Layout
  <2>3. ASSUME NEW j \in Begun', NEW k \in Begun', j < k, Whole(k)' \/ conn' = "open"
        PROVE  End(j)' <= starts'[k]
    BY <1>1, <2>3 DEF Layout
  <2>4. /\ \A k \in Begun' : Whole(k)' /\ k + 1 \in Begun' => starts'[k + 1] = End(k)'
        /\ starts' = <<>> => stream' = <<>>
        /\ starts' # <<>> => Len(stream') <= End(Len(starts))'
    BY <1>1 DEF Layout
  <2>. QED BY <2>2, <2>3, <2>4 DEF Layout
<1>3. Place'
  BY <1>1 DEF Place
<1>4. Ended'
  BY <1>1 DEF Ended
<1>. QED BY <1>2, <1>3, <1>4

\* One send of an object is complete; the characters of a string are next.
LEMMA StepSendReturns ==
    ASSUME IInv, SendReturns
    PROVE  IInv'
<1>0. Types /\ Layout /\ SentSoFar /\ Place /\ Ended
  BY DEF IInv
<1>1. PICK n, o : n = Len(starts) /\ o = Sending
  OBVIOUS
<1>2. /\ spc \in {"primitive", "chars"} /\ i >= Len(Sent) /\ i' = 0
      /\ spc' = IF spc = "primitive" /\ o \notin Tokens THEN "chars" ELSE "idle"
      /\ UNCHANGED <<script, starts, stream, conn, nread, rpc, data, length, received>>
  BY <1>1 DEF SendReturns, receiverVars
<1>3. starts # <<>> /\ i \in 0..Len(Sent)
  BY <1>0, <1>2 DEF Types, TypeOK
<1>4. /\ n \in Nat \ {0} /\ n \in Begun /\ o = script[n] /\ o \in Objects
      /\ starts[n] \in Nat /\ End(n) = starts[n] + Full(o)
  BY <1>0, <1>1, <1>3, ObjectFacts DEF Begun, Sending, End
<1>5. /\ spc = "primitive" => Len(Sent) = Size(o)
      /\ spc = "chars" => o \notin Tokens /\ Len(Sent) = Len(o)
      /\ Size(o) \in Nat
      /\ o \in Tokens => Full(o) = Size(o)
      /\ o \notin Tokens => /\ Full(o) = LengthSize + Len(o) /\ Size(o) = LengthSize
                            /\ Len(o) \in Nat
  BY <1>0, <1>1, <1>4, EncodingOf DEF Sent, Types
<1>6. i = Len(Sent)
  BY <1>2, <1>3, <1>5
<1>7. Types'
  <2>1. Sending' = o
    BY <1>1, <1>2 DEF Sending
  <2>2. spc' = "chars" => Sent' = o /\ o \notin Tokens
    BY <1>2, <2>1 DEF Sent
  <2>3. spc' \in {"primitive", "chars"} => starts # <<>> /\ i' \in 0..Len(Sent')
    BY <1>2, <1>3, <1>5, <2>2
  <2>4. TypeOK'
    BY <1>0, <1>2, <2>3 DEF Types, TypeOK, Wanted
  <2>. QED BY <1>0, <1>2, <2>1, <2>2, <2>4 DEF Types
<1>8. SentSoFar'
  <2>1. ASSUME conn = "open", spc' = "idle"  PROVE Len(stream) = End(n)
    <3>1. CASE spc = "primitive"
      <4>1. o \in Tokens /\ Len(stream) = starts[n] + i
        BY <1>0, <1>1, <1>2, <2>1, <3>1 DEF SentSoFar
      <4>. QED BY <1>4, <1>5, <1>6, <3>1, <4>1
    <3>2. CASE spc = "chars"
      <4>1. Len(stream) = starts[n] + LengthSize + i
        BY <1>0, <1>1, <2>1, <3>2 DEF SentSoFar
      <4>. QED BY <1>4, <1>5, <1>6, <3>2, <4>1, StreamAssumption
    <3>. QED BY <1>2, <3>1, <3>2
  <2>2. ASSUME conn = "open", spc' = "chars"
        PROVE  Len(stream) = starts[n] + LengthSize + 0
    <3>1. spc = "primitive" /\ o \notin Tokens /\ Len(stream) = starts[n] + i
      BY <1>0, <1>1, <1>2, <2>2 DEF SentSoFar
    <3>. QED BY <1>4, <1>5, <1>6, <3>1
  <2>3. Begun' = Begun /\ \A k : End(k)' = End(k) /\ (Whole(k)' <=> Whole(k))
    BY <1>2 DEF Begun, End, Whole, Full
  <2>. QED BY <1>0, <1>1, <1>2, <2>1, <2>2, <2>3 DEF SentSoFar
<1>9. Layout' /\ Place' /\ Ended'
  BY <1>0, <1>2, StaysLaidOut
<1>. QED BY <1>7, <1>8, <1>9 DEF IInv

\* The sender throws or leaves, and what it sent stays where it is.
LEMMA StepSenderStops ==
    ASSUME IInv, SendThrows \/ SenderLeaves
    PROVE  IInv'
<1>0. Types /\ Layout /\ SentSoFar /\ Place /\ Ended
  BY DEF IInv
<1>1. /\ spc' \in {"failed", "gone"} /\ conn' \in {"fin", "reset"}
      /\ UNCHANGED <<script, i, starts, stream, nread, rpc, data, length, received>>
  BY DEF SendThrows, SenderLeaves, receiverVars
<1>2. Types'
  BY <1>0, <1>1 DEF Types, TypeOK, Wanted
<1>3. SentSoFar'
  BY <1>1 DEF SentSoFar
<1>4. Layout' /\ Place' /\ Ended'
  BY <1>0, <1>1, StaysLaidOut
<1>. QED BY <1>2, <1>3, <1>4 DEF IInv

\* The stream is cut behind what the receiver has read.
LEMMA StepReset ==
    ASSUME IInv, Reset
    PROVE  IInv'
<1>0. Types /\ Layout /\ SentSoFar /\ Place
  BY DEF IInv
<1>1. PICK m \in nread..Len(stream) : stream' = SubSeq(stream, 1, m)
  BY DEF Reset
<1>2. /\ conn = "open" /\ conn' = "reset"
      /\ UNCHANGED <<script, spc, i, starts, nread, rpc, data, length, received>>
  BY DEF Reset, senderVars, receiverVars
<1>3. PICK n, r, l : n = Len(starts) /\ r = Len(received) /\ l = Len(stream)
  OBVIOUS
<1>4. /\ n \in Nat /\ r \in Nat /\ l \in Nat /\ nread \in Nat /\ Len(data) \in Nat
      /\ m \in Nat /\ nread <= m /\ m <= l /\ stream \in Seq(Byte)
      /\ Begun = 1..n /\ (starts = <<>> <=> n = 0)
      /\ \A k \in 1..n : starts[k] \in Nat /\ Full(script[k]) \in Nat /\ End(k) \in Nat
                         /\ starts[k] < End(k)
  BY <1>0, <1>1, <1>3, ObjectFacts DEF Begun, Types
<1>5. stream' \in Seq(Byte) /\ Len(stream') = m /\ \A j \in 1..m : stream'[j] = stream[j]
  <2>1. \A j \in 1..m : stream[j] \in Byte
    BY <1>3, <1>4, ElementOfSeq
  <2>2. 1 \in Int /\ m \in Int /\ m - 1 + 1 = m /\ (1 <= m \/ m = 0)
    BY <1>4
  <2>3. \A j \in 1..m : 1 + j - 1 = j
    OBVIOUS
  <2>. QED BY <1>1, <2>1, <2>2, <2>3, SubSeqProperties
<1>6. /\ Begun' = 1..n /\ \A k \in 1..n : End(k)' = End(k) /\ (Whole(k)' => End(k) <= m)
      /\ \A k \in 1..n : Whole(k)' => Whole(k)
  <2>1. Begun' = Begun /\ \A k : End(k)' = End(k)
    BY <1>2 DEF Begun, End, Full
  <2>2. ASSUME NEW k \in 1..n, Whole(k)'  PROVE End(k) <= m /\ Whole(k)
    <3>1. End(k) <= m
      BY <1>5, <2>1, <2>2 DEF Whole
    <3>2. End(k) <= l
      BY <1>4, <3>1
    <3>. QED BY <1>3, <3>1, <3>2 DEF Whole
  <2>. QED BY <1>4, <2>1, <2>2
<1>7. Types'
  <2>1. Sent' = Sent /\ Sending' = Sending /\ Wanted' = Wanted
    BY <1>2 DEF Sent, Sending, Wanted
  <2>2. nread \in 0..m /\ m - nread <= Capacity
    <3>1. l - nread <= Capacity
      BY <1>0, <1>3 DEF Types, TypeOK
    <3>. QED BY <1>4, <3>1, StreamAssumption
  <2>3. TypeOK'
    BY <1>0, <1>2, <1>5, <2>1, <2>2 DEF Types, TypeOK
  <2>. QED BY <1>0, <1>2, <1>5, <2>1, <2>3 DEF Types
<1>8. Layout'
  <2>1. \A k : Full(script[k])' = Full(script[k]) /\ Encoding(script[k])' = Encoding(script[k])
    BY <1>2
  <2>2. ASSUME NEW k \in 1..n, NEW j \in 1..Full(script[k]), starts[k] + j <= m
        PROVE  stream'[starts[k] + j] = Encoding(script[k])[j]
    <3>1. starts[k] + j \in 1..m /\ starts[k] + j <= l
      BY <1>4, <2>2
    <3>. QED BY <1>0, <1>3, <1>4, <1>5, <3>1 DEF Layout
  <2>3. \A k \in 1..n : Whole(k)' /\ k + 1 \in 1..n => starts[k + 1] = End(k)
    BY <1>0, <1>4, <1>6 DEF Layout
  <2>4. \A j, k \in 1..n : j < k => End(j) <= starts[k]
    BY <1>0, <1>2, <1>4 DEF Layout
  <2>5. starts = <<>> => stream' = <<>>
    <3>1. starts = <<>> => Len(stream') = 0
      BY <1>0, <1>3, <1>4, <1>5, EmptySeq DEF Layout
    <3>. QED BY <1>5, <3>1, EmptySeq
  <2>6. starts # <<>> => Len(stream') <= End(n)
    <3>1. starts # <<>> => n \in 1..n /\ l <= End(n)
      BY <1>0, <1>3, <1>4 DEF Layout
    <3>. QED BY <1>4, <1>5, <3>1
  <2>7. /\ Len(starts') = n /\ starts' = starts /\ \A k \in 1..n : End(k)' = End(k)
        /\ starts # <<>> => n \in 1..n
    BY <1>2, <1>3, <1>4, <1>6
  <2>8. \A k \in Begun' : \A j \in 1..Full(script[k])' :
           starts'[k] + j <= Len(stream') => stream'[starts'[k] + j] = Encoding(script[k])'[j]
    BY <1>5, <1>6, <2>1, <2>2, <2>7
  <2>9. /\ \A k \in Begun' : Whole(k)' /\ k + 1 \in Begun' => starts'[k + 1] = End(k)'
        /\ \A j, k \in Begun' : j < k => End(j)' <= starts'[k]
        /\ starts' = <<>> => stream' = <<>>
        /\ starts' # <<>> => Len(stream') <= End(Len(starts))'
    BY <1>6, <2>3, <2>4, <2>5, <2>6, <2>7
  <2>. QED BY <2>8, <2>9 DEF Layout
<1>9. SentSoFar'
  BY <1>2 DEF SentSoFar
<1>10. Place'
  <2>1. Progress' = Progress /\ Progress \in Nat /\ Len(data) <= Progress
    BY <1>2, <1>4, StreamAssumption DEF Progress
  <2>2. ASSUME rpc # "threw", NEW j \in 1..Len(data)
        PROVE  data[j] = stream'[nread - Len(data) + j]
    <3>1. Len(data) <= nread
      <4>1. CASE r = n
        <5>1. Progress = 0
          BY <1>0, <1>3, <2>2, <4>1 DEF Place
        <5>. QED BY <1>4, <2>1, <5>1
      <4>2. CASE r < n
        <5>1. nread = starts[r + 1] + Progress
          BY <1>0, <1>3, <2>2, <4>2 DEF Place
        <5>2. starts[r + 1] \in Nat
          BY <1>4, <4>2
        <5>. QED BY <1>4, <2>1, <5>1, <5>2
      <4>3. r <= n
        BY <1>0, <1>3 DEF Place
      <4>. QED BY <1>4, <4>1, <4>2, <4>3
    <3>2. nread - Len(data) + j \in 1..m
      BY <1>4, <2>2, <3>1
    <3>. QED BY <1>0, <1>5, <2>2, <3>2 DEF Place
  <2>3. ASSUME rpc # "threw", r = n  PROVE nread = m
    BY <1>0, <1>3, <1>4, <2>3 DEF Place
  <2>4. /\ r <= n /\ \A k \in 1..n : k <= r => End(k)' <= nread
        /\ rpc # "threw" =>
              /\ r < n => nread = starts[r + 1] + Progress
              /\ r = n => Progress = 0
    BY <1>0, <1>3, <1>4, <1>6 DEF Place
  <2>5. /\ rpc = "idle" => data = <<>>
        /\ rpc = "chars" => script[r + 1] \notin Tokens /\ length = Len(script[r + 1])
    BY <1>0, <1>3 DEF Place
  <2>. QED BY <1>2, <1>3, <1>5, <1>6, <2>1, <2>2, <2>3, <2>4, <2>5 DEF Place
<1>11. Ended'
  BY <1>0, <1>2 DEF Place, Ended
<1>. QED BY <1>7, <1>8, <1>9, <1>10, <1>11 DEF IInv

-----------------------------------------------------------------------------
(* The receiver *)

\* The receiver does not touch what the sender has laid out.
LEMMA SenderStays ==
    ASSUME Layout, SentSoFar, UNCHANGED <<script, spc, i, starts, stream, conn>>
    PROVE  /\ Layout' /\ SentSoFar' /\ Begun' = Begun
           /\ \A k : End(k)' = End(k) /\ (Whole(k)' <=> Whole(k))
<1>1. /\ Begun' = Begun /\ \A k : End(k)' = End(k) /\ (Whole(k)' <=> Whole(k))
  BY DEF Begun, End, Whole, Full
<1>2. Layout'
  <2>1. \A k : Full(script[k])' = Full(script[k]) /\ Encoding(script[k])' = Encoding(script[k])
    OBVIOUS
  <2>2. \A k \in Begun' : \A j \in 1..Full(script[k])' :
           starts'[k] + j <= Len(stream') => stream'[starts'[k] + j] = Encoding(script[k])'[j]
    BY <1>1, <2>1 DEF Layout
  <2>3. ASSUME NEW j \in Begun', NEW k \in Begun', j < k, Whole(k)' \/ conn' = "open"
        PROVE  End(j)' <= starts'[k]
    BY <1>1, <2>3 DEF Layout
  <2>4. /\ \A k \in Begun' : Whole(k)' /\ k + 1 \in Begun' => starts'[k + 1] = End(k)'
        /\ starts' = <<>> => stream' = <<>>
        /\ starts' # <<>> => Len(stream') <= End(Len(starts))'
    BY <1>1 DEF Layout
  <2>. QED BY <2>2, <2>3, <2>4 DEF Layout
<1>3. SentSoFar'
  BY <1>1 DEF SentSoFar
<1>. QED BY <1>1, <1>2, <1>3

\* What a receive asks for, and that it is inside an object that was begun
\* once it has read a byte
LEMMA Receiving ==
    ASSUME IInv, rpc \in {"primitive", "chars"}
    PROVE  /\ Len(received) + 1 \in 1..Len(script) /\ Len(received) <= Len(starts)
           /\ script[Len(received) + 1] \in Objects
           /\ rpc = "primitive" => Wanted = Size(script[Len(received) + 1])
           /\ rpc = "chars" => /\ Wanted = length
                               /\ length = Len(script[Len(received) + 1])
                               /\ script[Len(received) + 1] \notin Tokens
           /\ Wanted \in Nat /\ Len(data) <= Wanted
           /\ nread < Len(stream) \/ Progress > 0 =>
                 /\ Len(received) + 1 \in Begun
                 /\ nread = starts[Len(received) + 1] + Progress
<1>0. Types /\ Place
  BY DEF IInv
<1>1. /\ Len(received) \in Nat /\ Len(script) \in Nat /\ Len(starts) \in Nat
      /\ Len(stream) \in Nat /\ Len(received) < Len(script) /\ Len(data) <= Wanted
      /\ Len(data) \in Nat /\ nread \in Nat
  BY <1>0, ObjectFacts DEF Types, TypeOK
<1>2. Len(received) + 1 \in 1..Len(script) /\ script[Len(received) + 1] \in Objects
  BY <1>0, <1>1, ObjectFacts
<1>3. /\ rpc = "primitive" => Wanted = Size(script[Len(received) + 1])
      /\ rpc = "chars" => /\ Wanted = length
                          /\ length = Len(script[Len(received) + 1])
                          /\ script[Len(received) + 1] \notin Tokens
  BY <1>0 DEF Wanted, Size, Place
<1>4. Wanted \in Nat
  BY <1>2, <1>3, EncodingOf
<1>5. Progress \in Nat
  BY <1>1, StreamAssumption DEF Progress
<1>6. ASSUME nread < Len(stream) \/ Progress > 0
      PROVE  Len(received) + 1 \in Begun /\ nread = starts[Len(received) + 1] + Progress
  <2>1. Len(received) # Len(starts)
    BY <1>0, <1>1, <1>5, <1>6 DEF Place
  <2>2. Len(received) < Len(starts)
    BY <1>0, <1>1, <2>1 DEF Place
  <2>. QED BY <1>0, <1>1, <2>2 DEF Place, Begun
<1>. QED BY <1>0, <1>1, <1>2, <1>3, <1>4, <1>6 DEF Place

\* The receiver turns to the next object, of which it has read nothing.
LEMMA StepDeserialize ==
    ASSUME IInv, Deserialize
    PROVE  IInv'
<1>0. Types /\ Layout /\ SentSoFar /\ Place /\ Ended
  BY DEF IInv
<1>1. /\ rpc = "idle" /\ rpc' = "primitive" /\ Len(received) < Len(script)
      /\ UNCHANGED <<script, spc, i, starts, stream, conn, nread, data, length, received>>
  BY DEF Deserialize, senderVars
<1>2. data = <<>> /\ Len(data) = 0
  BY <1>0, <1>1, EmptySeq DEF Place
<1>3. Types'
  <2>1. Sent' = Sent /\ Sending' = Sending
    BY <1>1 DEF Sent, Sending
  <2>2. Wanted' \in Nat
    BY <1>1, StreamAssumption DEF Wanted
  <2>3. TypeOK'
    BY <1>0, <1>1, <1>2, <2>1, <2>2 DEF Types, TypeOK
  <2>. QED BY <1>0, <1>1, <2>1, <2>3 DEF Types
<1>4. Layout' /\ SentSoFar' /\ Begun' = Begun /\ \A k : End(k)' = End(k)
  BY <1>0, <1>1, SenderStays
<1>5. Place'
  <2>1. Progress' = Progress
    BY <1>1 DEF Progress
  <2>. QED BY <1>0, <1>1, <1>4, <2>1 DEF Place
<1>6. Ended'
  BY <1>1 DEF Ended
<1>. QED BY <1>3, <1>4, <1>5, <1>6 DEF IInv

\* The receiver reads on, inside the bytes of the object that it is in.
LEMMA StepReceiveBytes ==
    ASSUME IInv, NEW m \in 1..Capacity, ReceiveBytes(m)
    PROVE  IInv'
<1>0. Types /\ Layout /\ SentSoFar /\ Place /\ Ended
  BY DEF IInv
<1>1. /\ rpc \in {"primitive", "chars"} /\ m <= Wanted - Len(data)
      /\ nread + m <= Len(stream) /\ nread' = nread + m
      /\ data' = data \o SubSeq(stream, nread + 1, nread + m)
      /\ UNCHANGED <<script, spc, i, starts, stream, conn, rpc, length, received>>
  BY DEF ReceiveBytes, senderVars
<1>2. PICK d, x, l, r : d = Len(data) /\ x = nread /\ l = Len(stream) /\ r = Len(received)
  OBVIOUS
<1>3. /\ d \in Nat /\ x \in Nat /\ l \in Nat /\ m \in Nat \ {0} /\ x + m <= l /\ r \in Nat
      /\ stream \in Seq(Byte) /\ data \in Seq(Byte)
  BY <1>0, <1>1, <1>2, ObjectFacts, StreamAssumption DEF Types
<1>4. /\ Wanted \in Nat /\ d + m <= Wanted /\ r + 1 \in Begun /\ x = starts[r + 1] + Progress
  <2>1. nread < Len(stream)
    BY <1>2, <1>3
  <2>. QED BY <1>1, <1>2, <1>3, <2>1, Receiving
<1>5. /\ data' \in Seq(Byte) /\ Len(data') = d + m
      /\ \A j \in 1..d : data'[j] = data[j]
      /\ \A j \in 1..m : data'[d + j] = stream[x + j]
  <2>. DEFINE piece == SubSeq(stream, x + 1, x + m)
  <2>1. \A j \in (x + 1)..(x + m) : stream[j] \in Byte
    <3>1. \A j \in (x + 1)..(x + m) : j \in 1..l
      BY <1>3
    <3>. QED BY <1>2, <1>3, <3>1, ElementOfSeq
  <2>2. piece \in Seq(Byte) /\ Len(piece) = m /\ \A j \in 1..m : piece[j] = stream[x + j]
    <3>1. x + 1 \in Int /\ x + m \in Int /\ (x + m) - (x + 1) + 1 = m /\ x + 1 <= x + m
      BY <1>3
    <3>2. \A j \in 1..m : (x + 1) + j - 1 = x + j
      BY <1>3
    <3>. QED BY <2>1, <3>1, <3>2, SubSeqProperties
  <2>3. data' = data \o piece
    BY <1>1, <1>2
  <2>. HIDE DEF piece
  <2>4. /\ data' \in Seq(Byte) /\ Len(data') = d + m
        /\ \A j \in 1..(d + m) : data'[j] = IF j <= d THEN data[j] ELSE piece[j - d]
    BY <1>2, <1>3, <2>2, <2>3, ConcatProperties
  <2>5. /\ \A j \in 1..d : j \in 1..(d + m) /\ j <= d
        /\ \A j \in 1..m : d + j \in 1..(d + m) /\ ~(d + j <= d) /\ (d + j) - d = j
    BY <1>3
  <2>. QED BY <2>2, <2>4, <2>5
<1>6. Types'
  <2>1. Sent' = Sent /\ Sending' = Sending /\ Wanted' = Wanted
    BY <1>1 DEF Sent, Sending, Wanted
  <2>2. x + m \in 0..l /\ l - (x + m) <= Capacity
    <3>1. l - x <= Capacity
      BY <1>0, <1>2 DEF Types, TypeOK
    <3>. QED BY <1>3, <3>1, StreamAssumption
  <2>3. TypeOK'
    BY <1>0, <1>1, <1>2, <1>4, <1>5, <2>1, <2>2 DEF Types, TypeOK
  <2>. QED BY <1>0, <1>1, <1>5, <2>1, <2>3 DEF Types
<1>7. Layout' /\ SentSoFar' /\ Begun' = Begun /\ \A k : End(k)' = End(k)
  BY <1>0, <1>1, SenderStays
<1>8. Place'
  <2>1. Progress' = Progress + m /\ Progress \in Nat
    <3>1. CASE rpc = "primitive"
      <4>1. Progress = d /\ Progress' = d + m
        BY <1>1, <1>2, <1>5, <3>1 DEF Progress
      <4>. QED BY <1>3, <4>1
    <3>2. CASE rpc = "chars"
      <4>1. Progress = LengthSize + d /\ Progress' = LengthSize + (d + m)
        BY <1>1, <1>2, <1>5, <3>2 DEF Progress
      <4>. QED BY <1>3, <4>1, StreamAssumption
    <3>. QED BY <1>1, <3>1, <3>2
  <2>2. starts[r + 1] \in Nat
    BY <1>0, <1>4, ObjectFacts
  <2>3. x + m = starts[r + 1] + Progress'
    BY <1>3, <1>4, <2>1, <2>2
  <2>4. \A j \in 1..(d + m) : data'[j] = stream[(x + m) - (d + m) + j]
    <3>. TAKE j \in 1..(d + m)
    <3>1. CASE j \in 1..d
      <4>1. data[j] = stream[x - d + j]
        BY <1>0, <1>1, <1>2, <3>1 DEF Place
      <4>2. (x + m) - (d + m) + j = x - d + j
        BY <1>3
      <4>. QED BY <1>5, <3>1, <4>1, <4>2
    <3>2. CASE j > d
      <4>1. j - d \in 1..m /\ d + (j - d) = j /\ x + (j - d) = (x + m) - (d + m) + j
        BY <1>3, <3>2
      <4>. QED BY <1>5, <4>1
    <3>. QED BY <1>3, <3>1, <3>2
  <2>5. r <= Len(starts) /\ r # Len(starts)
    BY <1>0, <1>2, <1>3, <1>4, ObjectFacts DEF Place, Begun
  <2>6. \A k \in Begun : k <= r => End(k) <= x + m
    <3>. TAKE k \in Begun
    <3>1. k <= r => End(k) <= x /\ End(k) \in Nat
      BY <1>0, <1>2, ObjectFacts DEF Place
    <3>. QED BY <1>3, <3>1
  <2>7. rpc = "chars" => script[r + 1] \notin Tokens /\ length = Len(script[r + 1])
    BY <1>0, <1>2 DEF Place
  <2>8. /\ Len(received') = r /\ Len(data') = d + m /\ nread' = x + m
        /\ rpc' = rpc /\ rpc # "threw" /\ rpc # "idle"
    BY <1>1, <1>2, <1>5
  <2>. QED BY <1>1, <1>7, <2>3, <2>4, <2>5, <2>6, <2>7, <2>8 DEF Place
<1>9. Ended'
  BY <1>1 DEF Ended
<1>. QED BY <1>6, <1>7, <1>8, <1>9 DEF IInv

\* Nothing is left to read, but not every byte of the object has come.
LEMMA StepReceiveThrows ==
    ASSUME IInv, ReceiveThrows
    PROVE  IInv'
<1>0. Types /\ Layout /\ SentSoFar /\ Place /\ Ended
  BY DEF IInv
<1>1. /\ rpc \in {"primitive", "chars"} /\ Len(data) < Wanted /\ nread = Len(stream)
      /\ conn # "open" /\ rpc' = "threw"
      /\ UNCHANGED <<script, spc, i, starts, stream, conn, nread, data, length, received>>
  BY DEF ReceiveThrows, senderVars
<1>2. PICK r : r = Len(received)
  OBVIOUS
<1>3. /\ r \in Nat /\ Len(data) \in Nat /\ nread \in Nat /\ Len(starts) \in Nat
      /\ r + 1 \in 1..Len(script) /\ r <= Len(starts) /\ script[r + 1] \in Objects
  BY <1>0, <1>1, <1>2, Receiving, ObjectFacts
<1>4. Types'
  <2>1. Sent' = Sent /\ Sending' = Sending
    BY <1>1 DEF Sent, Sending
  <2>2. TypeOK'
    BY <1>0, <1>1, <2>1 DEF Types, TypeOK
  <2>. QED BY <1>0, <1>1, <2>1, <2>2 DEF Types
<1>5. Layout' /\ SentSoFar' /\ Begun' = Begun /\ \A k : End(k)' = End(k) /\ (Whole(k)' <=> Whole(k))
  BY <1>0, <1>1, SenderStays
<1>6. Place'
  BY <1>0, <1>1, <1>5 DEF Place
<1>7. ASSUME NEW k \in Begun, Whole(k)  PROVE k <= r
  <2>. SUFFICES ASSUME k > r  PROVE FALSE
    BY <1>0, <1>3, ObjectFacts DEF Begun
  <2>1. r + 1 \in Begun /\ r + 1 <= k
    BY <1>3 DEF Begun
  <2>2. Whole(r + 1)
    <3>1. CASE k = r + 1
      BY <1>7, <3>1
    <3>2. CASE r + 1 < k
      <4>1. End(r + 1) <= starts[k] /\ starts[k] < End(k) /\ End(k) <= Len(stream)
        BY <1>0, <1>7, <2>1, <3>2, ObjectFacts DEF Layout, Whole
      <4>2. End(r + 1) \in Nat /\ starts[k] \in Nat /\ End(k) \in Nat /\ Len(stream) \in Nat
        BY <1>0, <2>1, ObjectFacts
      <4>. QED BY <4>1, <4>2 DEF Whole
    <3>. QED BY <1>3, <2>1, <3>1, <3>2 DEF Begun
  <2>3. r < Len(starts)
    BY <1>3, <2>1 DEF Begun
  <2>4. nread = starts[r + 1] + Progress
    BY <1>0, <1>1, <1>2, <2>3 DEF Place
  <2>5. Progress < Full(script[r + 1]) /\ Progress \in Nat
    <3>1. CASE rpc = "primitive"
      <4>1. Progress = Len(data) /\ Wanted = Size(script[r + 1])
        BY <1>1, <1>2, <3>1, Receiving DEF Progress
      <4>2. /\ Size(script[r + 1]) \in Nat /\ Full(script[r + 1]) \in Nat
            /\ Size(script[r + 1]) <= Full(script[r + 1])
        BY <1>3, EncodingOf
      <4>. QED BY <1>1, <1>3, <4>1, <4>2
    <3>2. CASE rpc = "chars"
      <4>1. /\ Progress = LengthSize + Len(data) /\ Wanted = Len(script[r + 1])
            /\ script[r + 1] \notin Tokens
        BY <1>1, <1>2, <3>2, Receiving DEF Progress
      <4>2. /\ Full(script[r + 1]) = LengthSize + Len(script[r + 1])
            /\ Len(script[r + 1]) \in Nat
        BY <1>3, <4>1, EncodingOf
      <4>. QED BY <1>1, <1>3, <4>1, <4>2, StreamAssumption
    <3>. QED BY <1>1, <3>1, <3>2
  <2>6. starts[r + 1] \in Nat /\ Full(script[r + 1]) \in Nat
    BY <1>0, <2>1, ObjectFacts
  <2>7. starts[r + 1] + Full(script[r + 1]) <= nread
    BY <1>1, <2>2 DEF Whole, End
  <2>. QED BY <2>4, <2>5, <2>6, <2>7
<1>8. Ended'
  BY <1>1, <1>2, <1>5, <1>7 DEF Ended
<1>. QED BY <1>4, <1>5, <1>6, <1>8 DEF IInv

\* What has been read of the present object are its bytes.
LEMMA DataIs ==
    ASSUME IInv, rpc \in {"primitive", "chars"}, Len(data) >= Wanted,
           NEW o, o = script[Len(received) + 1]
    PROVE  /\ o \in Objects
           /\ rpc = "primitive" => /\ data = Primitive(o)
                                   /\ nread = starts[Len(received) + 1] + Size(o)
           /\ rpc = "chars" => /\ data = o /\ o \in Strings
                               /\ nread = starts[Len(received) + 1] + Full(o)
           /\ Len(received) + 1 \in Begun
<1>0. Types /\ Layout /\ Place
  BY DEF IInv
<1>1. PICK r, d : r = Len(received) /\ d = Len(data)
  OBVIOUS
<1>2. /\ r + 1 \in 1..Len(script) /\ o \in Objects /\ d \in Nat /\ Wanted \in Nat
      /\ d = Wanted /\ data \in Seq(Byte)
  <2>1. d \in Nat /\ data \in Seq(Byte)
    BY <1>0, <1>1, ObjectFacts DEF Types
  <2>2. Wanted \in Nat /\ d <= Wanted /\ d >= Wanted /\ r + 1 \in 1..Len(script) /\ o \in Objects
    BY <1>1, Receiving
  <2>. QED BY <2>1, <2>2
<1>3. CASE rpc = "primitive"
  <2>1. Wanted = Size(o) /\ Progress = d
    BY <1>1, <1>3, Receiving DEF Progress
  <2>2. /\ Size(o) \in Nat \ {0} /\ Full(o) \in Nat /\ Size(o) <= Full(o)
        /\ Primitive(o) \in Seq(Byte) /\ Len(Primitive(o)) = Size(o)
        /\ \A j \in 1..Size(o) : Encoding(o)[j] = Primitive(o)[j]
    BY <1>2, EncodingOf
  <2>3. r + 1 \in Begun /\ nread = starts[r + 1] + d
    <3>1. Progress > 0
      BY <1>2, <2>1, <2>2
    <3>. QED BY <1>1, <1>3, <2>1, <3>1, Receiving
  <2>4. \A j \in 1..d : data[j] = Primitive(o)[j]
    <3>. TAKE j \in 1..d
    <3>1. data[j] = stream[nread - d + j]
      BY <1>0, <1>1, <1>3 DEF Place
    <3>2. starts[r + 1] \in Nat /\ nread <= Len(stream) /\ Len(stream) \in Nat /\ nread \in Nat
      BY <1>0, <2>3, ObjectFacts DEF Types, TypeOK
    <3>3. nread - d + j = starts[r + 1] + j /\ starts[r + 1] + j <= Len(stream)
      BY <1>2, <2>3, <3>2
    <3>4. j \in 1..Full(script[r + 1]) /\ j \in 1..Size(o)
      BY <1>1, <1>2, <2>1, <2>2
    <3>5. stream[starts[r + 1] + j] = Encoding(o)[j]
      BY <1>0, <1>1, <2>3, <3>3, <3>4 DEF Layout
    <3>. QED BY <2>2, <3>1, <3>3, <3>4, <3>5
  <2>5. data = Primitive(o)
    BY <1>1, <1>2, <2>1, <2>2, <2>4, SeqEqual
  <2>. QED BY <1>1, <1>2, <1>3, <2>1, <2>3, <2>5
<1>4. CASE rpc = "chars"
  <2>1. Wanted = Len(o) /\ Progress = LengthSize + d /\ o \notin Tokens
    BY <1>1, <1>4, Receiving DEF Progress
  <2>2. /\ o \in Strings /\ o \in Seq(Byte) /\ Len(o) \in Nat
        /\ Full(o) = LengthSize + Len(o)
        /\ \A j \in 1..Len(o) : Encoding(o)[LengthSize + j] = o[j]
    BY <1>2, <2>1, EncodingOf
  <2>3. r + 1 \in Begun /\ nread = starts[r + 1] + (LengthSize + d)
    <3>1. Progress > 0
      BY <1>2, <2>1, StreamAssumption
    <3>. QED BY <1>1, <1>4, <2>1, <3>1, Receiving
  <2>4. \A j \in 1..d : data[j] = o[j]
    <3>. TAKE j \in 1..d
    <3>1. data[j] = stream[nread - d + j]
      BY <1>0, <1>1, <1>4 DEF Place
    <3>2. starts[r + 1] \in Nat /\ nread <= Len(stream) /\ Len(stream) \in Nat /\ nread \in Nat
      BY <1>0, <2>3, ObjectFacts DEF Types, TypeOK
    <3>3. /\ nread - d + j = starts[r + 1] + (LengthSize + j)
          /\ starts[r + 1] + (LengthSize + j) <= Len(stream)
      BY <1>2, <2>3, <3>2, StreamAssumption
    <3>4. LengthSize + j \in 1..Full(script[r + 1]) /\ j \in 1..Len(o)
      BY <1>1, <1>2, <2>1, <2>2, StreamAssumption
    <3>5. stream[starts[r + 1] + (LengthSize + j)] = Encoding(o)[LengthSize + j]
      BY <1>0, <1>1, <2>3, <3>3, <3>4 DEF Layout
    <3>. QED BY <2>2, <3>1, <3>3, <3>4, <3>5
  <2>5. data = o
    BY <1>1, <1>2, <2>1, <2>2, <2>4, SeqEqual
  <2>. QED BY <1>1, <1>2, <1>4, <2>1, <2>2, <2>3, <2>5
<1>. QED BY <1>3, <1>4

\* The receiver returns the next object, all of whose bytes it has read.
LEMMA Returns ==
    ASSUME IInv, rpc \in {"primitive", "chars"}, NEW o, o = script[Len(received) + 1],
           Len(received) + 1 \in Begun, nread = End(Len(received) + 1),
           UNCHANGED <<script, spc, i, starts, stream, conn, nread, length>>,
           rpc' = "idle", data' = <<>>, received' = Append(received, o)
    PROVE  IInv'
<1>0. Types /\ Layout /\ SentSoFar /\ Place
  BY DEF IInv
<1>1. PICK r, n : r = Len(received) /\ n = Len(starts)
  OBVIOUS
<1>2. /\ r \in Nat /\ n \in Nat /\ Len(script) \in Nat /\ Begun = 1..n /\ r + 1 \in 1..n
      /\ o \in Objects /\ nread \in Nat /\ Len(stream) \in Nat /\ nread <= Len(stream)
      /\ r < Len(script) /\ n <= Len(script)
  BY <1>0, <1>1, Receiving, ObjectFacts DEF Begun, Types, TypeOK
<1>3. received' \in Seq(Objects) /\ Len(received') = r + 1
  BY <1>0, <1>1, <1>2, AppendProperties DEF Types
<1>4. << >> \in Seq(Byte) /\ Len(<< >>) = 0
  BY EmptySeq
<1>5. Types'
  <2>1. Sent' = Sent /\ Sending' = Sending
    BY DEF Sent, Sending
  <2>2. Len(received') <= Len(script)
    BY <1>2, <1>3
  <2>3. TypeOK'
    BY <1>0, <2>1, <2>2 DEF Types, TypeOK
  <2>. QED BY <1>0, <1>3, <1>4, <2>1, <2>3 DEF Types
<1>6. Layout' /\ SentSoFar' /\ Begun' = Begun /\ \A k : End(k)' = End(k)
  BY <1>0, SenderStays
<1>7. Place'
  <2>1. Progress' = 0
    BY <1>4 DEF Progress
  <2>2. Whole(r + 1)
    BY <1>1, <1>2 DEF Whole
  <2>3. r + 1 < n => nread = starts[r + 2]
    <3>1. r + 1 < n => (r + 1) + 1 \in 1..n /\ (r + 1) + 1 = r + 2
      BY <1>2
    <3>. QED BY <1>0, <1>1, <1>2, <2>2, <3>1 DEF Layout
  <2>4. r + 1 = n => nread = Len(stream)
    <3>1. n > 0
      BY <1>2
    <3>2. starts # <<>>
      BY <1>1, <1>2, EmptySeq
    <3>. QED BY <1>0, <1>1, <1>2, <3>2 DEF Layout
  <2>5. \A k \in 1..n : k <= r + 1 => End(k) <= nread
    <3>. TAKE k \in 1..n
    <3>1. k <= r => End(k) <= nread
      BY <1>0, <1>1, <1>2 DEF Place
    <3>2. k = r + 1 => End(k) <= nread
      BY <1>1, <1>2
    <3>. QED BY <1>2, <3>1, <3>2
  <2>6. r + 1 < n => nread = starts[(r + 1) + 1] + Progress'
    <3>1. r + 1 < n => starts[(r + 1) + 1] \in Nat /\ (r + 1) + 1 = r + 2
      BY <1>0, <1>2, ObjectFacts
    <3>. QED BY <1>2, <2>1, <2>3, <3>1
  <2>. QED BY <1>1, <1>2, <1>3, <1>4, <1>6, <2>1, <2>4, <2>5, <2>6 DEF Place
<1>8. Ended'
  BY DEF Ended
<1>. QED BY <1>5, <1>6, <1>7, <1>8 DEF IInv

\* A token is returned as it was sent, or a length is known.
LEMMA StepPrimitiveReceived ==
    ASSUME IInv, PrimitiveReceived
    PROVE  /\ IInv'
           /\ \/ received' = Append(received, script[Len(received) + 1])
              \/ UNCHANGED received
<1>0. Types /\ Layout /\ SentSoFar /\ Place
  BY DEF IInv
<1>1. PICK r, o : r = Len(received) /\ o = script[r + 1]
  OBVIOUS
<1>2. /\ rpc = "primitive" /\ Len(data) >= Wanted /\ data' = <<>>
      /\ UNCHANGED <<script, spc, i, starts, stream, conn, nread>>
  BY DEF PrimitiveReceived, senderVars
<1>3. /\ o \in Objects /\ data = Primitive(o) /\ r + 1 \in Begun
      /\ nread = starts[r + 1] + Size(o)
  BY <1>1, <1>2, DataIs
<1>4. CASE o \in Tokens
  <2>1. rpc' = "idle" /\ received' = Append(received, Decoded(data, TokenSize, Tokens))
        /\ UNCHANGED length
    BY <1>1, <1>4 DEF PrimitiveReceived
  <2>2. Decoded(data, TokenSize, Tokens) = o
    BY <1>3, <1>4, DecodedOf, StreamAssumption DEF Primitive
  <2>3. nread = End(r + 1)
    BY <1>1, <1>3, <1>4 DEF End, Size, Full
  <2>4. IInv'
    BY <1>1, <1>2, <1>3, <2>1, <2>2, <2>3, Returns
  <2>. QED BY <1>1, <2>1, <2>2, <2>4
<1>5. CASE o \notin Tokens
  <2>1. /\ rpc' = "chars" /\ length' = Decoded(data, LengthSize, Lengths)
        /\ UNCHANGED received
    BY <1>1, <1>5 DEF PrimitiveReceived
  <2>2. o \in Strings /\ Len(o) \in Nat /\ Size(o) = LengthSize
    BY <1>3, <1>5, EncodingOf
  <2>3. length' = Len(o) /\ Len(o) \in Lengths
    <3>1. Len(o) \in Lengths
      BY <2>2 DEF Lengths
    <3>. QED BY <1>3, <1>5, <2>1, <3>1, DecodedOf, StreamAssumption DEF Primitive
  <2>4. << >> \in Seq(Byte) /\ Len(<< >>) = 0
    BY EmptySeq
  <2>5. Types'
    <3>1. Sent' = Sent /\ Sending' = Sending
      BY <1>2 DEF Sent, Sending
    <3>2. Wanted' = Len(o)
      BY <2>1, <2>3 DEF Wanted
    <3>3. Len(received) < Len(script) /\ Len(data') <= Wanted'
      BY <1>0, <1>2, <2>2, <2>4, <3>2 DEF Types, TypeOK
    <3>4. TypeOK'
      BY <1>0, <1>2, <2>1, <2>3, <3>1, <3>3 DEF Types, TypeOK
    <3>. QED BY <1>0, <1>2, <2>1, <2>2, <2>3, <2>4, <3>1, <3>4 DEF Types
  <2>6. Layout' /\ SentSoFar' /\ Begun' = Begun /\ \A k : End(k)' = End(k)
    BY <1>0, <1>2, SenderStays
  <2>7. Place'
    <3>1. Progress' = LengthSize
      BY <1>2, <2>1, <2>4, StreamAssumption DEF Progress
    <3>2. r < Len(starts)
      <4>1. r \in Nat /\ Len(starts) \in Nat
        BY <1>0, <1>1, ObjectFacts
      <4>. QED BY <1>3, <4>1 DEF Begun
    <3>. QED BY <1>0, <1>1, <1>2, <1>3, <1>5, <2>1, <2>2, <2>3, <2>4, <2>6, <3>1, <3>2 DEF Place
  <2>8. Ended'
    BY <2>1 DEF Ended
  <2>. QED BY <2>1, <2>5, <2>6, <2>7, <2>8 DEF IInv
<1>. QED BY <1>4, <1>5

\* A string is returned as it was sent.
LEMMA StepStringReceived ==
    ASSUME IInv, StringReceived
    PROVE  IInv' /\ received' = Append(received, script[Len(received) + 1])
<1>1. PICK r, o : r = Len(received) /\ o = script[r + 1]
  OBVIOUS
<1>2. /\ rpc = "chars" /\ Len(data) >= length /\ data' = <<>> /\ rpc' = "idle"
      /\ received' = Append(received, data)
      /\ UNCHANGED <<script, spc, i, starts, stream, conn, nread, length>>
  BY DEF StringReceived, senderVars
<1>3. Len(data) >= Wanted
  BY <1>2 DEF Wanted
<1>4. data = o /\ r + 1 \in Begun /\ nread = starts[r + 1] + Full(o)
  BY <1>1, <1>2, <1>3, DataIs
<1>5. nread = End(r + 1)
  BY <1>1, <1>4 DEF End
<1>. QED BY <1>1, <1>2, <1>4, <1>5, Returns

-----------------------------------------------------------------------------
(* Type correctness and the exception *)

\* A step of the two programs, of the kernel, or none, keeps the invariant.
LEMMA StepInv == IInv /\ [Next]_vars => IInv'
<1>. SUFFICES ASSUME IInv, [Next]_vars  PROVE IInv'
  OBVIOUS
<1>1. CASE Serialize
  BY <1>1, StepSerialize
<1>2. CASE SenderStep
  <2>1. ASSUME NEW m \in 1..Capacity, SendBytes(m)  PROVE IInv'
    <3>1. m \in Nat
      BY StreamAssumption
    <3>. QED BY <2>1, <3>1, StepSendBytes
  <2>. QED BY <1>2, <2>1, StepSendReturns, StepSenderStops DEF SenderStep
<1>3. CASE SenderLeaves
  BY <1>3, StepSenderStops
<1>4. CASE Reset
  BY <1>4, StepReset
<1>5. CASE ReceiverStep
  <2>1. ASSUME NEW m \in 1..Capacity, ReceiveBytes(m)  PROVE IInv'
    BY <2>1, StepReceiveBytes
  <2>. QED BY <1>5, <2>1, StepDeserialize, StepReceiveThrows, StepPrimitiveReceived,
              StepStringReceived DEF ReceiverStep
<1>6. CASE UNCHANGED vars
  <2>0. Types /\ Layout /\ SentSoFar /\ Place /\ Ended
    BY DEF IInv
  <2>1. UNCHANGED <<script, spc, i, starts, stream, conn, nread, rpc, data, length, received>>
    BY <1>6 DEF vars, senderVars, receiverVars
  <2>2. Layout' /\ Place' /\ Ended'
    BY <2>0, <2>1, StaysLaidOut
  <2>3. SentSoFar'
    BY <2>0, <2>1, SenderStays
  <2>4. Types'
    BY <2>0, <2>1 DEF Types, TypeOK, Sent, Sending, Wanted
  <2>. QED BY <2>2, <2>3, <2>4 DEF IInv
<1>. QED BY <1>1, <1>2, <1>3, <1>4, <1>5, <1>6 DEF Next, Over

\* The invariant holds in every state of the two programs and the kernel.
THEOREM Invariance == SafetySpec => []IInv
<1>. QED BY InitInv, StepInv, PTL DEF SafetySpec

\* send and receive never go past the ends of their buffers, and no byte is
\* read that was not sent.
THEOREM TypeCorrectness == SafetySpec => []TypeOK
<1>1. IInv => TypeOK
  BY DEF IInv, Types
<1>. QED BY <1>1, Invariance, PTL

\* receive throws only when every object that arrived has been returned.
THEOREM ExceptionComesLast == SafetySpec => []ThrowsAtTheEnd
<1>1. IInv => ThrowsAtTheEnd
  <2>. SUFFICES ASSUME IInv, rpc = "threw", NEW k \in DOMAIN script, Arrived(k)
                PROVE  k <= Len(received)
    BY DEF ThrowsAtTheEnd
  <2>1. Types /\ Ended
    BY DEF IInv
  <2>2. starts \in Seq(Nat)
    BY <2>1 DEF Types, TypeOK
  <2>3. k \in Begun
    BY <2>2, LenProperties DEF Arrived, Begun
  <2>4. Whole(k)
    BY <2>1, <2>3, ObjectFacts
  <2>. QED BY <2>1, <2>3, <2>4 DEF Ended
<1>. QED BY <1>1, Invariance, PTL

-----------------------------------------------------------------------------
(* Bytes implement the channel of objects *)

Queue == SubSeq(script, Len(received) + 1, Len(starts))

\* Beginning an object puts it behind those that are under way.
LEMMA QueueGrows ==
    ASSUME NEW S, NEW s \in Seq(S), NEW r \in Nat, NEW n \in Nat,
           r <= n, n < Len(s)
    PROVE  SubSeq(s, r + 1, n + 1) = Append(SubSeq(s, r + 1, n), s[n + 1])
<1>. DEFINE old == SubSeq(s, r + 1, n)
            new == SubSeq(s, r + 1, n + 1)
<1>1. Len(s) \in Nat /\ \A k \in 1..Len(s) : s[k] \in S
  BY ElementOfSeq, LenProperties
<1>2. r + 1 \in Int /\ n \in Int /\ n + 1 \in Int /\ n + 1 \in 1..Len(s)
  BY <1>1
<1>3. (\A k \in (r + 1)..n : s[k] \in S) /\ \A k \in (r + 1)..(n + 1) : s[k] \in S
  BY <1>1
<1>4. /\ old \in Seq(S) /\ Len(old) = n - r
      /\ \A k \in 1..(n - r) : old[k] = s[r + k]
  <2>1. /\ old \in Seq(S)
        /\ Len(old) = IF r + 1 <= n THEN n - (r + 1) + 1 ELSE 0
        /\ \A k \in 1..(n - (r + 1) + 1) : old[k] = s[r + 1 + k - 1]
    BY <1>2, <1>3, SubSeqProperties
  <2>. QED BY <2>1
<1>5. /\ new \in Seq(S) /\ Len(new) = n - r + 1
      /\ \A k \in 1..(n - r + 1) : new[k] = s[r + k]
  <2>1. /\ new \in Seq(S)
        /\ Len(new) = IF r + 1 <= n + 1 THEN n + 1 - (r + 1) + 1 ELSE 0
        /\ \A k \in 1..(n + 1 - (r + 1) + 1) : new[k] = s[r + 1 + k - 1]
    BY <1>2, <1>3, SubSeqProperties
  <2>. QED BY <2>1
<1>6. /\ Append(old, s[n + 1]) \in Seq(S) /\ Len(Append(old, s[n + 1])) = n - r + 1
      /\ \A k \in 1..(n - r) : Append(old, s[n + 1])[k] = s[r + k]
      /\ Append(old, s[n + 1])[n - r + 1] = s[n + 1]
  BY <1>1, <1>2, <1>4, AppendProperties
<1>7. \A k \in 1..(n - r + 1) : new[k] = Append(old, s[n + 1])[k]
  <2>. TAKE k \in 1..(n - r + 1)
  <2>1. CASE k \in 1..(n - r)
    BY <1>5, <1>6, <2>1
  <2>2. CASE k = n - r + 1
    BY <1>5, <1>6, <2>2
  <2>. QED BY <2>1, <2>2
<1>. QED BY <1>5, <1>6, <1>7, SeqEqual

\* Returning the object that comes next takes it from the head.
LEMMA QueueShrinks ==
    ASSUME Types, Len(received) + 1 \in Begun,
           received' = Append(received, script[Len(received) + 1]),
           UNCHANGED <<script, starts>>
    PROVE  /\ Queue # <<>> /\ Head(Queue) = script[Len(received) + 1]
           /\ Queue' = Tail(Queue)
<1>1. PICK r, n : r = Len(received) /\ n = Len(starts)
  OBVIOUS
<1>2. /\ r \in Nat /\ n \in Nat /\ Len(script) \in Nat /\ n <= Len(script)
      /\ script \in Seq(Objects) /\ received \in Seq(Objects)
      /\ r + 1 \in 1..Len(script) /\ n \in (r + 1)..Len(script)
      /\ script[r + 1] \in Objects
  BY <1>1, ObjectFacts DEF Types, TypeOK, Begun
<1>3. Head(Queue) = script[r + 1] /\ Tail(Queue) = SubSeq(script, r + 1 + 1, n)
  BY <1>1, <1>2, HeadTailOfSubSeq DEF Queue
<1>4. Len(received') = r + 1
  BY <1>1, <1>2, AppendProperties
<1>5. Queue' = Tail(Queue)
  BY <1>1, <1>3, <1>4 DEF Queue
<1>6. Len(Queue) = n - (r + 1) + 1
  <2>1. \A k \in (r + 1)..n : script[k] \in Objects
    BY <1>2, ElementOfSeq
  <2>2. r + 1 \in Int /\ n \in Int /\ r + 1 <= n
    BY <1>2
  <2>. QED BY <1>1, <2>1, <2>2, SubSeqProperties DEF Queue
<1>7. Queue # <<>>
  BY <1>2, <1>6, EmptySeq
<1>. QED BY <1>1, <1>3, <1>5, <1>7

\* Every step with bytes is one of the channel with objects, or none of it:
\* the two loops implement an object at a time what Serializer promises.
THEOREM ImplementsObjects == SafetySpec => ImplementsChannel
<1>. DEFINE Broken == rpc = "threw"
<1>1. Init => Objectwise!Init
  <2>. SUFFICES ASSUME Init  PROVE Objectwise!Init
    OBVIOUS
  <2>1. received = <<>> /\ starts = <<>> /\ Len(received) = 0 /\ Len(starts) = 0
    BY EmptySeq DEF Init
  <2>2. SubSeq(script, 0 + 1, 0) = <<>>
    BY SubSeqEmpty
  <2>3. rpc # "threw"
    BY DEF Init
  <2>. QED BY <2>1, <2>2, <2>3 DEF Objectwise!Init
<1>2. IInv /\ [Next]_vars => [Objectwise!Next]_(Objectwise!vars)
  <2>. SUFFICES ASSUME IInv, [Next]_vars
                PROVE  Objectwise!Next \/ UNCHANGED <<Queue, received, Broken>>
    BY DEF Objectwise!vars, Queue
  <2>0. Types /\ Place
    BY DEF IInv
  <2>1. CASE Serialize
    <3>1. PICK n, r : n = Len(starts) /\ r = Len(received)
      OBVIOUS
    <3>2. /\ n < Len(script) /\ starts' = Append(starts, Len(stream))
          /\ UNCHANGED <<script, rpc, received>>
      BY <2>1, <3>1 DEF Serialize, receiverVars
    <3>3. /\ n \in Nat /\ r \in Nat /\ r <= n /\ Len(stream) \in Nat /\ Len(script) \in Nat
          /\ starts \in Seq(Nat) /\ script \in Seq(Objects) /\ n + 1 \in 1..Len(script)
      BY <2>0, <3>1, <3>2, ObjectFacts DEF Place, Types, TypeOK
    <3>4. Len(starts') = n + 1
      BY <3>1, <3>2, <3>3, AppendProperties
    <3>5. Queue' = Append(Queue, script[n + 1])
      <4>1. SubSeq(script, r + 1, n + 1) = Append(SubSeq(script, r + 1, n), script[n + 1])
        BY <3>2, <3>3, QueueGrows
      <4>. QED BY <3>1, <3>2, <3>4, <4>1 DEF Queue
    <3>6. script[n + 1] \in Objects
      BY <3>3, ElementOfSeq
    <3>7. Objectwise!Send(script[n + 1])
      BY <3>2, <3>5 DEF Objectwise!Send, Queue
    <3>. QED BY <3>6, <3>7 DEF Objectwise!Next
  <2>2. CASE SenderStep \/ SenderLeaves \/ Reset
    <3>1. UNCHANGED <<script, starts, rpc, received>>
      BY <2>2 DEF SenderStep, SendBytes, SendReturns, SendThrows, SenderLeaves, Reset,
                  senderVars, receiverVars
    <3>. QED BY <3>1 DEF Queue
  <2>3. CASE ReceiveThrows
    <3>1. rpc' = "threw" /\ UNCHANGED <<script, starts, received>>
      BY <2>3 DEF ReceiveThrows, senderVars
    <3>2. Queue' = Queue
      BY <3>1 DEF Queue
    <3>3. Objectwise!Break
      BY <3>1, <3>2 DEF Objectwise!Break, Queue
    <3>. QED BY <3>3 DEF Objectwise!Next
  <2>4. CASE Deserialize \/ \E m \in 1..Capacity : ReceiveBytes(m)
    <3>1. /\ UNCHANGED <<script, starts, received>>
          /\ rpc # "threw" /\ rpc' # "threw"
      BY <2>4 DEF Deserialize, ReceiveBytes, senderVars
    <3>. QED BY <3>1 DEF Queue
  <2>5. ASSUME rpc # "threw", rpc' # "threw", UNCHANGED <<script, starts>>,
               Len(received) + 1 \in Begun,
               received' = Append(received, script[Len(received) + 1])
        PROVE  Objectwise!Next
    <3>1. Queue # <<>> /\ Head(Queue) = script[Len(received) + 1] /\ Queue' = Tail(Queue)
      BY <2>0, <2>5, QueueShrinks
    <3>2. Objectwise!Receive
      BY <2>5, <3>1 DEF Objectwise!Receive, Queue
    <3>. QED BY <3>2 DEF Objectwise!Next
  <2>6. CASE PrimitiveReceived
    <3>1. /\ rpc = "primitive" /\ rpc' \in {"idle", "chars"} /\ Len(data) >= Wanted
          /\ UNCHANGED <<script, starts>>
      BY <2>6 DEF PrimitiveReceived, senderVars
    <3>2. Len(received) + 1 \in Begun
      BY <3>1, DataIs
    <3>3. CASE received' = Append(received, script[Len(received) + 1])
      BY <2>5, <3>1, <3>2, <3>3
    <3>4. CASE UNCHANGED received
      BY <3>1, <3>4 DEF Queue
    <3>. QED BY <2>6, <3>3, <3>4, StepPrimitiveReceived
  <2>7. CASE StringReceived
    <3>1. /\ rpc = "chars" /\ rpc' = "idle" /\ Len(data) >= Wanted
          /\ UNCHANGED <<script, starts>>
      BY <2>7 DEF StringReceived, senderVars, Wanted
    <3>2. Len(received) + 1 \in Begun
      BY <3>1, DataIs
    <3>. QED BY <2>5, <2>7, <3>1, <3>2, StepStringReceived
  <2>8. CASE UNCHANGED vars
    BY <2>8 DEF vars, senderVars, receiverVars, Queue
  <2>. QED BY <2>1, <2>2, <2>3, <2>4, <2>6, <2>7, <2>8 DEF Next, ReceiverStep, Over
<1>. QED BY <1>1, <1>2, Invariance, PTL DEF SafetySpec, ImplementsChannel, Objectwise!Spec
=============================================================================
