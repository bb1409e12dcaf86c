--------------------------- MODULE RemoteIOProofs ---------------------------
(***************************************************************************)
(* Proofs about RemoteIO for any messages, words, files and bounds, with   *)
(* the connection lost at any time: the two ends stay in step, the answers *)
(* match the questions, and if the files' lines all end with a newline the *)
(* program cannot tell the client from a local terminal.                   *)
(***************************************************************************)
EXTENDS RemoteIO, SequenceTheorems, TLAPS

-----------------------------------------------------------------------------
(* The inductive invariant *)

States == {"token", "print", "file_r", "file_w", "read_loop", "write_loop",
           "write", "exited"}

\* The client in state c that takes o, as the program means it, goes to d.
After(c, o, d) ==
    \/ c = "token" /\ o = "receive_token" /\ d = "print"
    \/ c = "token" /\ o = "send_token" /\ d = "token"
    \/ c = "token" /\ o = "open_file_r_token" /\ d = "file_r"
    \/ c = "token" /\ o = "open_file_w_token" /\ d = "file_w"
    \/ c = "token" /\ o = "end_token" /\ d = "exited"
    \/ c = "print" /\ o \in Messages /\ d = "token"
    \/ c = "file_r" /\ o \in Files /\ d = "read_loop"
    \/ c = "file_w" /\ o \in Files /\ d = "write_loop"
    \/ c = "read_loop" /\ o = "read_file_token" /\ d = "read_loop"
    \/ c = "read_loop" /\ o = "end_token" /\ d = "token"
    \/ c = "write_loop" /\ o = "write_file_token" /\ d = "write"
    \/ c = "write_loop" /\ o = "end_token" /\ d = "token"
    \/ c = "write" /\ o \in Messages /\ d = "write_loop"

\* Where the program takes the client to be once it has read all that was sent
Mode(p) ==
    CASE p \in {"idle", "wait_word"} -> "token"
      [] p \in {"reading", "wait_line"} -> "read_loop"
      [] p = "writing" -> "write_loop"
      [] p = "closed" -> "exited"

\* The states the client goes through while it reads what is on its way lead
\* to where the program takes it to be, unless the rest is lost; and it leaves
\* only after close.
Path(st) ==
    /\ st[1] = cpc
    /\ \A j \in 1..Len(s2c) : After(st[j], s2c[j], st[j + 1])
    /\ lost \/ st[Len(s2c) + 1] = Mode(spc)
    /\ \A j \in 1..(Len(s2c) + 1) : st[j] = "exited" => spc = "closed"

Protocol == \E st \in [Nat -> States] : Path(st)

\* The objects that the client answers
Ask == {"send_token", "read_file_token"}
Waiting == spc \in {"wait_word", "wait_line"}

\* There is one question or one answer on its way, while the program waits.
OneQuestion ==
    /\ \A j \in 1..Len(s2c) :
          s2c[j] \in Ask => j = Len(s2c) /\ c2s = <<>> /\ Waiting /\ said = heard
    /\ c2s # <<>> => Waiting /\ s2c = <<>> /\ Len(c2s) = 1 /\ said = heard \o c2s
    /\ c2s = <<>> => \/ said = heard
                     \/ lost /\ heard = SubSeq(said, 1, Len(said) - 1)

IInv == TypeOK /\ Protocol /\ OneQuestion

-----------------------------------------------------------------------------
(* Sequences *)

\* Length, head and tail, with their types
LEMMA HeadAndTail ==
    ASSUME NEW S, NEW s \in Seq(S)
    PROVE  /\ Len(s) \in Nat /\ DOMAIN s = 1..Len(s)
           /\ s # <<>> <=> Len(s) > 0
           /\ s # <<>> => /\ Head(s) = s[1] /\ Head(s) \in S /\ Tail(s) \in Seq(S)
                          /\ Len(Tail(s)) = Len(s) - 1
                          /\ \A j \in 1..Len(Tail(s)) : Tail(s)[j] = s[j + 1]
<1>1. Len(s) \in Nat /\ DOMAIN s = 1..Len(s)
  BY LenProperties
<1>2. s # <<>> <=> Len(s) > 0
  BY EmptySeq, <1>1
<1>. QED BY <1>1, <1>2, HeadTailProperties

\* A prefix is no longer, and has the same elements.
LEMMA Prefix ==
    ASSUME NEW S, NEW s \in Seq(S), NEW t \in Prefixes(s)
    PROVE  t \in Seq(S) /\ Len(t) <= Len(s) /\ \A j \in 1..Len(t) : t[j] = s[j]
<1>1. PICK n \in 0..Len(s) : t = SubSeq(s, 1, n)
  BY DEF Prefixes
<1>2. Len(s) \in Nat /\ \A j \in 1..n : s[j] \in S
  BY LenProperties, ElementOfSeq
<1>. QED BY <1>1, <1>2, SubSeqProperties

\* A prefix of one element is that element or nothing.
LEMMA PrefixOfOne ==
    ASSUME NEW S, NEW s \in Seq(S), NEW t \in Prefixes(s), Len(s) <= 1
    PROVE  t = s \/ t = <<>>
<1>1. t \in Seq(S) /\ Len(t) <= Len(s) /\ \A j \in 1..Len(t) : t[j] = s[j]
  BY Prefix
<1>2. Len(s) \in Nat /\ Len(t) \in Nat
  BY <1>1, LenProperties
<1>3. CASE Len(t) = Len(s)
  BY <1>1, <1>3, SeqEqual
<1>4. CASE Len(t) < Len(s)
  <2>1. Len(t) = 0
    BY <1>2, <1>4
  <2>. QED BY <1>1, <2>1, EmptySeq
<1>. QED BY <1>1, <1>2, <1>3, <1>4

\* Appending an element can be undone.
LEMMA AppendConcat ==
    ASSUME NEW S, NEW s \in Seq(S), NEW e \in S
    PROVE  /\ Append(s, e) \in Seq(S) /\ Append(s, e) = s \o <<e>>
           /\ SubSeq(Append(s, e), 1, Len(Append(s, e)) - 1) = s
<1>1. /\ Append(s, e) \in Seq(S) /\ Len(Append(s, e)) = Len(s) + 1
      /\ \A j \in 1..Len(s) : Append(s, e)[j] = s[j]
      /\ Append(s, e)[Len(s) + 1] = e
  BY AppendProperties
<1>2. Len(s) \in Nat
  BY LenProperties
<1>4. Append(s, e) = s \o <<e>>
  BY AppendIsConcat
<1>5. SubSeq(Append(s, e), 1, Len(s)) = s
  <2>. DEFINE t == SubSeq(Append(s, e), 1, Len(s))
  <2>1. \A j \in 1..Len(s) : Append(s, e)[j] \in S
    BY <1>1, <1>2, ElementOfSeq
  <2>2. t \in Seq(S) /\ Len(t) = Len(s) /\ \A j \in 1..Len(s) : t[j] = s[j]
    BY <1>1, <1>2, <2>1, SubSeqProperties
  <2>. QED BY <2>2, SeqEqual
<1>. QED BY <1>1, <1>2, <1>4, <1>5

-----------------------------------------------------------------------------
(* The program's operations *)

\* What a sent token or a token with its argument makes of the client
Leads(c, objects, d) ==
    \/ Len(objects) = 1 /\ After(c, objects[1], d)
    \/ Len(objects) = 2 /\ \E m \in States \ {"exited"} :
                              After(c, objects[1], m) /\ After(m, objects[2], d)

\* An operation leads the client where the program then takes it to be.
LEMMA OperationKeepsStep ==
    ASSUME IInv, NEW from, NEW to, NEW objects \in Seq(Token \cup Strings),
           Operation(from, to, objects),
           to \in {"idle", "reading", "writing", "wait_word", "wait_line", "closed"},
           from \in {"idle", "reading", "writing"},
           Leads(Mode(from), objects, Mode(to)),
           \A j \in 1..Len(objects) :
              objects[j] \in Ask => j = Len(objects) /\ to \in {"wait_word", "wait_line"}
    PROVE  IInv'
<1>0. PICK n, k : n = Len(s2c) /\ k = Len(objects)
  OBVIOUS
<1>1. /\ ~lost /\ spc = from /\ spc' = to /\ ops' = ops + 1 /\ ops < MaxOps
      /\ s2c' = s2c \o objects
      /\ UNCHANGED <<heard, c2s, lost, thrown, cpc, file, line, screen, said, out, saved>>
  BY DEF Operation, linkVars, clientVars, fileVars, outputVars
<1>2. s2c \in Seq(Token \cup Strings) /\ n \in Nat /\ k \in {1, 2}
  BY <1>0, HeadAndTail DEF IInv, TypeOK, Leads
<1>3. /\ s2c' \in Seq(Token \cup Strings) /\ Len(s2c') = n + k
      /\ \A j \in 1..n : s2c'[j] = s2c[j]
      /\ \A j \in 1..k : s2c'[n + j] = objects[j]
  BY <1>0, <1>1, <1>2, ConcatProperties
<1>4. TypeOK'
  <2>1. ops' \in 0..MaxOps
    BY <1>1, ObjectsAssumption DEF IInv, TypeOK
  <2>. QED BY <1>1, <1>3, <2>1 DEF IInv, TypeOK
<1>5. c2s = <<>> /\ (said = heard) /\ \A j \in 1..n : s2c[j] \notin Ask
  BY <1>0, <1>1 DEF IInv, OneQuestion, Waiting
<1>6. OneQuestion'
  <2>1. ASSUME NEW j \in 1..(n + k), s2c'[j] \in Ask
        PROVE  j = n + k /\ to \in {"wait_word", "wait_line"}
    <3>1. ~(j \in 1..n)
      BY <1>3, <1>5, <2>1
    <3>2. j - n \in 1..k /\ s2c'[n + (j - n)] = objects[j - n]
      BY <1>2, <1>3, <3>1
    <3>. QED BY <1>0, <1>2, <2>1, <3>2
  <2>. QED BY <1>1, <1>3, <1>5, <2>1 DEF OneQuestion, Waiting
<1>7. Protocol'
  <2>1. PICK st \in [Nat -> States] : Path(st)
    BY DEF IInv, Protocol
  <2>2. st[n + 1] = Mode(from)
    BY <1>0, <1>1, <2>1 DEF Path
  <2>3. PICK m \in States :
            \/ k = 1 /\ After(Mode(from), objects[1], Mode(to))
            \/ /\ k = 2 /\ m # "exited"
               /\ After(Mode(from), objects[1], m) /\ After(m, objects[2], Mode(to))
    BY <1>0 DEF Leads, States
  <2>4. Mode(to) \in States /\ (Mode(to) = "exited" => to = "closed")
    BY DEF Mode, States
  <2>. DEFINE en == [i \in Nat |-> IF i <= n + 1 THEN st[i]
                                   ELSE IF i = n + 2 /\ k = 2 THEN m ELSE Mode(to)]
  <2>5. en \in [Nat -> States]
    BY <2>3, <2>4
  <2>6. /\ \A i \in 1..(n + 1) : en[i] = st[i]
        /\ k = 1 => en[n + 2] = Mode(to)
        /\ k = 2 => en[n + 2] = m /\ en[n + 3] = Mode(to)
    BY <1>2
  <2>. HIDE DEF en
  <2>7. \A j \in 1..(n + k) : After(en[j], s2c'[j], en[j + 1])
    <3>1. ASSUME NEW j \in 1..n  PROVE After(en[j], s2c'[j], en[j + 1])
      <4>1. After(st[j], s2c[j], st[j + 1])
        BY <1>0, <2>1 DEF Path
      <4>2. en[j] = st[j] /\ en[j + 1] = st[j + 1]
        BY <1>2, <2>6
      <4>3. s2c'[j] = s2c[j]
        BY <1>3
      <4>. QED BY ONLY <4>1, <4>2, <4>3
    <3>2. After(en[n + 1], s2c'[n + 1], en[n + 2])
      BY <1>2, <1>3, <2>2, <2>3, <2>6
    <3>3. k = 2 => After(en[n + 2], s2c'[n + 2], en[n + 3])
      BY <1>2, <1>3, <2>2, <2>3, <2>6
    <3>. QED BY <1>2, <3>1, <3>2, <3>3
  <2>8. en[1] = cpc /\ en[n + k + 1] = Mode(to)
    BY <1>2, <2>1, <2>6 DEF Path
  <2>9. ASSUME NEW j \in 1..(n + k + 1), en[j] = "exited"  PROVE to = "closed"
    <3>1. CASE j \in 1..(n + 1)
      BY <1>0, <1>1, <2>1, <2>6, <2>9, <3>1 DEF Path
    <3>2. CASE j = n + k + 1
      BY <2>4, <2>8, <2>9, <3>2
    <3>3. CASE k = 2 /\ j = n + 2
      BY <2>3, <2>6, <2>9, <3>3
    <3>. QED BY <1>2, <3>1, <3>2, <3>3
  <2>10. Path(en)'
    BY <1>1, <1>3, <2>7, <2>8, <2>9 DEF Path
  <2>. QED BY <2>5, <2>10 DEF Protocol
<1>. QED BY <1>4, <1>6, <1>7 DEF IInv

\* An operation that sends one token
LEMMA OneToken ==
    ASSUME IInv, NEW from, NEW to, NEW o \in Token, Operation(from, to, <<o>>),
           from \in {"idle", "reading", "writing"},
           to \in {"idle", "reading", "writing", "wait_word", "wait_line", "closed"},
           After(Mode(from), o, Mode(to)),
           o \in Ask => to \in {"wait_word", "wait_line"}
    PROVE  IInv'
<1>1. /\ <<o>> \in Seq(Token \cup Strings)
      /\ \A j \in 1..Len(<<o>>) :
            <<o>>[j] \in Ask => j = Len(<<o>>) /\ to \in {"wait_word", "wait_line"}
  OBVIOUS
<1>2. Leads(Mode(from), <<o>>, Mode(to))
  BY DEF Leads
<1>. QED BY <1>1, <1>2, OperationKeepsStep

\* An operation that sends a token and its argument
LEMMA TokenAndArgument ==
    ASSUME IInv, NEW from, NEW to, NEW t \in Token, NEW s \in Messages \cup Files,
           Operation(from, to, <<t, s>>),
           from \in {"idle", "reading", "writing"},
           to \in {"idle", "reading", "writing"},
           t \notin Ask, NEW m \in States \ {"exited"},
           After(Mode(from), t, m), After(m, s, Mode(to))
    PROVE  IInv'
<1>1. s \in Strings /\ s \notin Ask
  BY ObjectsAssumption DEF Strings, Token, Ask
<1>2. /\ <<t, s>> \in Seq(Token \cup Strings)
      /\ \A j \in 1..Len(<<t, s>>) :
            <<t, s>>[j] \in Ask => j = Len(<<t, s>>) /\ to \in {"wait_word", "wait_line"}
  BY <1>1
<1>3. Leads(Mode(from), <<t, s>>, Mode(to))
  BY DEF Leads
<1>. QED BY <1>2, <1>3, OperationKeepsStep

\* Each operation sends what the client expects there.
LEMMA StepOperations ==
    ASSUME IInv, Operations
    PROVE  IInv'
<1>1. /\ Mode("idle") = "token" /\ Mode("wait_word") = "token"
      /\ Mode("reading") = "read_loop" /\ Mode("wait_line") = "read_loop"
      /\ Mode("writing") = "write_loop" /\ Mode("closed") = "exited"
  BY DEF Mode
<1>2. ASSUME NEW m \in Messages, Output(m)  PROVE IInv'
  <2>1. After("token", "receive_token", "print") /\ After("print", m, "token")
    BY DEF After
  <2>2. Operation("idle", "idle", <<"receive_token", m>>)
    BY <1>2 DEF Output
  <2>. QED BY <1>1, <2>1, <2>2, TokenAndArgument DEF States, Token, Ask
<1>3. ASSUME NEW m \in Messages, Write(m)  PROVE IInv'
  <2>1. After("write_loop", "write_file_token", "write") /\ After("write", m, "write_loop")
    BY DEF After
  <2>2. Operation("writing", "writing", <<"write_file_token", m>>)
    BY <1>3 DEF Write
  <2>. QED BY <1>1, <2>1, <2>2, TokenAndArgument DEF States, Token, Ask
<1>4. ASSUME NEW f \in Files, OpenInput(f)  PROVE IInv'
  <2>1. After("token", "open_file_r_token", "file_r") /\ After("file_r", f, "read_loop")
    BY DEF After
  <2>2. Operation("idle", "reading", <<"open_file_r_token", f>>)
    BY <1>4 DEF OpenInput
  <2>. QED BY <1>1, <2>1, <2>2, TokenAndArgument DEF States, Token, Ask
<1>5. ASSUME NEW f \in Files, OpenOutput(f)  PROVE IInv'
  <2>1. After("token", "open_file_w_token", "file_w") /\ After("file_w", f, "write_loop")
    BY DEF After
  <2>2. Operation("idle", "writing", <<"open_file_w_token", f>>)
    BY <1>5 DEF OpenOutput
  <2>. QED BY <1>1, <2>1, <2>2, TokenAndArgument DEF States, Token, Ask
<1>6. CASE Input
  <2>1. After("token", "send_token", "token")
    BY DEF After
  <2>. QED BY <1>1, <1>6, <2>1, OneToken DEF Input, Token
<1>7. CASE Read
  <2>1. After("read_loop", "read_file_token", "read_loop")
    BY DEF After
  <2>. QED BY <1>1, <1>7, <2>1, OneToken DEF Read, Token
<1>8. CASE CloseInput \/ CloseOutput \/ Close
  <2>1. /\ After("read_loop", "end_token", "token") /\ After("write_loop", "end_token", "token")
        /\ After("token", "end_token", "exited")
    BY DEF After
  <2>2. "end_token" \in Token /\ "end_token" \notin Ask
    BY DEF Token, Ask
  <2>. QED BY <1>1, <1>8, <2>1, <2>2, OneToken DEF CloseInput, CloseOutput, Close
<1>. QED BY <1>2, <1>3, <1>4, <1>5, <1>6, <1>7, <1>8 DEF Operations

-----------------------------------------------------------------------------
(* The client *)

\* An object leads the client from one state to only one other.
LEMMA AfterIsFunction ==
    ASSUME NEW c, NEW o, NEW d, NEW e, After(c, o, d), After(c, o, e)
    PROVE  d = e
BY DEF After

\* What the client has before it is what it expects.
LEMMA HeadFollows ==
    ASSUME IInv, s2c # <<>>
    PROVE  Head(s2c) = s2c[1] /\ \E d \in States : After(cpc, Head(s2c), d)
<1>1. s2c \in Seq(Token \cup Strings)
  BY DEF IInv, TypeOK
<1>2. Len(s2c) \in Nat /\ Len(s2c) > 0 /\ Head(s2c) = s2c[1]
  BY <1>1, HeadAndTail
<1>3. PICK st \in [Nat -> States] : Path(st)
  BY DEF IInv, Protocol
<1>4. After(cpc, s2c[1], st[2])
  BY <1>2, <1>3 DEF Path
<1>. QED BY <1>2, <1>3, <1>4

\* Taking an object, the client goes one step along its path.
LEMMA TakeKeepsStep ==
    ASSUME IInv, s2c # <<>>, s2c' = Tail(s2c), After(cpc, Head(s2c), cpc'),
           UNCHANGED <<spc, lost>>
    PROVE  Protocol'
<1>1. s2c \in Seq(Token \cup Strings)
  BY DEF IInv, TypeOK
<1>2. PICK n : n = Len(s2c)
  OBVIOUS
<1>3. /\ n \in Nat /\ n > 0 /\ Head(s2c) = s2c[1] /\ Len(s2c') = n - 1
      /\ \A j \in 1..(n - 1) : s2c'[j] = s2c[j + 1]
  BY <1>1, <1>2, HeadAndTail
<1>4. PICK st \in [Nat -> States] : Path(st)
  BY DEF IInv, Protocol
<1>5. cpc' = st[2]
  <2>1. After(cpc, s2c[1], st[2])
    BY <1>2, <1>3, <1>4 DEF Path
  <2>. QED BY <1>3, <2>1, AfterIsFunction
<1>. DEFINE en == [j \in Nat |-> st[j + 1]]
<1>6. en \in [Nat -> States] /\ \A j \in Nat : en[j] = st[j + 1]
  OBVIOUS
<1>. HIDE DEF en
<1>7. \A j \in 1..(n - 1) : After(en[j], s2c'[j], en[j + 1])
  <2>. TAKE j \in 1..(n - 1)
  <2>1. j + 1 \in 1..n /\ j \in Nat /\ j + 1 \in Nat
    BY <1>3
  <2>2. After(st[j + 1], s2c[j + 1], st[(j + 1) + 1])
    BY <1>2, <1>4, <2>1 DEF Path
  <2>. QED BY <1>3, <1>6, <2>1, <2>2
<1>8. lost \/ en[n] = Mode(spc)
  BY <1>2, <1>3, <1>4, <1>6 DEF Path
<1>9. \A j \in 1..n : en[j] = "exited" => spc = "closed"
  <2>. TAKE j \in 1..n
  <2>1. j + 1 \in 1..(n + 1) /\ j \in Nat
    BY <1>3
  <2>. QED BY <1>2, <1>4, <1>6, <2>1 DEF Path
<1>10. Path(en)'
  <2>1. en[1] = cpc' /\ Len(s2c') + 1 = n
    BY <1>3, <1>5, <1>6
  <2>. QED BY <1>3, <1>7, <1>8, <1>9, <2>1 DEF Path
<1>. QED BY <1>6, <1>10 DEF Protocol

\* The rest of what is on its way, once its first object is taken
LEMMA TakeQuestion ==
    ASSUME IInv, s2c # <<>>, s2c' = Tail(s2c), UNCHANGED <<spc, heard, lost>>
    PROVE  /\ s2c' \in Seq(Token \cup Strings) /\ c2s = <<>>
           /\ \A j \in 1..Len(s2c') :
                 s2c'[j] \in Ask => j = Len(s2c') /\ Waiting' /\ said = heard
           /\ Head(s2c) \in Ask => s2c' = <<>> /\ Waiting' /\ said = heard
<1>1. s2c \in Seq(Token \cup Strings)
  BY DEF IInv, TypeOK
<1>2. PICK n : n = Len(s2c)
  OBVIOUS
<1>3. /\ n \in Nat /\ n > 0 /\ Head(s2c) = s2c[1] /\ Len(s2c') = n - 1
      /\ \A j \in 1..(n - 1) : s2c'[j] = s2c[j + 1]
      /\ s2c' \in Seq(Token \cup Strings)
  BY <1>1, <1>2, HeadAndTail
<1>4. \A j \in 1..n : s2c[j] \in Ask => j = n /\ c2s = <<>> /\ Waiting /\ said = heard
  BY <1>2 DEF IInv, OneQuestion
<1>5. Waiting' <=> Waiting
  BY DEF Waiting
<1>6. \A j \in 1..(n - 1) : j + 1 \in 1..n
  BY <1>3
<1>7. c2s = <<>>
  BY DEF IInv, OneQuestion
<1>8. n = 1 => s2c' = <<>>
  BY <1>3, HeadAndTail
<1>. QED BY <1>3, <1>4, <1>5, <1>6, <1>7, <1>8

\* The client takes an object that it does not answer.
LEMMA TakeSilently ==
    ASSUME IInv, s2c # <<>>, s2c' = Tail(s2c), UNCHANGED <<spc, heard, lost, c2s, said>>,
           After(cpc, Head(s2c), cpc'), Head(s2c) \notin Ask
    PROVE  Protocol' /\ OneQuestion'
<1>1. Protocol'
  BY TakeKeepsStep
<1>2. c2s = <<>> /\ \A j \in 1..Len(s2c') :
          s2c'[j] \in Ask => j = Len(s2c') /\ Waiting' /\ said = heard
  BY TakeQuestion
<1>3. said = heard \/ (lost /\ heard = SubSeq(said, 1, Len(said) - 1))
  BY <1>2 DEF IInv, OneQuestion
<1>. QED BY <1>1, <1>2, <1>3 DEF OneQuestion

\* It takes a question and answers it; the answer may be lost.
LEMMA TakeAndAnswer ==
    ASSUME IInv, s2c # <<>>, s2c' = Tail(s2c), UNCHANGED <<spc, heard, lost>>,
           After(cpc, Head(s2c), cpc'), Head(s2c) \in Ask,
           NEW s \in Strings, Says(s)
    PROVE  /\ Protocol' /\ OneQuestion'
           /\ c2s' \in Seq(Strings) /\ said' \in Seq(Strings)
<1>1. Protocol'
  BY TakeKeepsStep
<1>2. c2s = <<>> /\ s2c' = <<>> /\ Waiting' /\ said = heard
  BY TakeQuestion
<1>3. c2s \in Seq(Strings) /\ said \in Seq(Strings)
  BY DEF IInv, TypeOK
<1>4. /\ said' = Append(said, s) /\ said' \in Seq(Strings) /\ said' = said \o <<s>>
      /\ SubSeq(said', 1, Len(said') - 1) = said
  BY <1>3, AppendConcat DEF Says
<1>5. c2s' = IF lost THEN <<>> ELSE <<s>>
  BY <1>2 DEF Says
<1>6. OneQuestion'
  <2>0. \A j \in 1..Len(<<>>) : FALSE
    OBVIOUS
  <2>1. heard' = said /\ \A j \in 1..Len(s2c') : FALSE
    BY <1>2, <2>0
  <2>2. CASE lost
    <3>1. c2s' = <<>> /\ heard' = SubSeq(said', 1, Len(said') - 1)
      BY <1>4, <1>5, <2>1, <2>2
    <3>2. lost'
      BY <2>2
    <3>. QED BY <2>1, <3>1, <3>2 DEF OneQuestion
  <2>3. CASE ~lost
    <3>1. c2s' = <<s>> /\ said' = heard' \o c2s' /\ Len(c2s') = 1
      BY <1>4, <1>5, <2>1, <2>3
    <3>2. c2s' # <<>>
      BY <3>1
    <3>. QED BY <1>2, <2>1, <3>1, <3>2 DEF OneQuestion
  <2>. QED BY <2>2, <2>3
<1>. QED BY <1>1, <1>3, <1>4, <1>5, <1>6

\* The objects that the client takes as what they are, and does not answer
LEMMA StepTakes ==
    ASSUME IInv,
           \/ TakeToken \/ PrintString \/ EndReading \/ AnnounceWrite
           \/ WriteString \/ EndWriting \/ Leave
    PROVE  IInv'
<1>1. /\ s2c # <<>> /\ s2c' = Tail(s2c)
      /\ UNCHANGED <<spc, ops, heard, lost, thrown, c2s, said, file, line, out>>
  BY DEF TakeToken, PrintString, EndReading, AnnounceWrite, WriteString, EndWriting,
         Leave, Takes, serverVars, linkVars, fileVars, outputVars
<1>2. PICK d \in States : After(cpc, Head(s2c), d)
  BY <1>1, HeadFollows
<1>3. After(cpc, Head(s2c), cpc') /\ Head(s2c) \notin Ask
  BY <1>2, ObjectsAssumption
     DEF After, Ask, Token, TakeToken, PrintString, EndReading, AnnounceWrite,
         WriteString, EndWriting, Leave, Takes
<1>4. Protocol' /\ OneQuestion'
  BY <1>1, <1>3, TakeSilently
<1>5. s2c' \in Seq(Token \cup Strings)
  BY <1>1, TakeQuestion
<1>6. cpc' \in States
  BY <1>3 DEF After, States
<1>7. screen' \in Seq(Strings) /\ saved' \in [Files -> Seq(Strings)]
  <2>1. CASE PrintString \/ WriteString
    <3>1. Head(s2c) \in Strings
      BY <1>2, <2>1 DEF PrintString, WriteString, Takes, After, Strings
    <3>2. screen \in Seq(Strings) /\ saved \in [Files -> Seq(Strings)] /\ out \in Files
      BY DEF IInv, TypeOK
    <3>3. saved[out] \in Seq(Strings)
      BY <3>2
    <3>4. /\ Append(screen, Head(s2c)) \in Seq(Strings)
          /\ Append(saved[out], Head(s2c)) \in Seq(Strings)
      BY <3>1, <3>2, <3>3, AppendProperties
    <3>. QED BY <2>1, <3>2, <3>4 DEF PrintString, WriteString, outputVars
  <2>2. CASE TakeToken \/ EndReading \/ AnnounceWrite \/ EndWriting \/ Leave
    BY <2>2 DEF TakeToken, EndReading, AnnounceWrite, EndWriting, Leave, outputVars,
                IInv, TypeOK
  <2>. QED BY <2>1, <2>2
<1>8. TypeOK'
  BY <1>1, <1>5, <1>6, <1>7 DEF IInv, TypeOK, States
<1>. QED BY <1>4, <1>8 DEF IInv

\* The client opens a file.
LEMMA StepOpens ==
    ASSUME IInv, OpenFile \/ OpenOutputFile
    PROVE  IInv'
<1>1. /\ s2c # <<>> /\ s2c' = Tail(s2c)
      /\ UNCHANGED <<spc, ops, heard, lost, thrown, c2s, said, screen>>
  BY DEF OpenFile, OpenOutputFile, Takes, serverVars, linkVars, fileVars, outputVars
<1>2. PICK d \in States : After(cpc, Head(s2c), d)
  BY <1>1, HeadFollows
<1>3. After(cpc, Head(s2c), cpc') /\ Head(s2c) \notin Ask
  BY <1>2, ObjectsAssumption DEF After, Ask, Token, OpenFile, OpenOutputFile, Takes
<1>4. Protocol' /\ OneQuestion'
  BY <1>1, <1>3, TakeSilently
<1>5. s2c' \in Seq(Token \cup Strings)
  BY <1>1, TakeQuestion
<1>6. cpc' \in States
  BY <1>3 DEF After, States
<1>7. /\ file' \in [rest : Seq(Lines), good : BOOLEAN] /\ line' \in Strings
      /\ out' \in Files /\ saved' \in [Files -> Seq(Strings)]
  <2>1. CASE OpenFile
    <3>1. PICK f \in Files : file' = [rest |-> Content[f].lines, good |-> Content[f].exists]
      BY <2>1 DEF OpenFile
    <3>2. Content[f].lines \in Seq(Lines) /\ Content[f].exists \in BOOLEAN
      BY ContentAssumption
    <3>3. line' \in Strings
      BY <2>1 DEF OpenFile, Strings
    <3>. QED BY <2>1, <3>1, <3>2, <3>3 DEF OpenFile, outputVars, IInv, TypeOK
  <2>2. CASE OpenOutputFile
    <3>1. PICK f \in Files : out' = f /\ saved' = [saved EXCEPT ![f] = <<>>]
      BY <2>2 DEF OpenOutputFile
    <3>2. << >> \in Seq(Strings)
      BY EmptySeq
    <3>. QED BY <2>2, <3>1, <3>2 DEF OpenOutputFile, fileVars, IInv, TypeOK
  <2>. QED BY <2>1, <2>2
<1>8. TypeOK'
  BY <1>1, <1>5, <1>6, <1>7 DEF IInv, TypeOK, States
<1>. QED BY <1>4, <1>8 DEF IInv

\* getline keeps the client's stream in its type.
LEMMA GetlineType ==
    ASSUME TypeOK, Getline
    PROVE  /\ file' \in [rest : Seq(Lines), good : BOOLEAN] /\ line' \in Strings
<1>1. file \in [rest : Seq(Lines), good : BOOLEAN] /\ line \in Strings /\ NoLine \in Strings
  BY DEF TypeOK, Strings
<1>2. CASE file.rest = <<>>
  BY <1>1, <1>2 DEF Getline
<1>3. CASE file.rest # <<>>
  <2>1. Head(file.rest) \in Lines /\ Tail(file.rest) \in Seq(Lines)
    BY <1>1, <1>3, HeadTailProperties
  <2>2. Head(file.rest).text \in Strings /\ Head(file.rest).newline \in BOOLEAN
    BY <2>1, ContentAssumption DEF Strings
  <2>. QED BY <1>1, <1>3, <2>1, <2>2 DEF Getline
<1>. QED BY <1>2, <1>3

\* The client answers, with a line or with what its user types.
LEMMA StepAnswers ==
    ASSUME IInv, SendLine \/ UserTypes
    PROVE  IInv'
<1>1. /\ s2c # <<>> /\ s2c' = Tail(s2c)
      /\ UNCHANGED <<spc, ops, heard, lost, thrown, screen, out, saved>>
  BY DEF SendLine, UserTypes, SendWord, Takes, serverVars, linkVars, outputVars
<1>2. PICK d \in States : After(cpc, Head(s2c), d)
  BY <1>1, HeadFollows
<1>3. After(cpc, Head(s2c), cpc') /\ Head(s2c) \in Ask
  BY <1>2, ObjectsAssumption DEF After, Ask, Token, SendLine, UserTypes, SendWord, Takes
<1>4. /\ file' \in [rest : Seq(Lines), good : BOOLEAN] /\ line' \in Strings
      /\ \E s \in Strings : Says(s)
  <2>1. CASE SendLine
    BY <2>1, GetlineType DEF SendLine, IInv
  <2>2. CASE UserTypes
    BY <2>2 DEF UserTypes, SendWord, fileVars, Strings, IInv, TypeOK
  <2>. QED BY <2>1, <2>2
<1>5. /\ Protocol' /\ OneQuestion'
      /\ c2s' \in Seq(Strings) /\ said' \in Seq(Strings)
  BY <1>1, <1>3, <1>4, TakeAndAnswer
<1>6. s2c' \in Seq(Token \cup Strings)
  BY <1>1, TakeQuestion
<1>7. cpc' \in States
  BY <1>3 DEF After, States
<1>8. TypeOK'
  BY <1>1, <1>4, <1>5, <1>6, <1>7 DEF IInv, TypeOK, States
<1>. QED BY <1>5, <1>8 DEF IInv

-----------------------------------------------------------------------------
(* The answers and the loss of the connection *)

\* Hearing the answer ends the wait.
LEMMA StepHear ==
    ASSUME IInv, Hear
    PROVE  IInv'
<1>1. /\ c2s # <<>> /\ heard' = Append(heard, Head(c2s)) /\ c2s' = Tail(c2s)
      /\ Waiting /\ spc' = IF spc = "wait_word" THEN "idle" ELSE "reading"
      /\ UNCHANGED <<ops, s2c, lost, thrown, cpc, file, line, screen, said, out, saved>>
  BY DEF Hear, Waiting, linkVars, clientVars, fileVars, outputVars
<1>2. c2s \in Seq(Strings) /\ heard \in Seq(Strings)
  BY DEF IInv, TypeOK
<1>3. s2c = <<>> /\ Len(c2s) = 1 /\ said = heard \o c2s
  BY <1>1 DEF IInv, OneQuestion
<1>4. /\ Head(c2s) \in Strings /\ Head(c2s) = c2s[1]
      /\ c2s' \in Seq(Strings) /\ Len(c2s') = 0
  BY <1>1, <1>2, <1>3, HeadAndTail
<1>5. c2s' = <<>> /\ c2s = <<Head(c2s)>>
  BY <1>2, <1>3, <1>4, EmptySeq, SeqEqual
<1>6. heard' \in Seq(Strings) /\ heard' = said'
  BY <1>1, <1>2, <1>3, <1>4, <1>5, AppendConcat
<1>7. OneQuestion'
  <2>1. \A j \in 1..Len(<<>>) : FALSE
    OBVIOUS
  <2>. QED BY <1>1, <1>3, <1>5, <1>6, <2>1 DEF OneQuestion
<1>8. Mode(spc') = Mode(spc) /\ spc # "closed"
  BY <1>1 DEF Mode, Waiting
<1>9. Protocol'
  BY <1>1, <1>8 DEF IInv, Protocol, Path
<1>10. TypeOK'
  BY <1>1, <1>4, <1>6 DEF IInv, TypeOK
<1>. QED BY <1>7, <1>9, <1>10 DEF IInv

\* A loss cuts both paths; an answer that is lost is the last.
LEMMA StepLose ==
    ASSUME IInv, Lose
    PROVE  IInv'
<1>1. /\ ~lost /\ lost' /\ lost' = TRUE
      /\ s2c' \in Prefixes(s2c) /\ c2s' \in Prefixes(c2s)
      /\ UNCHANGED <<spc, ops, heard, thrown, cpc, file, line, screen, said, out, saved>>
  BY DEF Lose, serverVars, clientVars, fileVars, outputVars
<1>2. /\ s2c \in Seq(Token \cup Strings) /\ c2s \in Seq(Strings)
      /\ heard \in Seq(Strings) /\ said \in Seq(Strings)
  BY DEF IInv, TypeOK
<1>3. /\ s2c' \in Seq(Token \cup Strings) /\ Len(s2c') <= Len(s2c)
      /\ \A j \in 1..Len(s2c') : s2c'[j] = s2c[j]
      /\ c2s' \in Seq(Strings)
  BY <1>1, <1>2, Prefix
<1>4. Len(s2c) \in Nat /\ Len(s2c') \in Nat /\ Len(<<>>) = 0
  BY <1>2, <1>3, LenProperties
<1>5. c2s' = c2s \/ c2s' = <<>>
  <2>1. CASE c2s = <<>>
    <3>1. Len(c2s) <= 1
      BY <1>4, <2>1
    <3>. QED BY <1>1, <1>2, <3>1, PrefixOfOne, Zenon
  <2>2. CASE c2s # <<>>
    <3>1. Len(c2s) = 1
      BY <2>2 DEF IInv, OneQuestion
    <3>2. Len(c2s) <= 1
      BY <3>1
    <3>. QED BY <1>1, <1>2, <3>2, PrefixOfOne, Zenon
  <2>. QED BY <2>1, <2>2
<1>6. TypeOK'
  BY <1>1, <1>3 DEF IInv, TypeOK
<1>7. Protocol'
  <2>1. PICK st \in [Nat -> States] : Path(st)
    BY DEF IInv, Protocol
  <2>2. Path(st)'
    <3>1. \A j \in 1..Len(s2c') : After(st[j], s2c'[j], st[j + 1])
      BY <1>3, <1>4, <2>1 DEF Path
    <3>2. \A j \in 1..(Len(s2c') + 1) : st[j] = "exited" => spc = "closed"
      BY <1>3, <1>4, <2>1 DEF Path
    <3>. QED BY <1>1, <2>1, <3>1, <3>2 DEF Path
  <2>. QED BY <2>2 DEF Protocol
<1>8. OneQuestion'
  <2>1. ASSUME NEW j \in 1..Len(s2c'), s2c'[j] \in Ask
        PROVE  j = Len(s2c') /\ c2s' = <<>> /\ Waiting' /\ said' = heard'
    <3>1. j \in 1..Len(s2c) /\ s2c[j] \in Ask
      BY <1>3, <1>4, <2>1
    <3>2. j = Len(s2c) /\ c2s = <<>> /\ Waiting /\ said = heard
      BY <3>1 DEF IInv, OneQuestion
    <3>. QED BY <1>1, <1>3, <1>4, <1>5, <3>2 DEF Waiting
  <2>2. CASE c2s' # <<>>
    <3>1. c2s' = c2s /\ c2s # <<>>
      BY <1>5, <2>2
    <3>2. Waiting /\ s2c = <<>> /\ Len(c2s) = 1 /\ said = heard \o c2s
      BY <3>1 DEF IInv, OneQuestion
    <3>3. s2c' = <<>>
      <4>1. Len(s2c) <= 1
        BY <1>4, <3>2
      <4>2. s2c' = s2c \/ s2c' = <<>>
        BY <1>1, <1>2, <4>1, PrefixOfOne, Zenon
      <4>. QED BY <3>2, <4>2
    <3>. QED BY <1>1, <2>1, <2>2, <3>1, <3>2, <3>3 DEF OneQuestion, Waiting
  <2>3. CASE c2s' = <<>>
    <3>1. CASE c2s = <<>>
      <4>1. said = heard
        BY <1>1, <3>1 DEF IInv, OneQuestion
      <4>. QED BY <1>1, <2>1, <2>3, <4>1 DEF OneQuestion
    <3>2. CASE c2s # <<>>
      <4>1. Len(c2s) = 1 /\ said = heard \o c2s
        BY <3>2 DEF IInv, OneQuestion
      <4>2. c2s[1] \in Strings /\ c2s = <<c2s[1]>>
        <5>1. c2s[1] \in Strings
          <6>1. 1 \in 1..Len(c2s)
            BY <4>1
          <6>. QED BY <1>2, <6>1, ElementOfSeq, Zenon
        <5>2. /\ <<c2s[1]>> \in Seq(Strings) /\ Len(<<c2s[1]>>) = 1
              /\ <<c2s[1]>>[1] = c2s[1]
          BY <5>1
        <5>. QED BY <1>2, <4>1, <5>1, <5>2, SeqEqual
      <4>3. said = Append(heard, c2s[1])
        BY <1>2, <4>1, <4>2, AppendConcat
      <4>4. heard = SubSeq(said, 1, Len(said) - 1)
        BY <1>2, <4>2, <4>3, AppendConcat
      <4>. QED BY <1>1, <2>1, <2>3, <4>4 DEF OneQuestion
    <3>. QED BY <3>1, <3>2
  <2>. QED BY <2>2, <2>3
<1>. QED BY <1>6, <1>7, <1>8 DEF IInv

\* An exception changes nothing that the invariant is about.
LEMMA StepThrows ==
    ASSUME IInv, ProgramThrows \/ ClientThrows \/ UNCHANGED vars
    PROVE  IInv'
<1>1. /\ UNCHANGED <<spc, ops, heard, s2c, c2s, lost, cpc, file, line, screen, said,
                     out, saved>>
      /\ thrown' \subseteq {"program", "client"}
  BY DEF ProgramThrows, ClientThrows, vars, serverVars, linkVars, clientVars, fileVars,
         outputVars, IInv, TypeOK
<1>2. TypeOK'
  BY <1>1 DEF IInv, TypeOK
<1>3. Protocol'
  BY <1>1 DEF IInv, Protocol, Path
<1>4. OneQuestion'
  BY <1>1 DEF IInv, OneQuestion, Waiting
<1>. QED BY <1>2, <1>3, <1>4 DEF IInv

-----------------------------------------------------------------------------
(* The theorems *)

\* The invariant holds when the connection is made.
LEMMA InitInv == Init => IInv
<1>. SUFFICES ASSUME Init  PROVE IInv
  OBVIOUS
<1>. USE DEF Init
<1>1. \A S : << >> \in Seq(S)
  BY EmptySeq
<1>2. Len(<< >>) = 0 /\ << >> \o << >> = << >>
  OBVIOUS
<1>3. TypeOK
  <2>1. saved \in [Files -> Seq(Strings)]
    BY <1>1
  <2>2. ops \in 0..MaxOps /\ NoLine \in Strings
    BY ObjectsAssumption DEF Strings
  <2>3. file \in [rest : Seq(Lines), good : BOOLEAN]
    BY <1>1
  <2>. QED BY <1>1, <2>1, <2>2, <2>3 DEF TypeOK
<1>4. Protocol
  <2>. DEFINE st == [j \in Nat |-> "token"]
  <2>1. st \in [Nat -> States] /\ \A j \in Nat : st[j] = "token"
    BY DEF States
  <2>. HIDE DEF st
  <2>2. Path(st)
    BY <1>2, <2>1 DEF Path, Mode
  <2>. QED BY <2>1, <2>2 DEF Protocol
<1>5. OneQuestion
  BY <1>2 DEF OneQuestion
<1>. QED BY <1>3, <1>4, <1>5 DEF IInv

\* Every step keeps it.
LEMMA StepInv == IInv /\ [Next]_vars => IInv'
<1>. SUFFICES ASSUME IInv, [Next]_vars  PROVE IInv'
  OBVIOUS
<1>1. CASE Operations
  BY <1>1, StepOperations
<1>2. CASE ProgramStep
  BY <1>2, StepHear, StepThrows DEF ProgramStep
<1>3. CASE ClientStep
  BY <1>3, StepTakes, StepOpens, StepAnswers, StepThrows DEF ClientStep
<1>4. CASE UserTypes
  BY <1>4, StepAnswers
<1>5. CASE Lose
  BY <1>5, StepLose
<1>6. CASE Finished \/ Exhausted \/ UNCHANGED vars
  BY <1>6, StepThrows DEF Finished, Exhausted
<1>. QED BY <1>1, <1>2, <1>3, <1>4, <1>5, <1>6 DEF Next

\* DefaultSocketIO and the loop of the client keep the invariant.
THEOREM Invariance == SafetySpec => []IInv
<1>. QED BY InitInv, StepInv, PTL DEF SafetySpec

\* Both processes, the channels and the client's streams hold what they can.
THEOREM TypeCorrectness == SafetySpec => []TypeOK
<1>1. IInv => TypeOK
  BY DEF IInv
<1>. QED BY <1>1, Invariance, PTL

\* The two ends never lose step: DefaultSocketIO and the loop of the client
\* take every object for what it was sent as, and the client leaves last.
THEOREM EndsStayInStep == SafetySpec => []InStep
<1>1. ASSUME IInv  PROVE InStep
  <2>1. CASE s2c # <<>>
    <3>1. PICK d \in States : After(cpc, Head(s2c), d)
      BY <1>1, <2>1, HeadFollows
    <3>2. /\ cpc \in {"token", "read_loop", "write_loop"} => Head(s2c) \in Token
          /\ cpc \notin {"token", "read_loop", "write_loop"} => Head(s2c) \notin Token
      BY <3>1, ObjectsAssumption DEF After, Token
    <3>3. cpc # "exited"
      BY <3>1 DEF After
    <3>. QED BY <2>1, <3>2, <3>3 DEF InStep
  <2>2. CASE s2c = <<>>
    <3>1. PICK st \in [Nat -> States] : Path(st)
      BY <1>1 DEF IInv, Protocol
    <3>2. 1 \in 1..(Len(s2c) + 1)
      BY <2>2
    <3>3. cpc = "exited" => spc = "closed"
      BY <3>1, <3>2 DEF Path
    <3>4. spc = "closed" => c2s = <<>>
      BY <1>1 DEF IInv, OneQuestion, Waiting
    <3>. QED BY <2>2, <3>3, <3>4 DEF InStep
  <2>. QED BY <2>1, <2>2
<1>. QED BY <1>1, Invariance, PTL

\* The program gets the answers in the order in which the client gave them,
\* one for each question, and loses at most the last, with the connection.
THEOREM QuestionsAreAnswered == SafetySpec => []AnswersMatch
<1>1. ASSUME IInv  PROVE AnswersMatch
  <2>1. heard \in Seq(Strings)
    BY <1>1 DEF IInv, TypeOK
  <2>2. CASE c2s = <<>>
    <3>1. heard \o c2s = heard
      BY <2>1, <2>2, ConcatEmptySeq
    <3>. QED BY <1>1, <2>2, <3>1 DEF IInv, OneQuestion, AnswersMatch
  <2>3. CASE c2s # <<>>
    BY <1>1, <2>3 DEF IInv, OneQuestion, AnswersMatch, Waiting
  <2>. QED BY <2>2, <2>3
<1>. QED BY <1>1, Invariance, PTL

-----------------------------------------------------------------------------
(* The client acts like a local terminal *)

\* Every line of the client's files ends with a newline.
LinesTerminated == \A l \in Lines : l.newline

\* A stream that is no longer good has given all of its file, and the string
\* that getline does not touch any more is empty.
FileInv == ~file.good => file.rest = <<>> /\ line = NoLine

\* Only opening a file and getline touch the client's stream.
LEMMA FileInvInductive ==
    ASSUME LinesTerminated
    PROVE  (Init => FileInv) /\ (IInv /\ FileInv /\ [Next]_vars => FileInv')
<1>1. Init => FileInv
  BY DEF Init, FileInv
<1>2. ASSUME IInv, FileInv, OpenFile  PROVE FileInv'
  <2>1. PICK f \in Files : file' = [rest |-> Content[f].lines, good |-> Content[f].exists]
    BY <1>2 DEF OpenFile
  <2>. QED BY <1>2, <2>1, ContentAssumption DEF OpenFile, FileInv
<1>3. ASSUME IInv, FileInv, SendLine  PROVE FileInv'
  <2>1. file \in [rest : Seq(Lines), good : BOOLEAN]
    BY <1>3 DEF IInv, TypeOK
  <2>2. CASE file.good /\ file.rest # <<>>
    <3>1. Head(file.rest).newline
      BY <2>1, <2>2, HeadTailProperties DEF LinesTerminated
    <3>. QED BY <1>3, <2>2, <3>1 DEF SendLine, Getline, FileInv
  <2>3. CASE ~(file.good /\ file.rest # <<>>)
    BY <1>3, <2>1, <2>3 DEF SendLine, Getline, FileInv
  <2>. QED BY <2>2, <2>3
<1>4. ASSUME FileInv, UNCHANGED fileVars  PROVE FileInv'
  BY <1>4 DEF FileInv, fileVars
<1>5. ASSUME [Next]_vars  PROVE OpenFile \/ SendLine \/ UNCHANGED fileVars
  <2>1. CASE Operations
    BY <2>1 DEF Operations, Output, Write, OpenInput, OpenOutput, Input, Read, CloseInput,
                CloseOutput, Close, Operation, clientVars
  <2>2. CASE ClientStep
    BY <2>2 DEF ClientStep, TakeToken, PrintString, EndReading, OpenOutputFile,
                AnnounceWrite, WriteString, EndWriting, Leave, ClientThrows, clientVars
  <2>3. CASE UserTypes \/ ProgramStep \/ Lose \/ Finished \/ Exhausted \/ UNCHANGED vars
    BY <2>3 DEF UserTypes, SendWord, ProgramStep, Hear, ProgramThrows, Lose, Finished,
                Exhausted, vars, clientVars
  <2>. QED BY <1>5, <2>1, <2>2, <2>3 DEF Next
<1>. QED BY <1>1, <1>2, <1>3, <1>4, <1>5

\* What a sequence of lines reads
Texts(s) == [i \in DOMAIN s |-> s[i].text]

\* Head and tail of the texts are those of the lines.
LEMMA TextsOf ==
    ASSUME NEW s \in Seq(Lines)
    PROVE  /\ s = <<>> <=> Texts(s) = <<>>
           /\ s # <<>> => Head(Texts(s)) = Head(s).text /\ Tail(Texts(s)) = Texts(Tail(s))
<1>. DEFINE T == {l.text : l \in Lines}
<1>1. Len(s) \in Nat /\ DOMAIN s = 1..Len(s) /\ \A i \in 1..Len(s) : s[i] \in Lines
  BY HeadAndTail, ElementOfSeq
<1>2. Texts(s) \in Seq(T) /\ Len(Texts(s)) = Len(s)
  BY <1>1 DEF Texts
<1>3. s = <<>> <=> Texts(s) = <<>>
  BY <1>2, HeadAndTail
<1>4. ASSUME s # <<>>
      PROVE  Head(Texts(s)) = Head(s).text /\ Tail(Texts(s)) = Texts(Tail(s))
  <2>1. /\ Tail(s) \in Seq(Lines) /\ Len(Tail(s)) = Len(s) - 1 /\ Head(s) = s[1]
        /\ DOMAIN Tail(s) = 1..(Len(s) - 1)
        /\ \A i \in 1..(Len(s) - 1) : Tail(s)[i] = s[i + 1] /\ Tail(s)[i] \in Lines
    BY <1>4, HeadAndTail, ElementOfSeq
  <2>2. /\ Tail(Texts(s)) \in Seq(T) /\ Len(Tail(Texts(s))) = Len(s) - 1
        /\ Head(Texts(s)) = Texts(s)[1]
        /\ \A i \in 1..(Len(s) - 1) : Tail(Texts(s))[i] = Texts(s)[i + 1]
    BY <1>2, <1>3, <1>4, HeadAndTail
  <2>3. /\ Texts(Tail(s)) \in Seq(T) /\ Len(Texts(Tail(s))) = Len(s) - 1
        /\ \A i \in 1..(Len(s) - 1) : Texts(Tail(s))[i] = s[i + 1].text
    BY <1>1, <2>1 DEF Texts
  <2>4. \A i \in 1..Len(s) : Texts(s)[i] = s[i].text
    BY <1>1 DEF Texts
  <2>5. Len(s) > 0
    BY <1>4, HeadAndTail
  <2>6. \A i \in 1..(Len(s) - 1) : Tail(Texts(s))[i] = Texts(Tail(s))[i]
    BY <1>1, <2>2, <2>3, <2>4
  <2>7. Tail(Texts(s)) = Texts(Tail(s))
    BY <2>2, <2>3, <2>6, SeqEqual
  <2>. QED BY <1>1, <2>1, <2>2, <2>4, <2>5, <2>7
<1>. QED BY <1>3, <1>4

\* An object that the client prints, writes or acts upon is one of LocalIO's
\* operations; the rest is not seen.
LEMMA TakesAreLocal ==
    ASSUME IInv,
           \/ TakeToken \/ PrintString \/ EndReading \/ AnnounceWrite
           \/ WriteString \/ EndWriting \/ Leave
    PROVE  [Local!Next]_Local!vars
<1>. USE DEF Takes, fileVars, outputVars
<1>1. s2c # <<>> /\ \E d \in States : After(cpc, Head(s2c), d)
  BY HeadFollows DEF TakeToken, PrintString, EndReading, AnnounceWrite, WriteString,
                     EndWriting, Leave
<1>2. CASE PrintString
  <2>1. Head(s2c) \in Messages
    BY <1>1, <1>2 DEF PrintString, After
  <2>2. Local!Output(Head(s2c))
    BY <1>2 DEF PrintString, Local!Output
  <2>. QED BY <2>1, <2>2 DEF Local!Next
<1>3. CASE WriteString
  <2>1. Head(s2c) \in Messages
    BY <1>1, <1>3 DEF WriteString, After
  <2>2. Local!Write(Head(s2c))
    BY <1>3 DEF WriteString, Local!Write
  <2>. QED BY <2>1, <2>2 DEF Local!Next
<1>4. CASE EndReading
  <2>1. Local!CloseInput
    BY <1>4 DEF EndReading, Local!CloseInput
  <2>. QED BY <2>1 DEF Local!Next
<1>5. CASE EndWriting
  <2>1. Local!CloseOutput
    BY <1>5 DEF EndWriting, Local!CloseOutput
  <2>. QED BY <2>1 DEF Local!Next
<1>6. CASE Leave
  <2>1. Local!Close
    BY <1>6 DEF Leave, Local!Close
  <2>. QED BY <2>1 DEF Local!Next
<1>7. CASE TakeToken
  BY <1>7 DEF TakeToken, Local!vars
<1>8. CASE AnnounceWrite
  BY <1>8 DEF AnnounceWrite, Local!vars
<1>. QED BY <1>2, <1>3, <1>4, <1>5, <1>6, <1>7, <1>8

\* A question in a file whose lines are terminated is answered with its next
\* line, or with the empty string at its end.
LEMMA AnswersAreLocal ==
    ASSUME IInv, FileInv, SendLine
    PROVE  Local!Read
<1>1. file \in [rest : Seq(Lines), good : BOOLEAN]
  BY DEF IInv, TypeOK
<1>2. /\ file.rest = <<>> <=> Texts(file.rest) = <<>>
      /\ file.rest # <<>> => /\ Head(Texts(file.rest)) = Head(file.rest).text
                             /\ Tail(Texts(file.rest)) = Texts(Tail(file.rest))
  BY <1>1, TextsOf
<1>3. /\ line' = IF Texts(file.rest) = <<>> THEN NoLine ELSE Head(Texts(file.rest))
      /\ Texts(file'.rest) = IF Texts(file.rest) = <<>> THEN <<>> ELSE Tail(Texts(file.rest))
  <2>1. CASE file.rest = <<>>
    <3>1. file'.rest = <<>> /\ line' = NoLine
      BY <1>1, <2>1 DEF SendLine, Getline, FileInv
    <3>. QED BY <1>2, <2>1, <3>1
  <2>2. CASE file.rest # <<>>
    <3>1. file.good
      BY <2>2 DEF FileInv
    <3>2. file'.rest = Tail(file.rest) /\ line' = Head(file.rest).text
      BY <2>2, <3>1 DEF SendLine, Getline
    <3>. QED BY <1>2, <2>2, <3>2
  <2>. QED BY <2>1, <2>2
<1>4. /\ cpc = "read_loop" /\ cpc' = "read_loop" /\ said' = Append(said, line')
      /\ UNCHANGED <<screen, out, saved>>
  BY DEF SendLine, Takes, Says, outputVars
<1>. QED BY <1>3, <1>4 DEF Local!Read, Texts

\* The client opens the file that the program named.
LEMMA OpensAreLocal ==
    ASSUME IInv
    PROVE  /\ \A f \in Files :
                 Takes("file_r", "read_loop", f) /\ OpenFile => Local!OpenInput(f)
           /\ OpenOutputFile => \E f \in Files : Local!OpenOutput(f)
<1>. USE DEF Takes, fileVars, outputVars
<1>1. ASSUME NEW f \in Files, Takes("file_r", "read_loop", f), OpenFile
      PROVE  Local!OpenInput(f)
  <2>1. file'.rest = Content[f].lines
    BY <1>1 DEF OpenFile
  <2>. QED BY <1>1, <2>1 DEF OpenFile, Local!OpenInput
<1>2. ASSUME OpenOutputFile  PROVE \E f \in Files : Local!OpenOutput(f)
  <2>1. PICK f \in Files :
           /\ Takes("file_w", "write_loop", f) /\ out' = f
           /\ saved' = [saved EXCEPT ![f] = <<>>]
    BY <1>2 DEF OpenOutputFile
  <2>2. Local!OpenOutput(f)
    BY <1>2, <2>1 DEF OpenOutputFile, Local!OpenOutput
  <2>. QED BY <2>2
<1>. QED BY <1>1, <1>2

\* Every step is an operation of the local terminal or is not seen.
LEMMA StepIsLocal ==
    ASSUME IInv, FileInv, [Next]_vars
    PROVE  [Local!Next]_Local!vars
<1>1. CASE UNCHANGED clientVars
  BY <1>1 DEF clientVars, fileVars, outputVars, Local!vars
<1>2. CASE ClientStep
  <2>1. CASE SendLine
    BY <2>1, AnswersAreLocal DEF Local!Next
  <2>2. CASE OpenFile
    <3>1. PICK f \in Files : Takes("file_r", "read_loop", f)
      BY <2>2 DEF OpenFile
    <3>. QED BY <2>2, <3>1, OpensAreLocal DEF Local!Next
  <2>3. CASE OpenOutputFile
    BY <2>3, OpensAreLocal DEF Local!Next
  <2>4. CASE ClientThrows
    BY <2>4, <1>1 DEF ClientThrows
  <2>. QED BY <1>2, <2>1, <2>2, <2>3, <2>4, TakesAreLocal DEF ClientStep
<1>3. CASE UserTypes
  <2>1. PICK w \in Words : SendWord(w)
    BY <1>3 DEF UserTypes
  <2>2. Local!Input(w)
    BY <2>1 DEF SendWord, Takes, Says, fileVars, outputVars, Local!Input
  <2>. QED BY <2>2 DEF Local!Next
<1>4. CASE Operations \/ ProgramStep \/ Lose \/ Finished \/ Exhausted \/ UNCHANGED vars
  <2>1. UNCHANGED clientVars
    BY <1>4 DEF Operations, Output, Write, OpenInput, OpenOutput, Input, Read, CloseInput,
                CloseOutput, Close, Operation, ProgramStep, Hear, ProgramThrows, Lose,
                Finished, Exhausted, vars
  <2>. QED BY <1>1, <2>1
<1>. QED BY <1>2, <1>3, <1>4 DEF Next

\* If every line of the client's files ends with a newline, what is printed,
\* read, typed and saved is what a local terminal would do, for any program.
THEOREM ImplementsLocalIO ==
    ASSUME LinesTerminated
    PROVE  SafetySpec => ActsLocally
<1>1. ASSUME Init  PROVE Local!Init
  BY <1>1 DEF Init, Local!Init
<1>2. Init => FileInv
  BY FileInvInductive
<1>3. IInv /\ FileInv /\ [Next]_vars => FileInv'
  BY FileInvInductive
<1>4. IInv /\ FileInv /\ [Next]_vars => [Local!Next]_Local!vars
  BY StepIsLocal
<1>. QED BY <1>1, <1>2, <1>3, <1>4, Invariance, PTL DEF SafetySpec, ActsLocally, Local!Spec
=============================================================================
