------------------------------ MODULE RemoteIO ------------------------------
(***************************************************************************)
(* The DefaultIO interface over a connection: DefaultSocketIO (cli.h) turns*)
(* every operation into a token and its argument, and the client           *)
(* (client/src/client.cpp), a "blind follower", carries it out and sends   *)
(* the answer.  The program that calls the operations is any that opens    *)
(* one file at a time and only reads or writes it until it closes it, as   *)
(* the commands of Session do.                                             *)
(*                                                                         *)
(* A serialized object is one element of a channel: how it travels as      *)
(* bytes is left out, but nothing in a channel tells a token from a string *)
(* other than what the receiver expects.  TcpStream shows that bytes        *)
(* implement such a channel, up to the loss of the connection, which may   *)
(* come at any time here too: the server's process, the client's or the    *)
(* network between them may fail.                                          *)
(***************************************************************************)
EXTENDS Naturals, Sequences, FiniteSets

CONSTANTS Messages, Words, Files, Content, NoLine,
          Window,       \* bound on the objects in flight to the client
          MaxOps        \* bound on the operations of the program

Token == {"send_token", "receive_token", "open_file_w_token",
          "open_file_r_token", "write_file_token", "read_file_token",
          "end_token"}

ASSUME ObjectsAssumption ==
    /\ (Messages \cup Words \cup Files \cup {NoLine}) \cap Token = {}
    /\ Window \in Nat \ {0, 1} /\ MaxOps \in Nat

\* The lines of the client's files; a file that does not exist has none.
Lines == UNION {{Content[f].lines[i] : i \in DOMAIN Content[f].lines} : f \in Files}

ASSUME ContentAssumption ==
    /\ \A f \in Files : /\ Content[f].exists \in BOOLEAN
                        /\ Content[f].lines \in Seq(Lines)
                        /\ ~Content[f].exists => Content[f].lines = <<>>
    /\ \A l \in Lines : l.newline \in BOOLEAN

VARIABLES spc,      \* the program: which file it has open, or what it awaits
          ops,      \* operations called so far
          heard,    \* history: what >> and read returned to the program
          s2c, c2s, \* the two directions of the connection
          lost,     \* the connection is broken
          thrown,   \* the ends that got an exception (or SIGPIPE) for it
          cpc,      \* the client: what it expects next
          file,     \* its ifstream: the lines left, and whether getline works
          line,     \* its string line, of the loop that reads a file
          screen, said, out, saved
                    \* what it printed, what it answered, its output file and
                    \* what it has written to each

serverVars == <<spc, ops, heard>>
fileVars == <<file, line>>
outputVars == <<out, saved>>
clientVars == <<cpc, fileVars, screen, said, outputVars>>
linkVars == <<lost, thrown>>
vars == <<serverVars, s2c, c2s, linkVars, clientVars>>

Init ==
    /\ spc = "idle"
    /\ ops = 0
    /\ heard = <<>>
    /\ s2c = <<>>
    /\ c2s = <<>>
    /\ lost = FALSE
    /\ thrown = {}
    /\ cpc = "token"
    /\ file = [rest |-> <<>>, good |-> FALSE]
    /\ line = NoLine
    /\ screen = <<>>
    /\ said = <<>>
    /\ out \in Files
    /\ saved = [f \in Files |-> <<>>]

-----------------------------------------------------------------------------
(* The connection *)

Prefixes(s) == {SubSeq(s, 1, n) : n \in 0..Len(s)}

\* It is lost with any of the objects that were under way.
Lose ==
    /\ ~lost
    /\ lost' = TRUE
    /\ s2c' \in Prefixes(s2c)
    /\ c2s' \in Prefixes(c2s)
    /\ UNCHANGED <<serverVars, thrown, clientVars>>

-----------------------------------------------------------------------------
(* The operations of DefaultSocketIO *)

\* One operation: the objects it sends and what the program does next.  A send
\* blocks while the connection takes no more.  (Once it is lost a send or two
\* may succeed; nobody sees them, and the call that fails stands for all.)
Operation(from, to, objects) ==
    /\ ~lost
    /\ spc = from
    /\ spc' = to
    /\ ops < MaxOps
    /\ ops' = ops + 1
    /\ Len(s2c) + Len(objects) <= Window
    /\ s2c' = s2c \o objects
    /\ UNCHANGED <<heard, c2s, linkVars, clientVars>>

Output(m)     == Operation("idle", "idle", <<"receive_token", m>>)
Input         == Operation("idle", "wait_word", <<"send_token">>)
OpenInput(f)  == Operation("idle", "reading", <<"open_file_r_token", f>>)

\* mutant: read asks for two lines at once
ReadTwice ==
    Operation("reading", "wait_line", <<"read_file_token", "read_file_token">>)

Read          == Operation("reading", "wait_line", <<"read_file_token">>)

CloseInput    == Operation("reading", "idle", <<"end_token">>)
OpenOutput(f) == Operation("idle", "writing", <<"open_file_w_token", f>>)

\* mutant: write sends its string without the token
WriteWithoutToken(m) == Operation("writing", "writing", <<m>>)

Write(m)      == Operation("writing", "writing", <<"write_file_token", m>>)
CloseOutput   == Operation("writing", "idle", <<"end_token">>)

Close         == Operation("idle", "closed", <<"end_token">>)

\* The deserialization that ends >> and read
Hear ==
    /\ "program" \notin thrown
    /\ spc \in {"wait_word", "wait_line"}
    /\ c2s # <<>>
    /\ heard' = Append(heard, Head(c2s))
    /\ c2s' = Tail(c2s)
    /\ spc' = IF spc = "wait_word" THEN "idle" ELSE "reading"
    /\ UNCHANGED <<ops, s2c, linkVars, clientVars>>

\* A call fails: at once if it sends, after all that arrived if it waits.
\* What the session does then is in module Session.
ProgramThrows ==
    /\ lost
    /\ "program" \notin thrown
    /\ spc # "closed"
    /\ spc \in {"wait_word", "wait_line"} => c2s = <<>>
    /\ thrown' = thrown \cup {"program"}
    /\ UNCHANGED <<serverVars, s2c, c2s, lost, clientVars>>

-----------------------------------------------------------------------------
(* The client *)

\* The client deserializes the next object where it expects one.
Takes(from, to, object) ==
    /\ "client" \notin thrown
    /\ cpc = from
    /\ cpc' = to
    /\ s2c # <<>>
    /\ object = Head(s2c)
    /\ s2c' = Tail(s2c)
    /\ UNCHANGED <<serverVars, linkVars>>

Says(s) ==
    /\ c2s' = IF lost THEN c2s ELSE Append(c2s, s)
    /\ said' = Append(said, s)

\* A token that announces a string or a file name.  (The loop of main ignores
\* a token that it does not know there.  No operation of the server sends one
\* there; here it would stop the client, so that nothing after it is answered.)
TakeToken ==
    /\ \/ Takes("token", "print", "receive_token")
       \/ Takes("token", "file_r", "open_file_r_token")
       \/ Takes("token", "file_w", "open_file_w_token")
    /\ UNCHANGED <<c2s, fileVars, screen, said, outputVars>>

PrintString ==
    /\ Takes("print", "token", Head(s2c))
    /\ screen' = Append(screen, Head(s2c))
    /\ UNCHANGED <<c2s, fileVars, said, outputVars>>

SendWord(w) ==
    /\ Takes("token", "token", "send_token")
    /\ Says(w)
    /\ UNCHANGED <<fileVars, screen, outputVars>>

\* A file that cannot be opened leaves a stream on which getline does nothing.
OpenFile ==
    /\ \E f \in Files :
          /\ Takes("file_r", "read_loop", f)
          /\ file' = [rest |-> Content[f].lines, good |-> Content[f].exists]
    /\ line' = NoLine
    /\ UNCHANGED <<c2s, screen, said, outputVars>>

\* std::getline on the client's file.  A good stream erases the string and
\* reads; it stops being good when it meets the end of the file, which a last
\* line without a newline does while it is read.  Otherwise the string keeps
\* what it held.
Getline ==
    /\ line' = IF file.good
               THEN IF file.rest = <<>> THEN NoLine ELSE Head(file.rest).text
               ELSE line
    /\ file' = IF file.good /\ file.rest # <<>>
               THEN [rest |-> Tail(file.rest), good |-> Head(file.rest).newline]
               ELSE [file EXCEPT !.good = FALSE]

\* mutant: the client sends the line only when it read one
SendLineUnlessEnd ==
    /\ \E t \in Token \ {"end_token"} : Takes("read_loop", "read_loop", t)
    /\ Getline
    /\ IF file.good THEN Says(line') ELSE UNCHANGED <<c2s, said>>
    /\ UNCHANGED <<screen, outputVars>>

\* mutant: the client echoes the token
SendToken ==
    /\ \E t \in Token \ {"end_token"} :
          Takes("read_loop", "read_loop", t) /\ Says(t)
    /\ UNCHANGED <<fileVars, screen, outputVars>>

\* In its loops the client looks only for end_token; any other object asks for
\* a line, or announces a string to write.
SendLine ==
    /\ \E t \in Token \ {"end_token"} : Takes("read_loop", "read_loop", t)
    /\ Getline
    /\ Says(line')
    /\ UNCHANGED <<screen, outputVars>>

EndReading ==
    /\ Takes("read_loop", "token", "end_token")
    /\ UNCHANGED <<c2s, fileVars, screen, said, outputVars>>

\* mutant: the client's output file is opened for appending
OpenOutputFileAppending ==
    /\ \E f \in Files : Takes("file_w", "write_loop", f) /\ out' = f
    /\ UNCHANGED <<c2s, fileVars, screen, said, saved>>

OpenOutputFile ==
    /\ \E f \in Files :
          /\ Takes("file_w", "write_loop", f)
          /\ out' = f
          /\ saved' = [saved EXCEPT ![f] = <<>>]
    /\ UNCHANGED <<c2s, fileVars, screen, said>>

AnnounceWrite ==
    /\ \E t \in Token \ {"end_token"} : Takes("write_loop", "write", t)
    /\ UNCHANGED <<c2s, fileVars, screen, said, outputVars>>

WriteString ==
    /\ Takes("write", "write_loop", Head(s2c))
    /\ saved' = [saved EXCEPT ![out] = Append(@, Head(s2c))]
    /\ UNCHANGED <<c2s, fileVars, screen, said, out>>

EndWriting ==
    /\ Takes("write_loop", "token", "end_token")
    /\ UNCHANGED <<c2s, fileVars, screen, said, outputVars>>

Leave ==
    /\ Takes("token", "exited", "end_token")
    /\ UNCHANGED <<c2s, fileVars, screen, said, outputVars>>

\* mutant: the client takes the end of the connection for an empty string, and
\* goes on in its loop
ClientThrowsOutsideFiles ==
    /\ lost
    /\ "client" \notin thrown
    /\ cpc \notin {"exited", "read_loop", "write_loop"}
    /\ s2c = <<>>
    /\ thrown' = thrown \cup {"client"}
    /\ UNCHANGED <<serverVars, s2c, c2s, lost, clientVars>>

\* Wherever the client deserializes, the end of the connection is an exception
\* that nothing catches: its process is terminated, inside a file perhaps.
ClientThrows ==
    /\ lost
    /\ "client" \notin thrown
    /\ cpc # "exited"
    /\ s2c = <<>>
    /\ thrown' = thrown \cup {"client"}
    /\ UNCHANGED <<serverVars, s2c, c2s, lost, clientVars>>

-----------------------------------------------------------------------------
Operations ==
    \/ \E m \in Messages : Output(m) \/ Write(m)
    \/ \E f \in Files : OpenInput(f) \/ OpenOutput(f)
    \/ Input \/ Read \/ CloseInput \/ CloseOutput \/ Close

ClientStep ==
    \/ TakeToken \/ PrintString \/ OpenFile \/ SendLine \/ EndReading
    \/ OpenOutputFile \/ AnnounceWrite \/ WriteString \/ EndWriting \/ Leave
    \/ ClientThrows

ProgramStep == Hear \/ ProgramThrows

UserTypes == \E w \in Words : SendWord(w)

\* Nothing is left to do, or the bound on the operations is reached.
Finished ==
    /\ cpc = "exited" \/ "client" \in thrown
    /\ spc = "closed" \/ "program" \in thrown
    /\ UNCHANGED vars
Exhausted ==
    /\ ops = MaxOps /\ s2c = <<>> /\ spc \notin {"wait_word", "wait_line"}
    /\ UNCHANGED vars

Next ==
    \/ Operations \/ ProgramStep \/ ClientStep \/ UserTypes \/ Lose
    \/ Finished \/ Exhausted

SafetySpec == Init /\ [][Next]_vars

\* Both processes run; the user may take for ever to type.  (That a program
\* which is not waiting gets its exception, too, says that it goes on calling.)
Spec == SafetySpec /\ WF_vars(ProgramStep) /\ WF_vars(ClientStep)

-----------------------------------------------------------------------------
(* Properties *)

Strings == Messages \cup Words \cup Files \cup {NoLine}
             \cup {l.text : l \in Lines}

\* Both processes, the channels and the client's streams hold what they can.
TypeOK ==
    /\ spc \in {"idle", "reading", "writing", "wait_word", "wait_line", "closed"}
    /\ ops \in 0..MaxOps
    /\ lost \in BOOLEAN /\ thrown \subseteq {"program", "client"}
    /\ s2c \in Seq(Token \cup Strings) /\ c2s \in Seq(Strings)
    /\ cpc \in {"token", "print", "file_r", "file_w", "read_loop", "write_loop",
                "write", "exited"}
    /\ file \in [rest : Seq(Lines), good : BOOLEAN] /\ line \in Strings
    /\ \A log \in {heard, said, screen} : log \in Seq(Strings)
    /\ out \in Files /\ saved \in [Files -> Seq(Strings)]

\* The two ends never lose step: where the client takes an object for a token
\* it is one, and where it takes it for a string it is one.  So the client
\* leaves only when the program has closed the session, with nothing undone.
InStep ==
    /\ s2c # <<>> =>
        IF cpc \in {"token", "read_loop", "write_loop"} THEN Head(s2c) \in Token
        ELSE Head(s2c) \notin Token
    /\ cpc = "exited" => spc = "closed" /\ s2c = <<>> /\ c2s = <<>>

\* The program gets the client's answers in the order they were given, and
\* there is never an answer in flight that it does not wait for.  Only the loss
\* of the connection costs an answer, and then it is the last.
AnswersMatch ==
    /\ \/ said = heard \o c2s
       \/ lost /\ heard \o c2s = SubSeq(said, 1, Len(said) - 1)
    /\ c2s # <<>> => spc \in {"wait_word", "wait_line"} /\ Len(c2s) = 1 /\ s2c = <<>>

\* A read is always answered: the client cannot be waiting for an object that
\* the program will send only after the answer, and a loss is an exception.
ReadsAnswered ==
    (spc = "wait_line") ~> (spc = "reading" \/ "program" \in thrown)

\* Whatever the program printed or saved before it closed the session reaches
\* the client, which then exits.  Only a loss keeps it from that, and then the
\* client does not wait for ever either, if it does not wait for its user.
AsksUser == cpc = "token" /\ s2c # <<>> /\ Head(s2c) = "send_token"
ClosedClientExits ==
    (spc = "closed" \/ lost)
        ~> (cpc = "exited" \/ (lost /\ ("client" \in thrown \/ AsksUser)))

\* The program cannot tell the client from a local terminal: what is printed,
\* read, typed and saved is what LocalIO allows.
Local == INSTANCE LocalIO WITH
    dev <- CASE cpc = "read_loop" -> "reading"
             [] cpc \in {"write_loop", "write"} -> "writing"
             [] cpc = "exited" -> "closed"
             [] OTHER -> "idle",
    rest <- [i \in DOMAIN file.rest |-> file.rest[i].text],
    given <- said,
    Content <- [f \in Files |-> [lines |-> [i \in DOMAIN Content[f].lines |->
                                               Content[f].lines[i].text]]]
ActsLocally == Local!Spec
=============================================================================
