------------------------------ MODULE ReadLoop ------------------------------
(***************************************************************************)
(* The program of examples/socket.lua: connect one socket, write two lines, *)
(* then, while isConnected(), print each line canGetLine() announces and   *)
(* answer the ones that hold a PING.  One action is one call of the module *)
(* (or one test of the loop); the peer moves between any two calls.        *)
(***************************************************************************)
EXTENDS ClientSocket, FiniteSets

CONSTANTS
  S,     \* the socket of the script
  PING   \* the byte that makes a line a PING

ASSUME ReadLoopAssumption == S \in Sock /\ PING \in Byte \ {NL, CR}

VARIABLE pc  \* the call the script makes next

loopVars == <<vars, pc>>

Label == {"new", "connect", "nick", "user", "test", "poll", "get", "reply", "done"}

LoopTypeOK == TypeOK /\ pc \in Label

LoopInit == Init /\ pc = "new"

IsPing(line) == \E i \in 1 .. Len(line) : line[i] = PING

New == pc = "new" /\ NewSocket(S) /\ pc' = "connect"

Connect == pc = "connect" /\ ConnectSocket(S) /\ pc' = "nick"

\* writeLine() on a socket that is not connected returns -1 and does nothing.
WriteLine(from, to) ==
  /\ pc = from
  /\ IF connected[S] THEN Write(S) ELSE UNCHANGED vars
  /\ pc' = to

Test ==
  /\ pc = "test"
  /\ pc' = IF connected[S] THEN "poll" ELSE "done"
  /\ UNCHANGED vars

\* Mutant: only the bytes just received are searched for the end of a line.
CanGetNewLine ==
  /\ pc = "poll"
  /\ Poll(S)
  /\ pc' = IF HasLine(Incoming(S)) THEN "get" ELSE "test"

CanGetLine ==
  /\ pc = "poll"
  /\ Poll(S)
  /\ pc' = IF HasLine(buff'[S]) THEN "get" ELSE "test"

\* Mutant: a PING counts only at the start of its line.
PrintLineStrict ==
  /\ pc = "get"
  /\ GetLine(S)
  /\ pc' = LET line == lines'[S][Len(lines'[S])]
           IN  IF Len(line) > 0 /\ line[1] = PING THEN "reply" ELSE "test"

\* getLine() and print(); a PING is answered next.
PrintLine ==
  /\ pc = "get"
  /\ GetLine(S)
  /\ pc' = IF IsPing(lines'[S][Len(lines'[S])]) THEN "reply" ELSE "test"

Script ==
  /\ proc = "running"
  /\ \/ New
     \/ Connect
     \/ WriteLine("nick", "user")
     \/ WriteLine("user", "test")
     \/ Test
     \/ CanGetLine
     \/ PrintLine
     \/ WriteLine("reply", "test")

LoopNext == Script \/ (PeerStep /\ UNCHANGED pc)

\* The script runs whenever it can: no call of it waits (select() has a timeout of
\* 100 microseconds, a blocked send() is a slow one).  The peer owes nothing.
LoopSpec == LoopInit /\ [][LoopNext]_loopVars /\ WF_loopVars(Script)

---------------------------------------------------------------------------
(* Seen by lines. *)

\* The lines that a byte more completes, and what follows the last of them.
CutStep(v, x) ==
  IF x = NL THEN [done |-> Append(v.done, StripCR(v.part)), part |-> <<>>]
  ELSE [done |-> v.done, part |-> Append(v.part, x)]

\* The same for the first n bytes of b.
Cut(b) ==
  LET upto[n \in Nat] ==
        IF n = 0 THEN [done |-> <<>>, part |-> <<>>] ELSE CutStep(upto[n - 1], b[n])
  IN  upto

\* The complete lines of b, without their ends.
LinesOf(b) == Cut(b)[Len(b)].done
HasTail(b) == b # <<>> /\ b[Len(b)] # NL

\* The bytes recv() has yet to return to the script's object.
Pending ==
  IF mine[S] = NoConn THEN <<>>
  ELSE SubSeq(sent[mine[S]], taken[mine[S]] + 1, Len(sent[mine[S]]))

InBuffer == LinesOf(buff[S])
Arrived == LinesOf(buff[S] \o Pending)
OnWire == SubSeq(Arrived, Len(InBuffer) + 1, Len(Arrived))

Link ==
  IF mine[S] = NoConn THEN "down"
  ELSE IF st[mine[S]] = "up" THEN "up"
  ELSE IF HasTail(Pending) THEN "tail" ELSE "end"

Lined == INSTANCE LineSocket WITH
  Line <- Seq(Byte), wire <- OnWire, ready <- InBuffer, flag <- connected[S], link <- Link,
  alive <- (proc = "running")

---------------------------------------------------------------------------
(* Properties. *)

\* The bytes, descriptors and packets of Client_socket show a program that reads by
\* lines nothing but the lines of LineSocket.
ReadsByLines == Lined!LineSpec

Stopped == pc = "done" \/ proc = "killed"

\* The loop comes to an end once the peer has closed or reset the connection:
\* bufferize() turns the end of the stream into connected = false.
LoopEndsWithConnection ==
  (\E c \in ConnId : mine[S] = c /\ st[c] \in {"fin", "rst"}) ~> Stopped

\* A line that has been received is printed, unless the connection ends first.
LinesArePrinted ==
  \A n \in 0 .. MaxSent :
    (pc \in {"test", "poll"} /\ Len(lines[S]) = n /\ HasLine(buff[S]))
      ~> (Len(lines[S]) > n \/ Stopped)

Pings == {i \in 1 .. Len(lines[S]) : IsPing(lines[S][i])}

\* While the connection lasts every PING printed has been answered, but for the one
\* in hand: the peer holds NICK, USER and one PONG for each.
PingsAreAnswered ==
  proc = "running" /\ connected[S] /\ pc \in {"test", "poll", "get"} =>
    Len(out[mine[S]]) = 2 + Cardinality(Pings)

\* What the comments of the loop say: "If a new line is availiable in the buffer",
\* "We read it and print it".  getLine() itself may see the end of the connection
\* and clear the flag the loop tests, with complete lines still in the buffer.
EveryLineIsPrinted == pc = "done" => ~HasLine(buff[S])
=============================================================================
