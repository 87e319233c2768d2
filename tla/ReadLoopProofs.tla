--------------------------- MODULE ReadLoopProofs ---------------------------
(***************************************************************************)
(* ReadLoop, for any bytes, packets and bounds: its types, that every PING *)
(* it prints is answered while the connection lasts, and that it sees what *)
(* LineSocket promises to a program that reads by lines.                   *)
(***************************************************************************)
EXTENDS ReadLoop, ClientSocketProofs

---------------------------------------------------------------------------
(* Types. *)

LEMMA LoopInitType == LoopInit => LoopTypeOK
  BY InitType DEF LoopInit, LoopTypeOK, Label

\* What the calls of the script do to the socket keeps its types.
LEMMA ScriptType ==
  ASSUME LoopTypeOK, Script
  PROVE  LoopTypeOK'
<1> USE DEF LoopTypeOK, Label
<1>1. S \in Sock
  BY ReadLoopAssumption
<1>2. UNCHANGED vars => TypeOK'
  BY DEF vars, TypeOK, NetTypeOK, netVars, objVars, histVars
<1>3. CASE New
  BY <1>1, <1>3, LifeType DEF New
<1>4. CASE Connect
  BY <1>1, <1>4, LifeType DEF Connect
<1>5. ASSUME NEW from, NEW to \in Label, WriteLine(from, to) PROVE LoopTypeOK'
  BY <1>1, <1>2, <1>5, WriteType DEF WriteLine
<1>6. CASE Test
  BY <1>2, <1>6 DEF Test
<1>7. CASE CanGetLine
  BY <1>1, <1>7, ReadType DEF CanGetLine
<1>8. CASE PrintLine
  BY <1>1, <1>8, ReadType DEF PrintLine
<1> QED
  BY <1>3, <1>4, <1>5, <1>6, <1>7, <1>8 DEF Script

LEMMA LoopTypeStep == LoopTypeOK /\ [LoopNext]_loopVars => LoopTypeOK'
<1> SUFFICES ASSUME LoopTypeOK, [LoopNext]_loopVars PROVE LoopTypeOK'
  OBVIOUS
<1>1. CASE Script
  BY <1>1, ScriptType
<1>2. CASE PeerStep /\ UNCHANGED pc
  BY <1>2, PeerType DEF LoopTypeOK
<1>3. CASE UNCHANGED loopVars
  BY <1>3 DEF loopVars, LoopTypeOK, vars, TypeOK, NetTypeOK, netVars, objVars, histVars
<1> QED
  BY <1>1, <1>2, <1>3 DEF LoopNext

\* The variables of the script and of its socket keep their types.
THEOREM LoopTypeCorrect == LoopSpec => []LoopTypeOK
  BY LoopInitType, LoopTypeStep, PTL DEF LoopSpec

---------------------------------------------------------------------------
(* Counting. *)

PingsOf(q) == {i \in 1 .. Len(q) : IsPing(q[i])}

\* A line more is a PING more, if it is one.
LEMMA OneLineMore ==
  ASSUME NEW q \in Seq(Seq(Byte)), NEW l \in Seq(Byte)
  PROVE  /\ Cardinality(PingsOf(q)) \in Nat
         /\ Cardinality(PingsOf(Append(q, l)))
              = IF IsPing(l) THEN Cardinality(PingsOf(q)) + 1 ELSE Cardinality(PingsOf(q))
         /\ Append(q, l)[Len(Append(q, l))] = l
<1> DEFINE a == Append(q, l)
           n == Len(q) + 1
<1>1. Len(q) \in Nat
  BY LenProperties
<1>2. Len(a) = n /\ (\A i \in 1 .. Len(q) : a[i] = q[i]) /\ a[n] = l
  BY AppendProperties
<1>3. IsFiniteSet(PingsOf(q)) /\ n \notin PingsOf(q)
  <2>1. IsFiniteSet(1 .. Len(q))
    BY <1>1, FS_Interval
  <2>2. PingsOf(q) \subseteq 1 .. Len(q)
    BY DEF PingsOf
  <2> QED
    BY <1>1, <2>1, <2>2, FS_Subset
<1>4. PingsOf(a) = IF IsPing(l) THEN PingsOf(q) \cup {n} ELSE PingsOf(q)
  <2> HIDE DEF a
  <2>1. \A i : i \in 1 .. n <=> i \in 1 .. Len(q) \/ i = n
    BY <1>1
  <2>2. \A i \in 1 .. Len(q) : IsPing(a[i]) <=> IsPing(q[i])
    BY <1>2
  <2>3. IsPing(a[n]) <=> IsPing(l)
    BY <1>2
  <2> HIDE DEF n
  <2> QED
    BY <1>2, <2>1, <2>2, <2>3 DEF PingsOf
<1>5. Cardinality(PingsOf(q)) \in Nat
  BY <1>3, FS_CardinalityType
<1>6. Cardinality(PingsOf(q) \cup {n}) = Cardinality(PingsOf(q)) + 1
  BY <1>3, FS_AddElement
<1> QED
  BY <1>2, <1>4, <1>5, <1>6

---------------------------------------------------------------------------
(* The inductive invariant. *)

\* Nothing has been sent or printed before the connect; then the descriptor of a
\* connected socket is that of the connection it opened.
ScriptOwns ==
  /\ pc \in {"new", "connect"} => \A c \in ConnId : out[c] = <<>>
  /\ pc \in {"new", "connect", "nick", "user"} => lines[S] = <<>>
  /\ pc \notin {"new", "connect"} /\ connected[S] =>
       mine[S] \in ConnId /\ sock[S] \in Fd /\ table[sock[S]] = mine[S]

\* getLine() is called when there is a line.
LineIsReady == pc = "get" => HasLine(buff[S])

\* The lines the peer has been sent when the script is at its label.
Due ==
  CASE pc = "nick" -> 0
    [] pc = "user" -> 1
    [] pc = "reply" -> 1 + Cardinality(Pings)
    [] OTHER -> 2 + Cardinality(Pings)

RepliesAreSent ==
  proc = "running" /\ connected[S] /\ pc \notin {"new", "connect"} => Len(out[mine[S]]) = Due

LoopInv == ScriptOwns /\ LineIsReady /\ RepliesAreSent

LEMMA LoopInitInv == LoopInit => LoopInv
  BY ReadLoopAssumption
     DEF LoopInit, Init, NetInit, LoopInv, ScriptOwns, LineIsReady, RepliesAreSent

\* A peer sends nothing into out and takes nothing from the script.
LEMMA PeerInv ==
  ASSUME LoopTypeOK, LoopInv, PeerStep, UNCHANGED pc
  PROVE  LoopInv'
<1>1. UNCHANGED <<exists, sock, connected, buff, proc, mine, lines, table, out, pc>>
  BY PeerKeepsState DEF LoopTypeOK, objVars, histVars
<1> QED
  BY <1>1 DEF LoopInv, ScriptOwns, LineIsReady, RepliesAreSent, Due, Pings

\* Making the socket and connecting it.
LEMMA LifeInv ==
  ASSUME LoopTypeOK, LoopInv, New \/ Connect
  PROVE  LoopInv'
<1> USE DEF LoopTypeOK, LoopInv
<1>1. S \in Sock
  BY ReadLoopAssumption
<1>2. CASE New
  <2>1. pc = "new" /\ pc' = "connect" /\ UNCHANGED out /\ lines'[S] = <<>>
    BY <1>1, <1>2 DEF New, NewSocket, netVars, TypeOK
  <2> QED
    BY <2>1 DEF ScriptOwns, LineIsReady, RepliesAreSent
<1>3. CASE Connect
  <2>1. /\ pc = "connect" /\ pc' = "nick" /\ UNCHANGED <<out, lines>>
        /\ connected'[S] => /\ mine'[S] \in ConnId /\ sock'[S] \in Fd
                            /\ table'[sock'[S]] = mine'[S]
    <3>1. pc = "connect" /\ pc' = "nick" /\ ConnectFrom(S, table, st)
      BY <1>3 DEF Connect, ConnectSocket
    <3>2. ASSUME NEW f \in Fd, NEW c \in ConnId,
                 table' = [table EXCEPT ![f] = c], sock' = [sock EXCEPT ![S] = f],
                 mine' = [mine EXCEPT ![S] = c]
          PROVE  mine'[S] \in ConnId /\ sock'[S] \in Fd /\ table'[sock'[S]] = mine'[S]
      BY <1>1, <3>2 DEF TypeOK, NetTypeOK
    <3>3. ASSUME connected' = [connected EXCEPT ![S] = FALSE] PROVE ~connected'[S]
      BY <1>1, <3>3 DEF TypeOK
    <3>4. UNCHANGED <<out, lines>>
      BY <3>1 DEF ConnectFrom
    <3> QED
      BY <3>1, <3>2, <3>3, <3>4 DEF ConnectFrom
  <2>2. connected'[S] => out'[mine'[S]] = <<>>
    BY <2>1 DEF ScriptOwns
  <2>3. Len(<<>>) = 0
    OBVIOUS
  <2> QED
    BY <2>1, <2>2, <2>3 DEF ScriptOwns, LineIsReady, RepliesAreSent, Due
<1> QED
  BY <1>2, <1>3

\* A line written goes to the connection of the script, whole, or the flag falls.
LEMMA WriteSends ==
  ASSUME LoopTypeOK, LoopInv, NEW from \in Label \ {"new", "connect"}, NEW to \in Label,
         WriteLine(from, to)
  PROVE  /\ UNCHANGED <<table, sock, mine, buff, lines>>
         /\ connected'[S] => connected[S]
         /\ proc' = "running" => proc = "running"
         /\ proc' = "running" /\ connected'[S] => Len(out'[mine'[S]]) = Len(out[mine[S]]) + 1
<1> USE DEF LoopTypeOK, LoopInv
<1>0. S \in Sock
  BY ReadLoopAssumption
<1>1. CASE ~connected[S]
  BY <1>1 DEF WriteLine, vars, netVars, objVars, histVars
<1>2. CASE connected[S]
  <2>1. pc = from /\ Write(S)
    BY <1>2 DEF WriteLine
  <2>2. ConnOf(S) = mine[S] /\ mine[S] \in ConnId
    BY <1>2, <2>1 DEF ScriptOwns, ConnOf, Behind
  <2>3. UNCHANGED <<table, sock, mine, buff, lines>> /\ Send(S, TRUE)
    BY <2>1 DEF Write
  <2>4. proc' = "running" => proc = "running"
    BY <2>3 DEF Send, TypeOK
  <2>5. ASSUME connected'[S], proc' = "running"
        PROVE  Len(out'[mine'[S]]) = Len(out[mine[S]]) + 1
    <3>1. ~(connected' = [connected EXCEPT ![S] = FALSE])
      BY <1>0, <2>5 DEF TypeOK
    <3>2. PICK m \in Message : out' = [out EXCEPT ![mine[S]] = Append(@, m)]
      <4>1. \E whole \in BOOLEAN :
              out' = [out EXCEPT ![ConnOf(S)] = Append(@, [by |-> S, whole |-> whole])]
        BY <2>3, <2>5, <3>1, Zenon DEF Send
      <4>2. \A whole \in BOOLEAN : [by |-> S, whole |-> whole] \in Message
        BY <1>0 DEF Message
      <4> QED
        BY <2>2, <4>1, <4>2
    <3>3. out[mine[S]] \in Seq(Message)
      BY <2>2 DEF TypeOK, NetTypeOK
    <3>4. out'[mine[S]] = Append(out[mine[S]], m)
      BY <2>2, <3>2 DEF TypeOK, NetTypeOK
    <3> QED
      BY <2>3, <3>2, <3>3, <3>4, AppendProperties
  <2> QED
    BY <1>2, <2>3, <2>4, <2>5
<1> QED
  BY <1>1, <1>2

LEMMA WriteInv ==
  ASSUME LoopTypeOK, LoopInv,
         WriteLine("nick", "user") \/ WriteLine("user", "test") \/ WriteLine("reply", "test")
  PROVE  LoopInv'
<1> USE DEF LoopTypeOK, LoopInv
<1>0. Cardinality(Pings) \in Nat
  <2>1. lines[S] \in Seq(Seq(Byte))
    BY ReadLoopAssumption DEF TypeOK
  <2>2. Pings = PingsOf(lines[S]) /\ <<>> \in Seq(Byte)
    BY DEF Pings, PingsOf
  <2> QED
    BY <2>1, <2>2, OneLineMore
<1>1. ASSUME NEW from \in Label \ {"new", "connect"}, NEW to \in Label \ {"new", "connect", "get"},
             WriteLine(from, to), to = "user" => from = "nick",
             from \in {"nick", "user", "reply"},
             to # "nick"
      PROVE  /\ ScriptOwns' /\ LineIsReady' /\ pc = from /\ pc' = to
             /\ Pings' = Pings
             /\ proc' = "running" /\ connected'[S] =>
                  Len(out'[mine'[S]]) = Due + 1
  <2>1. pc = from /\ pc' = to
    BY <1>1 DEF WriteLine
  <2>2. /\ ScriptOwns' /\ LineIsReady'
        /\ Pings' = Pings
    BY <1>1, <2>1, WriteSends DEF ScriptOwns, LineIsReady, Pings
  <2>3. ASSUME proc' = "running", connected'[S] PROVE Len(out'[mine'[S]]) = Due + 1
    <3>1. Len(out[mine[S]]) = Due
      BY <1>1, <2>1, <2>3, WriteSends DEF RepliesAreSent
    <3> QED
      BY <1>1, <2>3, <3>1, WriteSends
  <2> QED
    BY <2>1, <2>2, <2>3
<1>2. lines[S] = <<>> => Cardinality(Pings) = 0
  <2>1. lines[S] = <<>> => Pings = {}
    BY DEF Pings
  <2> QED
    BY <2>1, FS_EmptySet
<1>3. CASE WriteLine("nick", "user")
  <2>1. /\ ScriptOwns' /\ LineIsReady' /\ pc = "nick" /\ pc' = "user"
        /\ Pings' = Pings
        /\ proc' = "running" /\ connected'[S] =>
             Len(out'[mine'[S]]) = Due + 1
    BY <1>1, <1>3 DEF Label
  <2>3. RepliesAreSent'
    <3>1. Due' = Due + 1
      BY <2>1 DEF Due
    <3> QED
      BY <2>1, <3>1 DEF RepliesAreSent
  <2> QED
    BY <2>1, <2>3
<1>4. CASE WriteLine("user", "test")
  <2>1. /\ ScriptOwns' /\ LineIsReady' /\ pc = "user" /\ pc' = "test"
        /\ Pings' = Pings
        /\ proc' = "running" /\ connected'[S] =>
             Len(out'[mine'[S]]) = Due + 1
    BY <1>1, <1>4 DEF Label
  <2>2. Cardinality(Pings) = 0
    BY <1>2, <2>1 DEF ScriptOwns
  <2>3. RepliesAreSent'
    <3>1. Due' = Due + 1
      BY <2>1, <2>2 DEF Due
    <3> QED
      BY <2>1, <3>1 DEF RepliesAreSent
  <2> QED
    BY <2>1, <2>3
<1>5. CASE WriteLine("reply", "test")
  <2>1. /\ ScriptOwns' /\ LineIsReady' /\ pc = "reply" /\ pc' = "test"
        /\ Pings' = Pings
        /\ proc' = "running" /\ connected'[S] =>
             Len(out'[mine'[S]]) = Due + 1
    BY <1>1, <1>5 DEF Label
  <2>3. RepliesAreSent'
    <3>1. Due' = Due + 1
      BY <1>0, <2>1 DEF Due
    <3> QED
      BY <2>1, <3>1 DEF RepliesAreSent
  <2> QED
    BY <2>1, <2>3
<1> QED
  BY <1>3, <1>4, <1>5

\* Reading sends nothing and moves no descriptor; the flag only falls.
LEMMA ReadKeeps ==
  ASSUME LoopTypeOK, Poll(S) \/ GetLine(S)
  PROVE  /\ UNCHANGED <<table, out, sock, mine>>
         /\ connected'[S] => connected[S]
         /\ proc' = "running" => proc = "running"
<1>1. S \in Sock
  BY ReadLoopAssumption
<1>2. UNCHANGED <<table, out, sock, mine>>
  BY DEF Poll, GetLine
<1>3. connected'[S] => connected[S]
  BY <1>1, FlagFalls DEF LoopTypeOK
<1>4. proc' = "running" => proc = "running"
  BY DEF Poll, GetLine, Bufferize
<1> QED
  BY <1>2, <1>3, <1>4

LEMMA ReadInv ==
  ASSUME LoopTypeOK, LoopInv, CanGetLine \/ PrintLine
  PROVE  LoopInv'
<1> USE DEF LoopTypeOK, LoopInv
<1>0. S \in Sock /\ lines[S] \in Seq(Seq(Byte)) /\ buff[S] \in Seq(Byte)
  BY ReadLoopAssumption DEF TypeOK
<1>1. CASE CanGetLine
  <2>1. /\ pc = "poll" /\ Poll(S) /\ UNCHANGED lines
        /\ pc' = IF HasLine(buff'[S]) THEN "get" ELSE "test"
    BY <1>1 DEF CanGetLine, Poll
  <2>2. ScriptOwns' /\ LineIsReady'
    BY <2>1, ReadKeeps DEF ScriptOwns, LineIsReady
  <2>3. Pings' = Pings
    BY <2>1 DEF Pings
  <2>4. RepliesAreSent'
    BY <2>1, <2>3, ReadKeeps DEF RepliesAreSent, Due
  <2> QED
    BY <2>2, <2>4
<1>2. CASE PrintLine
  <2> DEFINE b == buff[S] \o Incoming(S)
             l == FirstLine(b)
  <2>1. b \in Seq(Byte) /\ HasLine(b)
    <3>1. b \in Seq(Byte)
      BY <1>0, FilledType
    <3>2. PICK i \in 1 .. Len(buff[S]) : buff[S][i] = NL
      BY <1>2 DEF PrintLine, LineIsReady, HasLine
    <3>3. i \in 1 .. Len(b) /\ b[i] = NL
      <4>1. Incoming(S) \in Seq(Byte) /\ Len(Incoming(S)) \in Nat /\ Len(buff[S]) \in Nat
        BY <1>0, IncomingType, LenProperties
      <4>2. /\ Len(b) = Len(buff[S]) + Len(Incoming(S))
            /\ \A j \in 1 .. Len(buff[S]) + Len(Incoming(S)) :
                 b[j] = IF j <= Len(buff[S]) THEN buff[S][j] ELSE Incoming(S)[j - Len(buff[S])]
        BY <1>0, <4>1, ConcatProperties
      <4> HIDE DEF b
      <4> QED
        BY <3>2, <4>1, <4>2
    <3> HIDE DEF b
    <3> QED
      BY <3>1, <3>3 DEF HasLine
  <2>2. /\ pc = "get" /\ GetLine(S)
        /\ pc' = IF IsPing(lines'[S][Len(lines'[S])]) THEN "reply" ELSE "test"
    BY <1>2 DEF PrintLine
  <2>3. lines'[S] = Append(lines[S], l)
    BY <1>0, <2>1, <2>2 DEF GetLine, TypeOK
  <2>4. l \in Seq(Byte)
    BY <2>1, FirstLineType
  <2> HIDE DEF l
  <2>5. /\ Cardinality(Pings) \in Nat
        /\ Cardinality(Pings') = IF IsPing(l) THEN Cardinality(Pings) + 1 ELSE Cardinality(Pings)
        /\ pc' = IF IsPing(l) THEN "reply" ELSE "test"
    <3>1. Pings = PingsOf(lines[S]) /\ Pings' = PingsOf(Append(lines[S], l))
      BY <2>3 DEF Pings, PingsOf
    <3> QED
      BY <1>0, <2>2, <2>3, <2>4, <3>1, OneLineMore
  <2>6. ScriptOwns' /\ LineIsReady'
    BY <2>2, <2>5, ReadKeeps DEF ScriptOwns, LineIsReady
  <2>7. RepliesAreSent'
    BY <2>2, <2>5, ReadKeeps DEF RepliesAreSent, Due
  <2> QED
    BY <2>6, <2>7
<1> QED
  BY <1>1, <1>2

LEMMA LoopStep == LoopTypeOK /\ LoopInv /\ [LoopNext]_loopVars => LoopInv'
<1> SUFFICES ASSUME LoopTypeOK, LoopInv, [LoopNext]_loopVars PROVE LoopInv'
  OBVIOUS
<1>1. CASE PeerStep /\ UNCHANGED pc
  BY <1>1, PeerInv
<1>2. CASE Test \/ UNCHANGED loopVars
  <2>1. UNCHANGED <<table, out, sock, connected, buff, proc, mine, lines>>
    BY <1>2 DEF Test, loopVars, vars, netVars, objVars, histVars
  <2>2. \/ pc' = pc
        \/ pc = "test" /\ pc' \in {"poll", "done"}
    BY <1>2 DEF Test, loopVars
  <2> QED
    BY <2>1, <2>2 DEF LoopInv, ScriptOwns, LineIsReady, RepliesAreSent, Due, Pings
<1>3. CASE Script
  BY <1>2, <1>3, LifeInv, WriteInv, ReadInv DEF Script
<1> QED
  BY <1>1, <1>2, <1>3 DEF LoopNext

\* Whatever the peer sends and however it is cut, while the connection lasts every
\* PING the script has printed has been answered, but for the one in hand.
THEOREM EveryPingIsAnswered == LoopSpec => []PingsAreAnswered
<1>1. LoopInv => PingsAreAnswered
  BY DEF LoopInv, RepliesAreSent, PingsAreAnswered, Due
<1> QED
  BY <1>1, LoopInitInv, LoopStep, LoopTypeCorrect, PTL DEF LoopSpec

---------------------------------------------------------------------------
(* Lines and the pieces of a stream. *)

\* What Cut() starts from.
Uncut == [done |-> <<>>, part |-> <<>>]

\* Cut() by the number of bytes, for every buffer at once.
Cuts == INSTANCE Recursion WITH
  Base <- [b \in Seq(Byte) |-> Uncut],
  Step <- LAMBDA v, n : [b \in Seq(Byte) |-> CutStep(v[b], b[n])]

\* Cut() is its own equation: it starts from nothing and takes the bytes in order.
LEMMA CutIs ==
  ASSUME NEW b \in Seq(Byte)
  PROVE  /\ Cut(b)[0] = Uncut
         /\ \A n \in Nat : Cut(b)[n + 1] = CutStep(Cut(b)[n], b[n + 1])
<1> DEFINE U == Cuts!Values
           g == [n \in Nat |-> U[n][b]]
           F(f) == [n \in Nat |-> IF n = 0 THEN Uncut ELSE CutStep(f[n - 1], b[n])]
<1>1. U = [n \in Nat |-> IF n = 0 THEN [d \in Seq(Byte) |-> Uncut]
                         ELSE [d \in Seq(Byte) |-> CutStep(U[n - 1][d], d[n])]]
  BY Cuts!FollowsEquation
<1>2. \A n \in Nat : U[n][b] = IF n = 0 THEN Uncut ELSE CutStep(U[n - 1][b], b[n])
  <2> SUFFICES ASSUME NEW n \in Nat
               PROVE  U[n][b] = IF n = 0 THEN Uncut ELSE CutStep(U[n - 1][b], b[n])
    OBVIOUS
  <2> HIDE DEF U
  <2>1. U[n] = IF n = 0 THEN [d \in Seq(Byte) |-> Uncut]
                         ELSE [d \in Seq(Byte) |-> CutStep(U[n - 1][d], d[n])]
    BY <1>1
  <2> QED BY <2>1
<1>3. g = F(g)
  <2> HIDE DEF U
  <2>1. \A n \in Nat : n # 0 => n - 1 \in Nat
    OBVIOUS
  <2>2. \A n \in Nat : g[n] = U[n][b]
    OBVIOUS
  <2>3. \A n \in Nat : g[n] = F(g)[n]
    BY <1>2, <2>1, <2>2
  <2> HIDE DEF CutStep
  <2> QED BY <2>3
<1>4. Cut(b) = CHOOSE f : f = F(f)
  BY DEF Cut, Uncut
<1>5. Cut(b) = F(Cut(b))
  <2> HIDE DEF F
  <2> QED BY <1>3, <1>4, Zenon
<1>6. \A n \in Nat : Cut(b)[n] = F(Cut(b))[n]
  BY <1>5, Zenon
<1>7. \A n \in Nat : n + 1 \in Nat /\ n + 1 # 0 /\ (n + 1) - 1 = n
  OBVIOUS
<1> QED
  BY <1>6, <1>7

\* Taking the '\r' off a line leaves bytes.
LEMMA StripType ==
  ASSUME NEW l \in Seq(Byte)
  PROVE  StripCR(l) \in Seq(Byte)
<1>1. Len(l) \in Nat
  BY LenProperties
<1>2. Len(l) > 0 => SubSeq(l, 1, Len(l) - 1) \in Seq(Byte)
  <2> SUFFICES ASSUME Len(l) > 0 PROVE SubSeq(l, 1, Len(l) - 1) \in Seq(Byte)
    OBVIOUS
  <2> QED BY <1>1, SubSeqProperties
<1> QED
  BY <1>2 DEF StripCR

\* A record made of its fields.
LEMMA RecordOf ==
  ASSUME NEW L, NEW Q, NEW d \in L, NEW p \in Q, NEW v, v = [done |-> d, part |-> p]
  PROVE  v \in [done : L, part : Q] /\ v.done = d /\ v.part = p
  OBVIOUS

\* A '\n' completes the line, any other byte lengthens it.
LEMMA CutNext ==
  ASSUME NEW b \in Seq(Byte), NEW n \in 0 .. Len(b),
         Cut(b)[n] \in [done : Seq(Seq(Byte)), part : Seq(Byte)]
  PROVE  /\ b[n + 1] = NL => /\ Cut(b)[n + 1].done = Append(Cut(b)[n].done, StripCR(Cut(b)[n].part))
                             /\ Cut(b)[n + 1].part = <<>>
         /\ b[n + 1] # NL => /\ Cut(b)[n + 1].done = Cut(b)[n].done
                             /\ Cut(b)[n + 1].part = Append(Cut(b)[n].part, b[n + 1])
         /\ b[n + 1] \in Byte => Cut(b)[n + 1] \in [done : Seq(Seq(Byte)), part : Seq(Byte)]
<1>1. n \in Nat
  BY LenProperties
<1>2. Cut(b)[n + 1] = CutStep(Cut(b)[n], b[n + 1])
  BY <1>1, CutIs
<1> DEFINE v == Cut(b)[n]
<1>3. /\ b[n + 1] = NL => Cut(b)[n + 1] = [done |-> Append(v.done, StripCR(v.part)), part |-> <<>>]
      /\ b[n + 1] # NL => Cut(b)[n + 1] = [done |-> v.done, part |-> Append(v.part, b[n + 1])]
  BY <1>2, Zenon DEF CutStep
<1>4. StripCR(v.part) \in Seq(Byte)
  BY StripType
<1>5. v.done \in Seq(Seq(Byte)) /\ v.part \in Seq(Byte)
  OBVIOUS
<1> HIDE DEF v
<1>6. /\ Append(v.done, StripCR(v.part)) \in Seq(Seq(Byte))
      /\ b[n + 1] \in Byte => Append(v.part, b[n + 1]) \in Seq(Byte)
  BY <1>4, <1>5, AppendProperties
<1>7. <<>> \in Seq(Byte)
  BY EmptySeq
<1> DEFINE w == Cut(b)[n + 1]
           Type == [done : Seq(Seq(Byte)), part : Seq(Byte)]
<1>8. CASE b[n + 1] = NL
  <2>1. w \in Type /\ w.done = Append(v.done, StripCR(v.part)) /\ w.part = <<>>
    <3>1. w = [done |-> Append(v.done, StripCR(v.part)), part |-> <<>>]
      BY <1>3, <1>8
    <3> HIDE DEF w
    <3> QED BY <1>6, <1>7, <3>1, RecordOf, Zenon
  <2> QED BY <1>8, <2>1, Zenon DEF v
<1>9. CASE b[n + 1] # NL
  <2>1. ASSUME b[n + 1] \in Byte PROVE w \in Type
    <3>1. w = [done |-> v.done, part |-> Append(v.part, b[n + 1])]
      BY <1>3, <1>9
    <3> HIDE DEF w
    <3> QED BY <1>5, <1>6, <2>1, <3>1, RecordOf, Zenon
  <2>2. w.done = v.done /\ w.part = Append(v.part, b[n + 1])
    BY <1>3, <1>9
  <2> QED BY <1>9, <2>1, <2>2, Zenon DEF v
<1> QED
  BY <1>8, <1>9

\* The pieces of bytes are bytes.
LEMMA CutType ==
  ASSUME NEW b \in Seq(Byte)
  PROVE  \A n \in 0 .. Len(b) : Cut(b)[n] \in [done : Seq(Seq(Byte)), part : Seq(Byte)]
<1> DEFINE Type == [done : Seq(Seq(Byte)), part : Seq(Byte)]
           I == {n \in Nat : n \in 0 .. Len(b) => Cut(b)[n] \in Type}
<1>1. 0 \in I
  <2>1. Cut(b)[0] = [done |-> <<>>, part |-> <<>>]
    BY CutIs DEF Uncut
  <2>2. <<>> \in Seq(Byte) /\ <<>> \in Seq(Seq(Byte))
    BY EmptySeq
  <2>3. Cut(b)[0] \in Type
    BY <2>1, <2>2, RecordOf, Zenon
  <2> HIDE DEF Type
  <2> QED BY <2>3
<1>2. ASSUME NEW n \in Nat, n \in I PROVE n + 1 \in I
  <2> SUFFICES ASSUME n + 1 \in 0 .. Len(b) PROVE Cut(b)[n + 1] \in Type
    BY <1>2
  <2>1. n \in 0 .. Len(b) /\ n + 1 \in 1 .. Len(b)
    BY LenProperties
  <2>2. Cut(b)[n] \in Type
    BY <1>2, <2>1
  <2>3. b[n + 1] \in Byte
    BY <2>1, ElementOfSeq
  <2> QED BY <2>1, <2>2, <2>3, CutNext
<1>3. Nat \subseteq I
  <2> HIDE DEF I
  <2> QED BY <1>1, <1>2, Cuts!ByInduction
<1>4. \A n \in 0 .. Len(b) : n \in Nat
  BY LenProperties
<1> QED
  BY <1>3, <1>4

\* Cut() looks at no byte it has not reached.
LEMMA CutSame ==
  ASSUME NEW b \in Seq(Byte), NEW d \in Seq(Byte), NEW k \in 0 .. Len(b), k \in 0 .. Len(d),
         \A i \in 1 .. k : b[i] = d[i]
  PROVE  Cut(b)[k] = Cut(d)[k]
<1> DEFINE I == {n \in Nat : n \in 0 .. k => Cut(b)[n] = Cut(d)[n]}
<1>1. 0 \in I
  BY CutIs
<1>2. ASSUME NEW n \in Nat, n \in I PROVE n + 1 \in I
  <2> SUFFICES ASSUME n + 1 \in 0 .. k PROVE Cut(b)[n + 1] = Cut(d)[n + 1]
    BY <1>2
  <2>1. n \in 0 .. k /\ n + 1 \in 1 .. k
    BY LenProperties
  <2>2. Cut(b)[n] = Cut(d)[n]
    BY <1>2, <2>1
  <2>3. b[n + 1] = d[n + 1]
    BY <2>1
  <2> QED BY <2>2, <2>3, CutIs
<1>3. Nat \subseteq I
  <2> HIDE DEF I
  <2> QED BY <1>1, <1>2, Cuts!ByInduction
<1>4. k \in Nat /\ k \in 0 .. k
  BY LenProperties
<1> QED
  BY <1>3, <1>4

\* Appending keeps what was there.
LEMMA LongerByOne ==
  ASSUME NEW T, NEW q \in Seq(T), NEW x \in T
  PROVE  Len(Append(q, x)) = Len(q) + 1 /\ \A i \in 1 .. Len(q) : Append(q, x)[i] = q[i]
  BY AppendProperties

\* What a piece of the bytes has completed stays, and grows at every '\n' only.
Grown(b, n, m) ==
  /\ Len(Cut(b)[n].done) <= Len(Cut(b)[m].done)
  /\ \A i \in 1 .. Len(Cut(b)[n].done) : Cut(b)[m].done[i] = Cut(b)[n].done[i]
  /\ Len(Cut(b)[m].done) = Len(Cut(b)[n].done) <=> \A i \in n + 1 .. m : b[i] # NL

LEMMA CutGrows ==
  ASSUME NEW b \in Seq(Byte), NEW n \in 0 .. Len(b), NEW m \in n .. Len(b)
  PROVE  Grown(b, n, m)
<1> DEFINE D(k) == Cut(b)[k].done
           I == {k \in Nat : n + k \in 0 .. Len(b) => Grown(b, n, n + k)}
<1>1. n \in Nat /\ Len(b) \in Nat
  BY LenProperties
<1>2. \A k \in 0 .. Len(b) : D(k) \in Seq(Seq(Byte)) /\ Len(D(k)) \in Nat
  <2> SUFFICES ASSUME NEW k \in 0 .. Len(b) PROVE D(k) \in Seq(Seq(Byte)) /\ Len(D(k)) \in Nat
    OBVIOUS
  <2>1. Cut(b)[k] \in [done : Seq(Seq(Byte)), part : Seq(Byte)]
    BY CutType
  <2>2. D(k) \in Seq(Seq(Byte))
    BY <2>1
  <2> HIDE DEF D
  <2> QED BY <2>2, LenProperties
<1>3. 0 \in I
  <2>1. n + 0 = n /\ Len(D(n)) \in Nat /\ \A i \in n + 1 .. n : FALSE
    BY <1>1, <1>2
  <2> QED BY <2>1 DEF Grown
<1>4. ASSUME NEW k \in Nat, k \in I PROVE k + 1 \in I
  <2> SUFFICES ASSUME n + (k + 1) \in 0 .. Len(b) PROVE Grown(b, n, n + (k + 1))
    BY <1>4
  <2> DEFINE j == n + k
  <2>1. j \in 0 .. Len(b) /\ j + 1 = n + (k + 1) /\ j + 1 \in 1 .. Len(b) /\ j \in Nat
    BY <1>1
  <2>2. Grown(b, n, j)
    BY <1>4, <2>1
  <2> HIDE DEF j
  <2>3. Cut(b)[j] \in [done : Seq(Seq(Byte)), part : Seq(Byte)]
    BY <2>1, CutType
  <2>4. D(n) \in Seq(Seq(Byte)) /\ Len(D(n)) \in Nat /\ Len(D(j)) \in Nat /\ D(j) \in Seq(Seq(Byte))
    BY <1>2, <2>1
  <2>5. \A i : i \in n + 1 .. j + 1 <=> i \in n + 1 .. j \/ i = j + 1
    BY <1>1, <2>1, <1>4 DEF j
  <2>6. CASE b[j + 1] = NL
    <3> DEFINE x == StripCR(Cut(b)[j].part)
    <3>1. D(j + 1) = Append(D(j), x)
      BY <2>1, <2>3, <2>6, CutNext
    <3>2. x \in Seq(Byte)
      BY <2>3, StripType
    <3> HIDE DEF D, x
    <3>3. Len(D(j + 1)) = Len(D(j)) + 1 /\ \A i \in 1 .. Len(D(j)) : D(j + 1)[i] = D(j)[i]
      <4>1. /\ Len(Append(D(j), x)) = Len(D(j)) + 1
            /\ \A i \in 1 .. Len(D(j)) : Append(D(j), x)[i] = D(j)[i]
        BY <2>4, <3>2, LongerByOne, Zenon
      <4> QED BY <3>1, <4>1, Zenon
    <3>4. Len(D(n)) <= Len(D(j)) /\ \A i \in 1 .. Len(D(n)) : D(j)[i] = D(n)[i]
      BY <2>2 DEF Grown, D
    <3>5. /\ Len(D(n)) <= Len(D(j + 1)) /\ Len(D(n)) # Len(D(j + 1))
          /\ \A i \in 1 .. Len(D(n)) : D(j + 1)[i] = D(n)[i]
      BY <2>4, <3>3, <3>4
    <3>6. j + 1 \in n + 1 .. j + 1
      BY <2>5
    <3>7. ~ \A i \in n + 1 .. j + 1 : b[i] # NL
      BY <2>6, <3>6
    <3>8. Grown(b, n, j + 1)
      BY <3>5, <3>7, Zenon DEF Grown, D
    <3> QED BY <2>1, <3>8
  <2>7. CASE b[j + 1] # NL
    <3>1. D(j + 1) = D(j)
      BY <2>1, <2>3, <2>7, CutNext
    <3>2. (\A i \in n + 1 .. j : b[i] # NL) <=> \A i \in n + 1 .. j + 1 : b[i] # NL
      BY <2>5, <2>7
    <3>3. Grown(b, n, j + 1)
      BY <2>2, <3>1, <3>2 DEF Grown
    <3> QED BY <2>1, <3>3
  <2> QED BY <2>6, <2>7
<1>5. Nat \subseteq I
  <2> HIDE DEF I
  <2> QED BY <1>3, <1>4, Cuts!ByInduction
<1>6. m - n \in Nat /\ n + (m - n) = m /\ m \in 0 .. Len(b)
  BY <1>1
<1> QED
  BY <1>5, <1>6

\* Appending and taking the first off commute, unless there is none.
LEMMA TailOfLonger ==
  ASSUME NEW T, NEW q \in Seq(T), NEW x \in T
  PROVE  /\ Append(q, x) # <<>>
         /\ q # <<>> => Tail(Append(q, x)) = Append(Tail(q), x)
  BY HeadTailAppend, AppendProperties

\* The elements of a piece of a sequence.
LEMMA PieceIs ==
  ASSUME NEW T, NEW q \in Seq(T), NEW a \in 1 .. Len(q) + 1, NEW b \in a - 1 .. Len(q)
  PROVE  /\ SubSeq(q, a, b) \in Seq(T)
         /\ Len(SubSeq(q, a, b)) = b - a + 1
         /\ \A i \in 1 .. b - a + 1 : SubSeq(q, a, b)[i] = q[a + i - 1]
<1>1. a \in Int /\ b \in Int /\ (a <= b \/ b - a + 1 = 0) /\ \A i \in a .. b : i \in 1 .. Len(q)
  BY LenProperties
<1>2. \A i \in a .. b : q[i] \in T
  BY <1>1, ElementOfSeq
<1> QED
  BY <1>1, <1>2, SubSeqProperties

\* Lines are bytes.
LEMMA LinesType ==
  ASSUME NEW b \in Seq(Byte)
  PROVE  LinesOf(b) \in Seq(Seq(Byte)) /\ Len(LinesOf(b)) \in Nat
<1>1. Len(b) \in 0 .. Len(b)
  BY LenProperties
<1>2. Cut(b)[Len(b)] \in [done : Seq(Seq(Byte)), part : Seq(Byte)]
  BY <1>1, CutType
<1>3. LinesOf(b) \in Seq(Seq(Byte))
  BY <1>2 DEF LinesOf
<1> HIDE DEF LinesOf
<1> QED
  BY <1>3, LenProperties

\* The lines of a piece are the first lines of the whole, and all of them only if no
\* '\n' follows.
LEMMA LinesOfPiece ==
  ASSUME NEW a \in Seq(Byte), NEW r \in Seq(Byte)
  PROVE  /\ Len(LinesOf(a)) <= Len(LinesOf(a \o r))
         /\ SubSeq(LinesOf(a \o r), 1, Len(LinesOf(a))) = LinesOf(a)
         /\ Len(LinesOf(a \o r)) = Len(LinesOf(a)) <=> ~HasLine(r)
<1> DEFINE b == a \o r
           n == Len(a)
           m == Len(b)
           q == LinesOf(a)
           w == LinesOf(b)
<1>1. /\ b \in Seq(Byte) /\ n \in Nat /\ Len(r) \in Nat /\ m = n + Len(r)
      /\ \A i \in 1 .. n + Len(r) : b[i] = IF i <= n THEN a[i] ELSE r[i - n]
  BY ConcatProperties, LenProperties
<1>2. \A i \in 1 .. n : a[i] = b[i]
  <2> HIDE DEF b
  <2> QED BY <1>1
<1>3. n \in 0 .. Len(b) /\ n \in 0 .. Len(a) /\ m \in n .. Len(b) /\ m \in 0 .. Len(b)
  <2> HIDE DEF b
  <2> QED BY <1>1
<1>4. q = Cut(b)[n].done
  <2> HIDE DEF b, n
  <2>1. Cut(a)[n] = Cut(b)[n]
    BY <1>1, <1>2, <1>3, CutSame
  <2> QED BY <2>1 DEF LinesOf, n
<1>5. w = Cut(b)[m].done
  BY DEF LinesOf
<1>6. Grown(b, n, m)
  <2> HIDE DEF b, n, m
  <2> QED BY <1>1, <1>3, CutGrows
<1>7. q \in Seq(Seq(Byte)) /\ w \in Seq(Seq(Byte)) /\ Len(q) \in Nat /\ Len(w) \in Nat
  <2> HIDE DEF b
  <2> QED BY <1>1, LinesType
<1>8. (\A i \in n + 1 .. m : b[i] # NL) <=> ~HasLine(r)
  <2> HIDE DEF b, n
  <2>1. ASSUME HasLine(r) PROVE ~ \A i \in n + 1 .. m : b[i] # NL
    <3>1. PICK j \in 1 .. Len(r) : r[j] = NL
      BY <2>1 DEF HasLine
    <3> HIDE DEF m
    <3>2. n + j \in n + 1 .. m /\ n + j \in 1 .. n + Len(r) /\ ~(n + j <= n) /\ (n + j) - n = j
      BY <1>1
    <3>3. b[n + j] = NL
      BY <1>1, <3>1, <3>2
    <3> QED BY <3>2, <3>3
  <2>2. ASSUME NEW i \in n + 1 .. m, b[i] = NL PROVE HasLine(r)
    <3> HIDE DEF m
    <3>1. i - n \in 1 .. Len(r) /\ r[i - n] = NL
      BY <1>1, <2>2
    <3> QED BY <3>1 DEF HasLine
  <2> QED BY <2>1, <2>2
<1> HIDE DEF b, n, m, q, w
<1>9. /\ Len(q) <= Len(w)
      /\ \A i \in 1 .. Len(q) : w[i] = q[i]
      /\ Len(w) = Len(q) <=> ~HasLine(r)
  BY <1>4, <1>5, <1>6, <1>8, Zenon DEF Grown
<1>10. SubSeq(w, 1, Len(q)) = q
  <2> DEFINE s == SubSeq(w, 1, Len(q))
  <2>1. /\ 1 \in 1 .. Len(w) + 1 /\ Len(q) \in 1 - 1 .. Len(w) /\ Len(q) - 1 + 1 = Len(q)
        /\ \A i \in 1 .. Len(q) : 1 + i - 1 = i
    BY <1>7, <1>9
  <2>2. s \in Seq(Seq(Byte)) /\ Len(s) = Len(q) /\ \A i \in 1 .. Len(q) : s[i] = w[i]
    <3>1. /\ s \in Seq(Seq(Byte))
          /\ Len(s) = Len(q) - 1 + 1
          /\ \A i \in 1 .. Len(q) - 1 + 1 : s[i] = w[1 + i - 1]
      BY <1>7, <2>1, PieceIs, ZenonT(30)
    <3> HIDE DEF s
    <3> QED BY <2>1, <3>1
  <2> HIDE DEF s
  <2>3. s = q
    BY <1>7, <1>9, <2>2, SeqEqual, Zenon
  <2> QED BY <2>3 DEF s
<1> QED
  BY <1>9, <1>10 DEF b, q, w

\* A byte more is a line more, if it is a '\n'.
LEMMA LinesOfOneMore ==
  ASSUME NEW b \in Seq(Byte), NEW x \in Byte
  PROVE  /\ x # NL => LinesOf(Append(b, x)) = LinesOf(b)
         /\ x = NL => \E l \in Seq(Byte) : LinesOf(Append(b, x)) = Append(LinesOf(b), l)
<1> DEFINE a == Append(b, x)
           n == Len(b)
<1>1. a \in Seq(Byte) /\ Len(a) = n + 1 /\ (\A i \in 1 .. n : a[i] = b[i]) /\ a[n + 1] = x /\ n \in Nat
  BY AppendProperties, LenProperties
<1> HIDE DEF a, n
<1>2. n \in 0 .. Len(a) /\ n \in 0 .. Len(b)
  BY <1>1 DEF n
<1>3. Cut(a)[n] = Cut(b)[n]
  BY <1>1, <1>2, CutSame
<1>4. Cut(a)[n] \in [done : Seq(Seq(Byte)), part : Seq(Byte)]
  BY <1>1, <1>2, CutType
<1>5. LinesOf(a) = Cut(a)[n + 1].done /\ LinesOf(b) = Cut(a)[n].done
  BY <1>1, <1>3 DEF LinesOf, n
<1>6. x # NL => LinesOf(a) = LinesOf(b)
  BY <1>1, <1>2, <1>4, <1>5, CutNext
<1>7. x = NL => LinesOf(a) = Append(LinesOf(b), StripCR(Cut(a)[n].part))
  <2>1. a[n + 1] = NL => Cut(a)[n + 1].done = Append(Cut(a)[n].done, StripCR(Cut(a)[n].part))
    BY <1>1, <1>2, <1>4, CutNext
  <2> QED BY <1>1, <1>5, <2>1, Zenon
<1>8. StripCR(Cut(a)[n].part) \in Seq(Byte)
  BY <1>4, StripType
<1> QED
  BY <1>6, <1>7, <1>8, Zenon DEF a

\* Without its first line a buffer has its other lines.
LEMMA LinesAfterFirst ==
  ASSUME NEW b \in Seq(Byte), HasLine(b)
  PROVE  LinesOf(SubSeq(b, LineEnd(b) + 1, Len(b))) = Tail(LinesOf(b))
<1> DEFINE e == LineEnd(b)
           t == SubSeq(b, e + 1, Len(b))
           I == {k \in Nat : k \in 0 .. Len(t) =>
                   /\ Cut(t)[k].done = Tail(Cut(b)[e + k].done)
                   /\ Cut(t)[k].part = Cut(b)[e + k].part
                   /\ Cut(b)[e + k].done # <<>>}
<1>1. Len(b) \in Nat /\ e \in 1 .. Len(b) /\ b[e] = NL /\ \A i \in 1 .. e - 1 : b[i] # NL
  BY LineEndIsFirst, LenProperties
<1> HIDE DEF e
<1>2. t \in Seq(Byte) /\ Len(t) = Len(b) - e /\ \A i \in 1 .. Len(b) - e : t[i] = b[e + i]
  <2>1. e + 1 \in 1 .. Len(b) + 1 /\ Len(b) \in (e + 1) - 1 .. Len(b)
    BY <1>1
  <2>2. /\ t \in Seq(Byte)
        /\ Len(t) = Len(b) - (e + 1) + 1
        /\ \A i \in 1 .. Len(b) - (e + 1) + 1 : t[i] = b[(e + 1) + i - 1]
    BY <2>1, PieceIs, Zenon
  <2> HIDE DEF t
  <2>3. \A i \in 1 .. Len(b) - e : i \in 1 .. Len(b) - (e + 1) + 1 /\ (e + 1) + i - 1 = e + i
    BY <1>1
  <2> QED BY <1>1, <2>2, <2>3
<1> HIDE DEF t
<1>3. \A k \in 0 .. Len(b) : Cut(b)[k] \in [done : Seq(Seq(Byte)), part : Seq(Byte)]
  BY CutType
<1>4. Cut(t)[0].done = <<>> /\ Cut(t)[0].part = <<>> /\ Cut(b)[0].done = <<>>
  <2>1. /\ Cut(t)[0] = [done |-> <<>>, part |-> <<>>]
        /\ Cut(b)[0] = [done |-> <<>>, part |-> <<>>]
    BY <1>2, CutIs DEF Uncut
  <2> QED BY <2>1
<1>5. 0 \in I
  <2> DEFINE d == e - 1
             D == Cut(b)[d].done
             x == StripCR(Cut(b)[d].part)
  <2>1. d \in Nat /\ d \in 0 .. Len(b) /\ 0 \in 0 .. Len(b) /\ d + 1 = e /\ 0 + 1 = 1 /\ e + 0 = e
    BY <1>1
  <2> HIDE DEF d
  <2>2. Grown(b, 0, d)
    BY <2>1, CutGrows
  <2>3. Cut(b)[d] \in [done : Seq(Seq(Byte)), part : Seq(Byte)]
    BY <1>3, <2>1
  <2>4. D \in Seq(Seq(Byte)) /\ x \in Seq(Byte)
    BY <2>3, StripType
  <2>5. Cut(b)[e].done = Append(D, x) /\ Cut(b)[e].part = <<>>
    BY <1>1, <2>1, <2>3, CutNext
  <2>6. Len(D) = 0
    <3>1. \A i \in 0 + 1 .. d : b[i] # NL
      BY <1>1, <2>1
    <3>2. Len(D) = Len(Cut(b)[0].done)
      BY <2>2, <3>1, Zenon DEF Grown
    <3> HIDE DEF D
    <3> QED BY <1>4, <3>2
  <2> HIDE DEF D, x
  <2>7. D = <<>>
    BY <2>4, <2>6, EmptySeq
  <2>8. Tail(Append(D, x)) = <<>> /\ Append(D, x) # <<>>
    <3>1. Tail(<<x>>) = <<>>
      OBVIOUS
    <3>2. Append(D, x) = <<x>>
      BY <2>7
    <3> QED BY <3>1, <3>2
  <2> QED BY <1>4, <2>1, <2>5, <2>8
<1>6. ASSUME NEW k \in Nat, k \in I PROVE k + 1 \in I
  <2> SUFFICES ASSUME k + 1 \in 0 .. Len(t)
               PROVE  /\ Cut(t)[k + 1].done = Tail(Cut(b)[e + (k + 1)].done)
                      /\ Cut(t)[k + 1].part = Cut(b)[e + (k + 1)].part
                      /\ Cut(b)[e + (k + 1)].done # <<>>
    BY <1>6
  <2> DEFINE j == e + k
             D == Cut(b)[j].done
             p == Cut(b)[j].part
             x == b[j + 1]
  <2>1. /\ k \in 0 .. Len(t) /\ k + 1 \in 1 .. Len(b) - e
        /\ j \in 0 .. Len(b) /\ j + 1 = e + (k + 1) /\ j + 1 \in 1 .. Len(b)
    BY <1>1, <1>2, SMTT(30)
  <2>2. Cut(t)[k].done = Tail(D) /\ Cut(t)[k].part = p /\ D # <<>>
    BY <1>6, <2>1
  <2> HIDE DEF j
  <2>3. t[k + 1] = x
    BY <1>2, <2>1
  <2>4. Cut(b)[j] \in [done : Seq(Seq(Byte)), part : Seq(Byte)]
    BY <1>3, <2>1
  <2>5. Cut(t)[k] \in [done : Seq(Seq(Byte)), part : Seq(Byte)]
    BY <1>2, <2>1, CutType
  <2>6. D \in Seq(Seq(Byte)) /\ StripCR(p) \in Seq(Byte)
    BY <2>4, StripType
  <2>7. CASE x = NL
    <3>1. Cut(b)[j + 1].done = Append(D, StripCR(p)) /\ Cut(b)[j + 1].part = <<>>
      BY <2>1, <2>4, <2>7, CutNext
    <3>2. Cut(t)[k + 1].done = Append(Tail(D), StripCR(p)) /\ Cut(t)[k + 1].part = <<>>
      BY <1>2, <2>1, <2>2, <2>3, <2>5, <2>7, CutNext, ZenonT(30)
    <3> HIDE DEF D, p
    <3>3. Tail(Append(D, StripCR(p))) = Append(Tail(D), StripCR(p)) /\ Append(D, StripCR(p)) # <<>>
      BY <2>2, <2>6, TailOfLonger, Zenon
    <3> QED BY <2>1, <3>1, <3>2, <3>3
  <2>8. CASE x # NL
    <3>1. Cut(b)[j + 1].done = D /\ Cut(b)[j + 1].part = Append(p, x)
      BY <2>1, <2>4, <2>8, CutNext
    <3>2. Cut(t)[k + 1].done = Tail(D) /\ Cut(t)[k + 1].part = Append(p, x)
      BY <1>2, <2>1, <2>2, <2>3, <2>5, <2>8, CutNext
    <3> QED BY <2>1, <2>2, <3>1, <3>2
  <2> QED BY <2>7, <2>8
<1>7. Nat \subseteq I
  <2> HIDE DEF I
  <2> QED BY <1>5, <1>6, Cuts!ByInduction
<1>8. Len(t) \in Nat /\ Len(t) \in 0 .. Len(t) /\ e + Len(t) = Len(b)
  BY <1>1, <1>2
<1>9. Cut(t)[Len(t)].done = Tail(Cut(b)[Len(b)].done)
  BY <1>7, <1>8
<1> QED
  BY <1>9, Zenon DEF LinesOf, t, e

---------------------------------------------------------------------------
(* Seen by lines: the script has one connection, behind one descriptor. *)

\* The lowest descriptor fits an fd_set.
FirstFits == \A f \in Fd : (\A g \in Fd : f <= g) => f < FdSetSize

Alone ==
  /\ pc \in {"new", "connect"} => mine[S] = NoConn /\ \A f \in Fd : table[f] = NoConn
  /\ pc \notin {"new", "connect"} /\ connected[S] => mine[S] # NoConn
  /\ pc \in {"poll", "get", "reply"} => mine[S] # NoConn
  /\ mine[S] # NoConn =>
       sock[S] \in Fd /\ sock[S] < FdSetSize /\ table[sock[S]] = mine[S]
  /\ mine[S] = NoConn => buff[S] = <<>>
  /\ \A c \in ConnId :
       /\ c # mine[S] => st[c] = "free"
       /\ st[c] = "free" => sent[c] = <<>> /\ taken[c] = 0
  /\ proc = "killed" => mine[S] # NoConn /\ st[mine[S]] \notin {"up", "fin"}

LEMMA AloneInitial == LoopInit => Alone
  BY ReadLoopAssumption DEF LoopInit, Init, NetInit, Alone

\* What a call that reads or writes looks at.
LEMMA Reaches ==
  ASSUME LoopTypeOK, Alone, mine[S] # NoConn
  PROVE  mine[S] \in ConnId /\ ConnOf(S) = mine[S] /\ Selectable(S)
<1>1. mine[S] \in ConnId /\ sock[S] \in Fd /\ sock[S] < FdSetSize /\ table[sock[S]] = mine[S]
  BY ReadLoopAssumption DEF LoopTypeOK, TypeOK, Alone
<1>2. sock[S] \in Nat /\ FdSetSize \in Nat
  BY <1>1, NetworkAssumption
<1>3. sock[S] \in 0 .. FdSetSize - 1
  BY <1>1, <1>2
<1> QED
  BY <1>1, <1>3 DEF ConnOf, Behind, Selectable

\* What is read of the connection, and what a read changes.
LEMMA Reads ==
  ASSUME LoopTypeOK, Alone, mine[S] # NoConn, Bufferize(S)
  PROVE  /\ taken' \in [ConnId -> Nat]
         /\ \A c \in ConnId : c # mine[S] => taken'[c] = taken[c]
         /\ taken'[mine[S]] = taken[mine[S]] + Len(Incoming(S))
         /\ connected'[S] = (connected[S] /\ ~SeesEnd(S))
         /\ UNCHANGED proc
<1> USE DEF LoopTypeOK, TypeOK, NetTypeOK
<1>1. mine[S] \in ConnId /\ ConnOf(S) = mine[S] /\ Selectable(S) /\ S \in Sock
  BY Reaches, ReadLoopAssumption
<1>2. /\ taken' = [c \in ConnId |->
                     IF c = ConnOf(S) THEN taken[c] + Len(Incoming(S)) ELSE taken[c]]
      /\ connected' = [connected EXCEPT ![S] = @ /\ ~SeesEnd(S)]
      /\ UNCHANGED proc
  BY <1>1 DEF Bufferize
<1>3. Len(Incoming(S)) \in Nat
  BY <1>1, IncomingType
<1>4. \A c \in ConnId : taken[c] \in Nat /\ taken[c] + Len(Incoming(S)) \in Nat
  BY <1>3
<1>5. connected'[S] = (connected[S] /\ ~SeesEnd(S))
  BY <1>1, <1>2
<1> HIDE DEF LoopTypeOK, TypeOK, NetTypeOK
<1>6. taken' \in [ConnId -> Nat]
  BY <1>2, <1>4
<1>7. \A c \in ConnId : c # mine[S] => taken'[c] = taken[c]
  BY <1>1, <1>2
<1>8. taken'[mine[S]] = taken[mine[S]] + Len(Incoming(S))
  BY <1>1, <1>2
<1> QED
  BY <1>2, <1>5, <1>6, <1>7, <1>8

\* The first connect gets the lowest descriptor.
LEMMA AloneConnects ==
  ASSUME LoopTypeOK, Alone, FirstFits, Connect
  PROVE  Alone'
<1> USE DEF LoopTypeOK, TypeOK, NetTypeOK
<1>1. pc = "connect" /\ pc' = "nick" /\ ConnectFrom(S, table, st) /\ UNCHANGED <<sent, taken, buff, proc>>
  BY DEF Connect, ConnectSocket, ConnectFrom
<1>2. mine[S] = NoConn /\ (\A f \in Fd : table[f] = NoConn) /\ buff[S] = <<>> /\ proc # "killed"
      /\ \A c \in ConnId : st[c] = "free" /\ sent[c] = <<>> /\ taken[c] = 0
  BY <1>1, NetworkAssumption DEF Alone
<1>3. ASSUME NEW f \in Fd, NEW c \in ConnId, NEW up \in BOOLEAN,
             IsLowestFree(table, f), st[c] = "free",
             table' = [table EXCEPT ![f] = c],
             st' = [st EXCEPT ![c] = IF up THEN "up" ELSE "new"],
             sock' = [sock EXCEPT ![S] = f],
             mine' = [mine EXCEPT ![S] = c]
      PROVE  Alone'
  <2>1. S \in Sock /\ c # NoConn
    BY ReadLoopAssumption, NetworkAssumption
  <2>2. mine'[S] = c /\ sock'[S] = f /\ table'[f] = c /\ \A d \in ConnId : d # c => st'[d] = "free"
    BY <1>2, <1>3, <2>1
  <2>3. f < FdSetSize
    BY <1>2, <1>3 DEF FirstFits, IsLowestFree
  <2>4. st'[c] # "free"
    BY <1>3
  <2> HIDE DEF LoopTypeOK, TypeOK, NetTypeOK
  <2> QED
    BY <1>1, <1>2, <2>1, <2>2, <2>3, <2>4 DEF Alone
<1>4. ASSUME st' = st, connected' = [connected EXCEPT ![S] = FALSE], mine' = [mine EXCEPT ![S] = NoConn]
      PROVE  Alone'
  <2>1. mine'[S] = NoConn /\ ~connected'[S]
    BY <1>4, ReadLoopAssumption
  <2> HIDE DEF LoopTypeOK, TypeOK, NetTypeOK
  <2>2. \A c \in ConnId : st'[c] = "free" /\ sent'[c] = <<>> /\ taken'[c] = 0
    BY <1>1, <1>2, <1>4
  <2> QED
    BY <1>1, <1>2, <2>1, <2>2 DEF Alone
<1> HIDE DEF LoopTypeOK, TypeOK, NetTypeOK
<1> QED
  BY <1>1, <1>3, <1>4 DEF ConnectFrom

LEMMA AloneStep ==
  ASSUME LoopTypeOK, Alone, FirstFits, [LoopNext]_loopVars
  PROVE  Alone'
<1>0. S \in Sock
  BY ReadLoopAssumption
<1>1. CASE UNCHANGED loopVars
  BY <1>1 DEF loopVars, vars, netVars, objVars, histVars, Alone
<1>2. CASE New
  <2>1. pc = "new" /\ pc' = "connect" /\ UNCHANGED <<table, st, sent, taken, proc, mine>>
    BY <1>2 DEF New, NewSocket, netVars
  <2>2. buff'[S] = <<>>
    BY <1>0, <1>2 DEF New, NewSocket, LoopTypeOK, TypeOK
  <2> QED
    BY <2>1, <2>2 DEF Alone
<1>3. CASE Connect
  BY <1>3, AloneConnects
<1>4. CASE Test
  BY <1>4 DEF Test, vars, netVars, objVars, histVars, Alone
<1>5. ASSUME NEW from, NEW to, WriteLine(from, to),
             <<from, to>> \in {<<"nick", "user">>, <<"user", "test">>, <<"reply", "test">>}
      PROVE  Alone'
  <2>1. pc = from /\ pc' = to /\ pc' \notin {"new", "connect", "poll", "get", "reply"}
        /\ pc \notin {"new", "connect"}
    BY <1>5 DEF WriteLine
  <2>2. CASE connected[S]
    <3>1. /\ UNCHANGED <<table, st, sent, taken, sock, buff, mine>> /\ Send(S, TRUE)
      BY <1>5, <2>2 DEF WriteLine, Write
    <3>2. mine[S] # NoConn
      BY <2>1, <2>2 DEF Alone
    <3>3. ConnOf(S) = mine[S]
      BY <3>2, Reaches
    <3>4. UNCHANGED proc \/ (proc' = "killed" /\ ~Writable(mine[S]))
      BY <3>1, <3>3 DEF Send
    <3>5. ~Writable(mine[S]) => st[mine[S]] \notin {"up", "fin"}
      BY <3>2 DEF Writable
    <3> QED
      BY <2>1, <3>1, <3>2, <3>4, <3>5 DEF Alone
  <2>3. CASE ~connected[S]
    BY <1>5, <2>1, <2>3 DEF WriteLine, vars, netVars, objVars, histVars, Alone
  <2> QED BY <2>2, <2>3
<1>6. CASE CanGetLine \/ PrintLine
  <2>1. /\ mine[S] # NoConn /\ pc \in {"poll", "get"}
    BY <1>6 DEF CanGetLine, PrintLine, Alone
  <2>2. UNCHANGED <<table, st, sent, sock, mine>> /\ Bufferize(S) /\ pc' \notin {"new", "connect"}
    BY <1>6 DEF CanGetLine, PrintLine, Poll, GetLine
  <2>3. UNCHANGED proc /\ \A c \in ConnId : c # mine[S] => taken'[c] = taken[c]
    BY <2>1, <2>2, Reads
  <2>4. mine[S] \in ConnId
    BY <2>1, Reaches
  <2>5. taken[mine[S]] = 0 /\ sent[mine[S]] = <<>> => taken'[mine[S]] = 0
    <3>1. taken'[mine[S]] = taken[mine[S]] + Len(Incoming(S)) /\ Len(Incoming(S)) \in Nat
          /\ Len(Incoming(S)) <= Unread(mine[S])
      BY <1>0, <2>1, <2>2, <2>4, Reads, Reaches, IncomingType DEF LoopTypeOK
    <3>2. Len(<<>>) = 0
      OBVIOUS
    <3> QED
      BY <3>1, <3>2 DEF Unread
  <2> QED
    BY <2>1, <2>2, <2>3, <2>4, <2>5 DEF Alone
<1>7. CASE PeerStep /\ UNCHANGED pc
  <2>1. UNCHANGED <<sock, connected, buff, proc, mine, table>> /\ pc' = pc /\ Peer
    <3>1. UNCHANGED <<sock, connected, buff, proc, mine>> /\ pc' = pc /\ Peer
      BY <1>7 DEF PeerStep, objVars, histVars
    <3>2. UNCHANGED table
      BY <3>1 DEF Peer, PeerSends, PeerCloses, PeerResets
    <3> QED BY <3>1, <3>2
  <2>2. PICK c \in ConnId : (\E b \in Byte : PeerSends(c, b)) \/ PeerCloses(c) \/ PeerResets(c)
    BY <2>1 DEF Peer
  <2>3. /\ st[c] \in {"up", "fin"} /\ UNCHANGED taken
        /\ \A d \in ConnId : d # c => st'[d] = st[d] /\ sent'[d] = sent[d]
        /\ st'[c] # "free"
    BY <2>2 DEF PeerSends, PeerCloses, PeerResets, LoopTypeOK, TypeOK, NetTypeOK
  <2>4. c = mine[S]
    BY <2>3 DEF Alone
  <2>5. proc # "killed"
    BY <2>3, <2>4 DEF Alone
  <2> QED
    BY <2>1, <2>3, <2>4, <2>5 DEF Alone
<1> QED
  BY <1>1, <1>2, <1>3, <1>4, <1>5, <1>6, <1>7 DEF LoopNext, Script

---------------------------------------------------------------------------
(* The lines on the wire. *)

\* What follows the first k and the first l of a sequence.
LEMMA PieceOfPiece ==
  ASSUME NEW T, NEW w \in Seq(T), NEW k \in 0 .. Len(w), NEW l \in k .. Len(w)
  PROVE  LET r == SubSeq(w, k + 1, Len(w))
         IN  /\ Len(r) = Len(w) - k
             /\ SubSeq(w, l + 1, Len(w)) = SubSeq(r, (l - k) + 1, Len(r))
             /\ SubSeq(w, 1, l) = SubSeq(w, 1, k) \o SubSeq(r, 1, l - k)
<1> DEFINE n == Len(w)
           r == SubSeq(w, k + 1, n)
           u == SubSeq(w, l + 1, n)
           v == SubSeq(r, (l - k) + 1, n - k)
           f == SubSeq(w, 1, l)
           g == SubSeq(w, 1, k)
           h == SubSeq(r, 1, l - k)
<1>1. n \in Nat /\ k \in Nat /\ l \in Nat /\ k <= l /\ l <= n
  BY LenProperties
<1>2. /\ k + 1 \in 1 .. n + 1 /\ n \in (k + 1) - 1 .. n
      /\ l + 1 \in 1 .. n + 1 /\ n \in (l + 1) - 1 .. n
      /\ 1 \in 1 .. n + 1 /\ l \in 1 - 1 .. n /\ k \in 1 - 1 .. n
  BY <1>1
<1>3. r \in Seq(T) /\ Len(r) = n - (k + 1) + 1 /\ \A i \in 1 .. n - (k + 1) + 1 : r[i] = w[(k + 1) + i - 1]
  BY <1>2, PieceIs, Zenon
<1>4. u \in Seq(T) /\ Len(u) = n - (l + 1) + 1 /\ \A i \in 1 .. n - (l + 1) + 1 : u[i] = w[(l + 1) + i - 1]
  BY <1>2, PieceIs, Zenon
<1>5. f \in Seq(T) /\ Len(f) = l - 1 + 1 /\ \A i \in 1 .. l - 1 + 1 : f[i] = w[1 + i - 1]
  BY <1>2, PieceIs, Zenon
<1>6. g \in Seq(T) /\ Len(g) = k - 1 + 1 /\ \A i \in 1 .. k - 1 + 1 : g[i] = w[1 + i - 1]
  BY <1>2, PieceIs, Zenon
<1> HIDE DEF n, r, u, f, g
<1>0. Len(r) = n - k
  BY <1>1, <1>3
<1>7. /\ (l - k) + 1 \in 1 .. Len(r) + 1 /\ n - k \in ((l - k) + 1) - 1 .. Len(r)
      /\ 1 \in 1 .. Len(r) + 1 /\ l - k \in 1 - 1 .. Len(r)
  BY <1>0, <1>1
<1>8. v \in Seq(T) /\ Len(v) = (n - k) - ((l - k) + 1) + 1
      /\ \A i \in 1 .. (n - k) - ((l - k) + 1) + 1 : v[i] = r[((l - k) + 1) + i - 1]
  BY <1>3, <1>7, PieceIs, ZenonT(30)
<1>9. h \in Seq(T) /\ Len(h) = (l - k) - 1 + 1 /\ \A i \in 1 .. (l - k) - 1 + 1 : h[i] = r[1 + i - 1]
  <2>1. r \in Seq(T) /\ 1 \in 1 .. Len(r) + 1 /\ l - k \in 1 - 1 .. Len(r)
    BY <1>3, <1>7
  <2> DEFINE d == l - k
  <2> HIDE DEF d
  <2>2. d \in 1 - 1 .. Len(r)
    BY <2>1 DEF d
  <2>3. /\ SubSeq(r, 1, d) \in Seq(T) /\ Len(SubSeq(r, 1, d)) = d - 1 + 1
        /\ \A i \in 1 .. d - 1 + 1 : SubSeq(r, 1, d)[i] = r[1 + i - 1]
    BY <2>1, <2>2, PieceIs, Zenon
  <2> QED BY <2>3 DEF d
<1> HIDE DEF v, h
<1>10. u = v
  <2>1. Len(u) = n - l /\ Len(v) = n - l
    BY <1>1, <1>4, <1>8
  <2>2. \A i \in 1 .. n - l : u[i] = v[i]
    <3> SUFFICES ASSUME NEW i \in 1 .. n - l PROVE u[i] = v[i]
      OBVIOUS
    <3> DEFINE j == (l - k) + i
    <3>1. /\ i \in 1 .. n - (l + 1) + 1 /\ (l + 1) + i - 1 = l + i
          /\ i \in 1 .. (n - k) - ((l - k) + 1) + 1 /\ ((l - k) + 1) + i - 1 = j
          /\ j \in 1 .. n - (k + 1) + 1 /\ (k + 1) + j - 1 = l + i
      BY <1>1
    <3> HIDE DEF j
    <3>2. u[i] = w[l + i]
      BY <1>4, <3>1
    <3>3. v[i] = r[j]
      BY <1>8, <3>1
    <3>4. r[j] = w[l + i]
      BY <1>3, <3>1
    <3> QED BY <3>2, <3>3, <3>4
  <2> QED BY <1>4, <1>8, <2>1, <2>2, SeqEqual
<1>11. f = g \o h
  <2> DEFINE c == g \o h
  <2>1. Len(f) = l /\ Len(g) = k /\ Len(h) = l - k
    BY <1>1, <1>5, <1>6, <1>9
  <2>2. c \in Seq(T) /\ Len(c) = Len(g) + Len(h)
        /\ \A i \in 1 .. Len(g) + Len(h) : c[i] = IF i <= Len(g) THEN g[i] ELSE h[i - Len(g)]
    BY <1>6, <1>9, ConcatProperties
  <2> HIDE DEF c
  <2>3. Len(c) = l /\ \A i \in 1 .. l : c[i] = IF i <= k THEN g[i] ELSE h[i - k]
    <3>1. k + (l - k) = l
      BY <1>1
    <3> QED BY <2>1, <2>2, <3>1
  <2>4. \A i \in 1 .. l : f[i] = c[i]
    <3> SUFFICES ASSUME NEW i \in 1 .. l PROVE f[i] = c[i]
      OBVIOUS
    <3>1. f[i] = w[i]
      <4>1. i \in 1 .. l - 1 + 1 /\ 1 + i - 1 = i
        BY <1>1
      <4> QED BY <1>5, <4>1
    <3>2. CASE i <= k
      <4>1. i \in 1 .. k - 1 + 1 /\ 1 + i - 1 = i
        BY <1>1, <3>2
      <4>2. g[i] = w[i]
        BY <1>6, <4>1
      <4> QED BY <2>3, <3>1, <3>2, <4>2
    <3>3. CASE ~(i <= k)
      <4> DEFINE j == i - k
      <4>1. /\ j \in 1 .. (l - k) - 1 + 1 /\ 1 + j - 1 = j
            /\ j \in 1 .. n - (k + 1) + 1 /\ (k + 1) + j - 1 = i
        BY <1>1, <3>3
      <4> HIDE DEF j
      <4>2. h[j] = w[i]
        BY <1>3, <1>9, <4>1
      <4> QED BY <2>3, <3>1, <3>3, <4>2 DEF j
    <3> QED BY <3>2, <3>3
  <2> QED BY <1>5, <2>1, <2>2, <2>3, <2>4, SeqEqual DEF c
<1> QED
  BY <1>0, <1>3, <1>10, <1>11 DEF n, r, u, v, f, g, h

\* With the first taken off both, what follows a beginning is the same.
LEMMA PieceOfTail ==
  ASSUME NEW T, NEW w \in Seq(T), NEW q \in Seq(T), q # <<>>, Len(q) <= Len(w)
  PROVE  /\ Len(Tail(q)) = Len(q) - 1
         /\ Len(Tail(w)) = Len(w) - 1
         /\ SubSeq(Tail(w), Len(Tail(q)) + 1, Len(Tail(w))) = SubSeq(w, Len(q) + 1, Len(w))
<1> DEFINE n == Len(w)
           k == Len(q)
           t == Tail(w)
           u == SubSeq(w, k + 1, n)
           v == SubSeq(t, k, n - 1)
<1>1. n \in Nat /\ k \in Nat \ {0} /\ k <= n /\ w # <<>>
  BY LenProperties, EmptySeq
<1>2. Len(Tail(q)) = k - 1
  BY HeadTailProperties
<1>3. t \in Seq(T) /\ Len(t) = n - 1 /\ \A i \in 1 .. Len(t) : t[i] = w[i + 1]
  BY <1>1, HeadTailProperties
<1>4. k + 1 \in 1 .. n + 1 /\ n \in (k + 1) - 1 .. n
  BY <1>1
<1>5. u \in Seq(T) /\ Len(u) = n - (k + 1) + 1 /\ \A i \in 1 .. n - (k + 1) + 1 : u[i] = w[(k + 1) + i - 1]
  BY <1>4, PieceIs, Zenon
<1> HIDE DEF n, k, t, u
<1>6. k \in 1 .. Len(t) + 1 /\ n - 1 \in k - 1 .. Len(t)
  BY <1>1, <1>3
<1>7. v \in Seq(T) /\ Len(v) = (n - 1) - k + 1 /\ \A i \in 1 .. (n - 1) - k + 1 : v[i] = t[k + i - 1]
  BY <1>3, <1>6, PieceIs, Zenon
<1> HIDE DEF v
<1>8. Len(u) = n - k /\ Len(v) = n - k
  BY <1>1, <1>5, <1>7
<1>9. \A i \in 1 .. n - k : u[i] = v[i]
  <2> SUFFICES ASSUME NEW i \in 1 .. n - k PROVE u[i] = v[i]
    OBVIOUS
  <2>1. /\ i \in 1 .. n - (k + 1) + 1 /\ (k + 1) + i - 1 = k + i
        /\ i \in 1 .. (n - 1) - k + 1 /\ k + i - 1 \in 1 .. Len(t) /\ (k + i - 1) + 1 = k + i
    BY <1>1, <1>3
  <2> QED BY <1>3, <1>5, <1>7, <2>1, ZenonT(30)
<1>10. u = v
  BY <1>5, <1>7, <1>8, <1>9, SeqEqual
<1>11. Len(Tail(q)) + 1 = k
  BY <1>1, <1>2
<1> QED
  BY <1>2, <1>3, <1>10, <1>11 DEF n, k, t, u, v

\* The types of what a program that reads by lines sees, and that a line is on the
\* wire when a '\n' is.
LEMMA SeenType ==
  ASSUME NEW a \in Seq(Byte), NEW r \in Seq(Byte)
  PROVE  LET q == LinesOf(a)
             w == LinesOf(a \o r)
             u == SubSeq(w, Len(q) + 1, Len(w))
         IN  /\ a \o r \in Seq(Byte)
             /\ q \in Seq(Seq(Byte)) /\ w \in Seq(Seq(Byte)) /\ u \in Seq(Seq(Byte))
             /\ Len(q) \in Nat /\ Len(w) \in Nat /\ Len(q) <= Len(w)
             /\ Len(u) = Len(w) - Len(q)
             /\ u = <<>> <=> ~HasLine(r)
<1> DEFINE q == LinesOf(a)
           w == LinesOf(a \o r)
           u == SubSeq(w, Len(q) + 1, Len(w))
<1>1. a \o r \in Seq(Byte)
  BY ConcatProperties
<1>2. q \in Seq(Seq(Byte)) /\ w \in Seq(Seq(Byte)) /\ Len(q) \in Nat /\ Len(w) \in Nat
  BY <1>1, LinesType
<1>3. Len(q) <= Len(w) /\ (Len(w) = Len(q) <=> ~HasLine(r))
  BY LinesOfPiece
<1> HIDE DEF q, w
<1>4. Len(q) + 1 \in 1 .. Len(w) + 1 /\ Len(w) \in (Len(q) + 1) - 1 .. Len(w)
  BY <1>2, <1>3
<1>5. u \in Seq(Seq(Byte)) /\ Len(u) = Len(w) - (Len(q) + 1) + 1
  BY <1>2, <1>4, PieceIs, Zenon
<1> HIDE DEF u
<1>6. Len(u) = Len(w) - Len(q)
  BY <1>2, <1>5
<1>7. u = <<>> <=> Len(u) = 0
  BY <1>5, EmptySeq
<1>8. Len(u) = 0 <=> Len(w) = Len(q)
  BY <1>2, <1>6
<1> QED
  BY <1>1, <1>2, <1>3, <1>5, <1>6, <1>7, <1>8, Zenon DEF q, w, u

\* recv() returns the first of the bytes that are pending, and leaves the others.
LEMMA PendingRead ==
  ASSUME LoopTypeOK, Alone, mine[S] # NoConn, Bufferize(S), UNCHANGED <<sent, mine>>
  PROVE  /\ Pending \in Seq(Byte) /\ Pending' \in Seq(Byte) /\ Incoming(S) \in Seq(Byte)
         /\ Pending = Incoming(S) \o Pending'
         /\ Unread(mine[S]) = 0 <=> Pending = <<>>
<1> DEFINE c == mine[S]
           q == sent[c]
           t == taken[c]
           N == Len(q)
           k == Len(Incoming(S))
           p == SubSeq(q, t + 1, N)
           i == SubSeq(q, t + 1, t + k)
           r == SubSeq(q, (t + k) + 1, N)
<1>1. c \in ConnId /\ ConnOf(S) = c /\ Selectable(S) /\ S \in Sock /\ c # NoConn
  BY Reaches, ReadLoopAssumption
<1>2. q \in Seq(Byte) /\ t \in Nat /\ t <= Len(q) /\ N \in Nat
  BY <1>1, LenProperties DEF LoopTypeOK, TypeOK, NetTypeOK
<1>3. Incoming(S) \in Seq(Byte) /\ k \in Nat /\ k <= N - t
  BY <1>1, IncomingType DEF LoopTypeOK, Unread
<1>4. taken'[c] = t + k
  BY <1>1, Reads
<1>5. Pending = p /\ Pending' = r
  BY <1>1, <1>4 DEF Pending
<1>6. Incoming(S) = i
  <2> DEFINE m == IF Unread(c) < RecvMax THEN Unread(c) ELSE RecvMax
  <2>1. m \in Nat /\ t + m <= N
    BY <1>2, ClientSocketAssumption DEF Unread
  <2>2. Incoming(S) = SubSeq(q, t + 1, t + m)
    BY <1>1 DEF Incoming, Received
  <2> HIDE DEF m, q, t
  <2>3. t + 1 \in 1 .. Len(q) + 1 /\ t + m \in (t + 1) - 1 .. Len(q)
    BY <1>2, <2>1
  <2>4. Len(SubSeq(q, t + 1, t + m)) = (t + m) - (t + 1) + 1
    BY <1>2, <2>3, PieceIs, Zenon
  <2>5. k = m
    BY <1>2, <2>1, <2>2, <2>4
  <2> QED BY <2>2, <2>5, Zenon
<1> HIDE DEF q, t, k
<1>7. /\ t + 1 \in 1 .. Len(q) + 1 /\ t + k \in (t + 1) - 1 .. Len(q) /\ N \in t + k .. Len(q)
      /\ N \in (t + 1) - 1 .. Len(q)
      /\ (t + k) + 1 \in 1 .. Len(q) + 1 /\ N \in ((t + k) + 1) - 1 .. Len(q)
  BY <1>2, <1>3
<1>8. p \in Seq(Byte) /\ Len(p) = N - (t + 1) + 1
  BY <1>2, <1>7, PieceIs, Zenon
<1>9. r \in Seq(Byte)
  BY <1>2, <1>7, PieceIs, Zenon
<1>10. i \o r = p
  BY <1>2, <1>7, ConcatAdjacentSubSeq
<1> HIDE DEF p, i, r, N
<1>11. p = <<>> <=> Len(p) = 0
  BY <1>8, EmptySeq
<1>12. Unread(c) = 0 <=> Len(p) = 0
  BY <1>2, <1>8 DEF Unread, q, t, N
<1> QED
  BY <1>3, <1>5, <1>6, <1>8, <1>9, <1>10, <1>11, <1>12 DEF c

\* What follows ends like the whole.
LEMMA EndsLike ==
  ASSUME NEW i \in Seq(Byte), NEW r \in Seq(Byte), r # <<>>
  PROVE  HasTail(i \o r) <=> HasTail(r)
<1> DEFINE w == i \o r
<1>1. Len(i) \in Nat /\ Len(r) \in Nat \ {0} /\ r # <<>>
  BY LenProperties, EmptySeq
<1>2. w \in Seq(Byte) /\ Len(w) = Len(i) + Len(r)
      /\ \A j \in 1 .. Len(i) + Len(r) : w[j] = IF j <= Len(i) THEN i[j] ELSE r[j - Len(i)]
  BY ConcatProperties
<1> HIDE DEF w
<1>3. Len(i) + Len(r) \in 1 .. Len(i) + Len(r) /\ ~(Len(i) + Len(r) <= Len(i))
      /\ (Len(i) + Len(r)) - Len(i) = Len(r)
  BY <1>1
<1>4. w[Len(w)] = r[Len(r)]
  BY <1>2, <1>3
<1>5. w # <<>>
  BY <1>1, <1>2, EmptySeq
<1> QED
  BY <1>1, <1>4, <1>5 DEF HasTail, w

\* bufferize(), seen by lines: n lines move from the wire to the buffer.
LEMMA ReadSeen ==
  ASSUME LoopTypeOK, Alone, mine[S] # NoConn, Bufferize(S), UNCHANGED <<st, sent, mine>>
  PROVE  LET b == buff[S] \o Incoming(S)
             q == LinesOf(b)
             n == Len(q) - Len(InBuffer)
         IN  /\ b \in Seq(Byte) /\ Pending' \in Seq(Byte)
             /\ b \o Pending' = buff[S] \o Pending
             /\ n \in 0 .. Len(OnWire) /\ Len(OnWire) \in Nat
             /\ n = 0 => q = InBuffer
             /\ q = InBuffer \o SubSeq(OnWire, 1, n)
             /\ SubSeq(Arrived, Len(q) + 1, Len(Arrived)) = SubSeq(OnWire, n + 1, Len(OnWire))
             /\ connected'[S] = (connected[S] /\ ~(Link = "end" /\ OnWire = <<>>))
             /\ Link' = Link \/ (Link = "tail" /\ n = Len(OnWire) /\ Link' = "end")
<1> DEFINE i == Incoming(S)
           a == buff[S]
           p == Pending
           r == Pending'
           b == a \o i
           q == LinesOf(b)
           w == LinesOf(a \o p)
           f == LinesOf(a)
           n == Len(q) - Len(f)
           u == SubSeq(w, Len(f) + 1, Len(w))
<1>1. p \in Seq(Byte) /\ r \in Seq(Byte) /\ i \in Seq(Byte) /\ p = i \o r
  BY PendingRead
<1>2. Unread(mine[S]) = 0 <=> p = <<>>
  BY PendingRead
<1>3. a \in Seq(Byte)
  BY ReadLoopAssumption DEF LoopTypeOK, TypeOK
<1>4. InBuffer = f /\ Arrived = w /\ OnWire = u
  BY DEF InBuffer, Arrived, OnWire
<1>5. SeesEnd(S) <=> p = <<>> /\ st[mine[S]] # "up"
  BY <1>2, Reaches, NetworkAssumption DEF SeesEnd, IsDrained
<1>6. connected'[S] = (connected[S] /\ ~SeesEnd(S))
  BY Reads
<1>7. Link = IF st[mine[S]] = "up" THEN "up" ELSE IF HasTail(p) THEN "tail" ELSE "end"
  BY DEF Link
<1>8. Link' = IF st[mine[S]] = "up" THEN "up" ELSE IF HasTail(r) THEN "tail" ELSE "end"
  BY DEF Link
<1> HIDE DEF i, a, p, r
<1>9. b \o r = a \o p
  BY <1>1, <1>3, ConcatAssociative
<1>10. b \in Seq(Byte)
  BY <1>1, <1>3, ConcatProperties
<1>11. /\ f \in Seq(Seq(Byte)) /\ w \in Seq(Seq(Byte)) /\ u \in Seq(Seq(Byte))
       /\ Len(f) \in Nat /\ Len(w) \in Nat /\ Len(f) <= Len(w)
       /\ Len(u) = Len(w) - Len(f)
       /\ u = <<>> <=> ~HasLine(p)
  BY <1>1, <1>3, SeenType
<1>12. /\ q \in Seq(Seq(Byte)) /\ Len(q) \in Nat /\ Len(q) <= Len(w)
       /\ Len(w) = Len(q) <=> ~HasLine(r)
       /\ SubSeq(w, 1, Len(q)) = q
  <2>1. q \in Seq(Seq(Byte)) /\ Len(q) \in Nat
    BY <1>10, LinesType
  <2>2. /\ Len(LinesOf(b)) <= Len(LinesOf(b \o r))
        /\ SubSeq(LinesOf(b \o r), 1, Len(LinesOf(b))) = LinesOf(b)
        /\ Len(LinesOf(b \o r)) = Len(LinesOf(b)) <=> ~HasLine(r)
    <3> HIDE DEF b
    <3> QED BY <1>1, <1>10, LinesOfPiece
  <2> QED BY <1>9, <2>1, <2>2, Zenon
<1>13. Len(f) <= Len(q) /\ SubSeq(w, 1, Len(f)) = f /\ (Len(f) = Len(q) => f = q)
  <2>1. Len(f) <= Len(q) /\ SubSeq(q, 1, Len(f)) = f
    BY <1>1, <1>3, LinesOfPiece
  <2>2. SubSeq(w, 1, Len(f)) = f
    BY <1>1, <1>3, LinesOfPiece
  <2> HIDE DEF q, f
  <2>3. SubSeq(q, 1, Len(q)) = q
    BY <1>12, SubSeqFull
  <2> QED BY <2>1, <2>2, <2>3
<1> HIDE DEF b, q, w, f
<1>0. /\ Len(f) \in Nat /\ Len(q) \in Nat /\ Len(w) \in Nat
      /\ Len(f) <= Len(q) /\ Len(q) <= Len(w) /\ Len(u) = Len(w) - Len(f)
  BY <1>11, <1>12, <1>13, Zenon
<1>14. /\ SubSeq(w, Len(q) + 1, Len(w)) = SubSeq(u, n + 1, Len(u))
       /\ SubSeq(w, 1, Len(q)) = SubSeq(w, 1, Len(f)) \o SubSeq(u, 1, n)
  <2>1. Len(f) \in 0 .. Len(w) /\ Len(q) \in Len(f) .. Len(w)
    BY <1>0
  <2> QED BY <1>11, <2>1, PieceOfPiece
<1>15. q = f \o SubSeq(u, 1, n)
  BY <1>12, <1>13, <1>14, Zenon
<1> HIDE DEF u
<1>16. n \in 0 .. Len(u) /\ Len(u) \in Nat /\ (n = 0 => Len(f) = Len(q)) /\ (Len(w) = Len(q) => n = Len(u))
  BY <1>0
<1> HIDE DEF n
<1>17. HasLine(<<>>) = FALSE /\ HasTail(<<>>) = FALSE
  BY DEF HasLine, HasTail
<1>18. connected'[S] = (connected[S] /\ ~(Link = "end" /\ u = <<>>))
  <2>1. p = <<>> <=> ~HasTail(p) /\ ~HasLine(p)
    <3>1. ASSUME p # <<>>, p[Len(p)] = NL PROVE HasLine(p)
      <4>1. Len(p) \in 1 .. Len(p)
        BY <1>1, <3>1, LenProperties, EmptySeq
      <4> QED BY <3>1, <4>1 DEF HasLine
    <3> QED BY <1>17, <3>1 DEF HasTail
  <2>2. SeesEnd(S) <=> Link = "end" /\ u = <<>>
    BY <1>5, <1>7, <1>11, <2>1
  <2> QED BY <1>6, <2>2
<1>19. Link' = Link \/ (Link = "tail" /\ n = Len(u) /\ Link' = "end")
  <2>1. CASE r = <<>>
    <3>1. n = Len(u)
      BY <1>12, <1>16, <1>17, <2>1
    <3>2. ~HasTail(r)
      BY <1>17, <2>1
    <3> QED BY <1>7, <1>8, <3>1, <3>2
  <2>2. CASE r # <<>>
    <3>1. HasTail(p) <=> HasTail(r)
      BY <1>1, <2>2, EndsLike
    <3> QED BY <1>7, <1>8, <3>1
  <2> QED BY <2>1, <2>2
<1>20. n = 0 => q = f
  BY <1>13, <1>16
<1> QED
  BY <1>1, <1>4, <1>9, <1>10, <1>14, <1>15, <1>16, <1>18, <1>19, <1>20, Zenon DEF i, a, p, r, b, q, w, f, n, u

---------------------------------------------------------------------------
(* The steps, seen by lines. *)

\* An empty buffer has no line.
LEMMA LinesOfNone == LinesOf(<<>>) = <<>>
<1>1. <<>> \in Seq(Byte) /\ Len(<<>>) = 0
  OBVIOUS
<1>2. Cut(<<>>)[0] = [done |-> <<>>, part |-> <<>>]
  BY <1>1, CutIs DEF Uncut
<1>3. Cut(<<>>)[0].done = <<>>
  BY <1>2
<1> QED
  BY <1>1, <1>3 DEF LinesOf

\* Without bytes there are no lines.
LEMMA SeesNothing ==
  /\ Pending = <<>> /\ buff[S] = <<>> => OnWire = <<>> /\ InBuffer = <<>>
  /\ Pending' = <<>> /\ buff'[S] = <<>> => OnWire' = <<>> /\ InBuffer' = <<>>
<1>1. <<>> \o <<>> = <<>> /\ Len(<<>>) = 0 /\ SubSeq(<<>>, 0 + 1, 0) = <<>>
  OBVIOUS
<1> QED
  BY <1>1, LinesOfNone DEF OnWire, InBuffer, Arrived

\* Without a connection, or without bytes from the peer, recv() has nothing to return.
LEMMA NothingPending ==
  /\ mine[S] = NoConn => Pending = <<>> /\ Link = "down"
  /\ mine'[S] = NoConn => Pending' = <<>> /\ Link' = "down"
  /\ mine[S] # NoConn /\ sent[mine[S]] = <<>> /\ taken[mine[S]] = 0 => Pending = <<>>
  /\ mine'[S] # NoConn /\ sent'[mine'[S]] = <<>> /\ taken'[mine'[S]] = 0 => Pending' = <<>>
<1>1. Len(<<>>) = 0 /\ SubSeq(<<>>, 0 + 1, 0) = <<>>
  OBVIOUS
<1> QED
  BY <1>1 DEF Pending, Link

\* The script starts where LineSocket does.
LEMMA SeenInitially == LoopInit => Lined!LineInit
<1> SUFFICES ASSUME LoopInit PROVE Lined!LineInit
  OBVIOUS
<1>1. mine[S] = NoConn /\ buff[S] = <<>> /\ ~connected[S] /\ proc = "running"
  BY ReadLoopAssumption DEF LoopInit, Init
<1>2. Pending = <<>> /\ Link = "down"
  BY <1>1, NothingPending
<1>3. OnWire = <<>> /\ InBuffer = <<>>
  BY <1>1, <1>2, SeesNothing
<1>4. connected[S] = FALSE /\ (proc = "running") = TRUE
  BY <1>1, ReadLoopAssumption DEF LoopInit, Init
<1> QED
  BY <1>2, <1>3, <1>4, Zenon DEF Lined!LineInit

\* Making the socket and connecting it.
LEMMA SeenLife ==
  ASSUME LoopTypeOK, LoopTypeOK', Alone, proc = "running", New \/ Connect
  PROVE  Lined!LineNext
<1>0. S \in Sock
  BY ReadLoopAssumption
<1>1. mine[S] = NoConn /\ buff[S] = <<>> /\ \A c \in ConnId : st[c] = "free" /\ sent[c] = <<>> /\ taken[c] = 0
  <2>1. mine[S] = NoConn
    BY DEF New, Connect, Alone
  <2> QED BY <2>1, NetworkAssumption DEF Alone
<1>2. OnWire = <<>> /\ InBuffer = <<>> /\ Link = "down"
  BY <1>1, NothingPending, SeesNothing
<1>3. connected'[S] \in BOOLEAN
  BY <1>0 DEF LoopTypeOK, TypeOK
<1>4. CASE New
  <2>1. mine'[S] = NoConn /\ buff'[S] = <<>> /\ proc' = proc
    BY <1>0, <1>1, <1>4 DEF New, NewSocket, LoopTypeOK, TypeOK
  <2>2. OnWire' = <<>> /\ InBuffer' = <<>> /\ Link' = "down"
    BY <2>1, NothingPending, SeesNothing
  <2>3. (proc = "running")' = (proc = "running")
    BY <2>1
  <2>4. Lined!Create
    BY <1>2, <1>3, <2>2, <2>3 DEF Lined!Create
  <2> QED BY <2>4 DEF Lined!LineNext
<1>5. CASE Connect
  <2>1. ConnectFrom(S, table, st) /\ UNCHANGED <<buff, proc, sent, taken>>
    BY <1>5 DEF Connect, ConnectSocket, ConnectFrom
  <2>2. (proc = "running")' = (proc = "running") /\ buff'[S] = <<>>
    BY <1>1, <2>1
  <2>3. ASSUME NEW c \in ConnId, NEW up \in BOOLEAN,
               st' = [st EXCEPT ![c] = IF up THEN "up" ELSE "new"],
               connected' = [connected EXCEPT ![S] = up],
               mine' = [mine EXCEPT ![S] = c]
        PROVE  Lined!Connect
    <3>1. mine'[S] = c /\ c # NoConn /\ connected'[S] = up
          /\ st'[c] = IF up THEN "up" ELSE "new"
      BY <1>0, <2>3, NetworkAssumption DEF LoopTypeOK, TypeOK, NetTypeOK
    <3>2. Pending' = <<>>
      BY <1>1, <2>1, <3>1, NothingPending
    <3>3. OnWire' = <<>> /\ InBuffer' = <<>>
      BY <2>2, <3>2, SeesNothing
    <3>4. Link' = IF up THEN "up" ELSE "end"
      BY <3>1, <3>2 DEF Link, HasTail
    <3> QED
      BY <1>2, <1>3, <2>2, <3>1, <3>3, <3>4 DEF Lined!Connect
  <2>4. ASSUME mine' = [mine EXCEPT ![S] = NoConn] PROVE Lined!Create
    <3>1. mine'[S] = NoConn
      BY <1>0, <2>4 DEF LoopTypeOK, TypeOK
    <3>2. OnWire' = <<>> /\ InBuffer' = <<>> /\ Link' = "down"
      BY <2>2, <3>1, NothingPending, SeesNothing
    <3> QED BY <1>2, <1>3, <2>2, <3>2 DEF Lined!Create
  <2>5. Lined!Connect \/ Lined!Create
    BY <2>1, <2>3, <2>4 DEF ConnectFrom
  <2> QED BY <2>5 DEF Lined!LineNext
<1> QED
  BY <1>4, <1>5

\* Nothing a line is seen by has changed.
LEMMA Unseen ==
  ASSUME UNCHANGED <<st, sent, taken, buff, mine>>
  PROVE  UNCHANGED <<OnWire, InBuffer, Link>>
  BY DEF OnWire, InBuffer, Link, Arrived, Pending

\* write_line() leaves the lines alone.
LEMMA SeenWrite ==
  ASSUME LoopTypeOK, LoopTypeOK', Alone, proc = "running", NEW from, NEW to,
         from \notin {"new", "connect"}, WriteLine(from, to)
  PROVE  [Lined!LineNext]_(Lined!lineVars)
<1>0. S \in Sock
  BY ReadLoopAssumption
<1>1. CASE ~connected[S]
  <2>1. UNCHANGED <<st, sent, taken, buff, mine, connected, proc>>
    BY <1>1 DEF WriteLine, vars, netVars, objVars, histVars
  <2> QED
    BY <2>1, Unseen DEF Lined!lineVars
<1>2. CASE connected[S]
  <2>1. UNCHANGED <<st, sent, taken, buff, mine>> /\ Send(S, TRUE) /\ pc = from
    BY <1>2 DEF WriteLine, Write
  <2>2. UNCHANGED <<OnWire, InBuffer, Link>>
    BY <2>1, Unseen
  <2>3. mine[S] # NoConn
    BY <1>2, <2>1 DEF Alone
  <2>4. ConnOf(S) = mine[S]
    BY <2>3, Reaches
  <2>5. connected'[S] \in BOOLEAN
    BY <1>0 DEF LoopTypeOK, TypeOK
  <2>6. proc' = proc \/ st[mine[S]] # "up"
    BY <2>1, <2>3, <2>4 DEF Send, Writable
  <2>7. (proc = "running")' \in IF Link \in {"tail", "end"} THEN BOOLEAN ELSE {TRUE}
    BY <2>3, <2>6 DEF Link
  <2>8. Lined!WriteLine
    BY <1>2, <2>2, <2>5, <2>7 DEF Lined!WriteLine
  <2> QED BY <2>8 DEF Lined!LineNext
<1> QED
  BY <1>1, <1>2

\* The types of what a program that reads by lines sees.
LEMMA WireType ==
  ASSUME LoopTypeOK, Alone
  PROVE  OnWire \in Seq(Seq(Byte)) /\ InBuffer \in Seq(Seq(Byte)) /\ Pending \in Seq(Byte)
<1>1. buff[S] \in Seq(Byte)
  BY ReadLoopAssumption DEF LoopTypeOK, TypeOK
<1>2. Pending \in Seq(Byte)
  <2>1. CASE mine[S] = NoConn
    BY <2>1 DEF Pending
  <2>2. CASE mine[S] # NoConn
    <3> DEFINE x == sent[mine[S]]
               t == taken[mine[S]]
    <3>1. mine[S] \in ConnId
      BY <2>2, Reaches
    <3>2. x \in Seq(Byte) /\ t \in Nat /\ t <= Len(x)
      BY <3>1 DEF LoopTypeOK, TypeOK, NetTypeOK
    <3> HIDE DEF x, t
    <3>3. t + 1 \in 1 .. Len(x) + 1 /\ Len(x) \in 0 .. Len(x)
      BY <3>2, LenProperties
    <3>4. SubSeq(x, t + 1, Len(x)) \in Seq(Byte)
      BY <3>2, <3>3, PieceType
    <3> QED BY <2>2, <3>4 DEF Pending, x, t
  <2> QED BY <2>1, <2>2
<1> QED
  BY <1>1, <1>2, SeenType DEF OnWire, InBuffer, Arrived

\* can_getline() completes lines, or is not seen.
LEMMA SeenCanGetLine ==
  ASSUME LoopTypeOK, Alone, proc = "running", CanGetLine
  PROVE  [Lined!LineNext]_(Lined!lineVars)
<1> DEFINE b == buff[S] \o Incoming(S)
           q == LinesOf(b)
           n == Len(q) - Len(InBuffer)
           w == OnWire
           f == InBuffer
<1>0. S \in Sock
  BY ReadLoopAssumption
<1>1. pc = "poll" /\ Poll(S) /\ mine[S] # NoConn
  BY DEF CanGetLine, Alone
<1>2. Bufferize(S) /\ UNCHANGED <<st, sent, mine>> /\ buff' = [buff EXCEPT ![S] = @ \o Incoming(S)]
  BY <1>1 DEF Poll
<1>3. buff'[S] = b
  BY <1>0, <1>2 DEF LoopTypeOK, TypeOK
<1>4. UNCHANGED proc
  BY <1>1, <1>2, Reads
<1>5. /\ b \in Seq(Byte) /\ Pending' \in Seq(Byte)
      /\ b \o Pending' = buff[S] \o Pending
      /\ n \in 0 .. Len(w) /\ Len(w) \in Nat
      /\ n = 0 => q = f
      /\ q = f \o SubSeq(w, 1, n)
      /\ SubSeq(Arrived, Len(q) + 1, Len(Arrived)) = SubSeq(w, n + 1, Len(w))
      /\ connected'[S] = (connected[S] /\ ~(Link = "end" /\ w = <<>>))
      /\ Link' = Link \/ (Link = "tail" /\ n = Len(w) /\ Link' = "end")
  BY <1>1, <1>2, ReadSeen
<1>6. InBuffer' = q
  BY <1>3 DEF InBuffer
<1>7. OnWire' = SubSeq(w, n + 1, Len(w))
  <2>1. Arrived' = Arrived
    BY <1>3, <1>5 DEF Arrived
  <2>2. OnWire' = SubSeq(Arrived, Len(q) + 1, Len(Arrived))
    BY <1>6, <2>1 DEF OnWire
  <2> QED BY <1>5, <2>2, Zenon
<1>8. (proc = "running")' = (proc = "running")
  BY <1>4
<1>9. w \in Seq(Seq(Byte))
  BY <1>1, WireType
<1> HIDE DEF b, q, n, w, f
<1>10. w = <<>> <=> Len(w) = 0
  BY <1>9, EmptySeq
<1>11. CASE n = 0 /\ (w # <<>> \/ (Link = "tail" /\ f = <<>> /\ Link' = Link))
  <2>1. OnWire' = w
    BY <1>7, <1>9, <1>11, SubSeqFull
  <2>2. InBuffer' = f
    BY <1>5, <1>6, <1>11
  <2>3. Link' = Link
    BY <1>5, <1>10, <1>11
  <2>4. connected'[S] = connected[S]
    <3>1. ~(Link = "end" /\ w = <<>>)
      BY <1>11
    <3>2. connected[S] \in BOOLEAN
      BY <1>0 DEF LoopTypeOK, TypeOK
    <3> QED BY <1>5, <3>1, <3>2
  <2> QED
    BY <1>8, <2>1, <2>2, <2>3, <2>4 DEF Lined!lineVars, w, f
<1>12. CASE ~(n = 0 /\ (w # <<>> \/ (Link = "tail" /\ f = <<>> /\ Link' = Link)))
  <2>1. n \in Lined!Chunk
    BY <1>5, <1>10, <1>12 DEF Lined!Chunk, w, f
  <2>2. Lined!Bufferize(n)
    <3>1. Link' = Link => (Link = "tail" => w # <<>> \/ f # <<>>)
      BY <1>5, <1>10, <1>12
    <3> QED
      BY <1>5, <1>7, <1>8, <3>1 DEF Lined!Bufferize, w, f
  <2>3. InBuffer' = Lined!Buffered(n)
    BY <1>5, <1>6 DEF Lined!Buffered, w, f
  <2>4. Lined!CanGetLine
    BY <2>1, <2>2, <2>3 DEF Lined!CanGetLine
  <2> QED BY <2>4 DEF Lined!LineNext
<1> QED
  BY <1>11, <1>12

\* A buffer with a '\n' has a line.
LEMMA HasSomeLine ==
  ASSUME NEW b \in Seq(Byte), HasLine(b)
  PROVE  LinesOf(b) # <<>>
<1>1. <<>> \in Seq(Byte) /\ <<>> \o b = b
  OBVIOUS
<1>2. Len(LinesOf(<<>> \o b)) = Len(LinesOf(<<>>)) <=> ~HasLine(b)
  BY <1>1, LinesOfPiece
<1> QED
  BY <1>1, <1>2, LinesOfNone

\* What arrives behind a complete line does not change it.
LEMMA LineOfPiece ==
  ASSUME NEW b \in Seq(Byte), NEW r \in Seq(Byte), HasLine(b)
  PROVE  /\ HasLine(b \o r) /\ LineEnd(b \o r) = LineEnd(b)
         /\ SubSeq(b, LineEnd(b) + 1, Len(b)) \in Seq(Byte)
         /\ SubSeq(b \o r, LineEnd(b \o r) + 1, Len(b \o r))
              = SubSeq(b, LineEnd(b) + 1, Len(b)) \o r
<1> DEFINE w == b \o r
           e == LineEnd(b)
           d == LineEnd(w)
           n == Len(b)
           m == Len(w)
           u == SubSeq(w, e + 1, m)
           v == SubSeq(b, e + 1, n)
           c == v \o r
<1>1. n \in Nat /\ Len(r) \in Nat
  BY LenProperties
<1>2. w \in Seq(Byte) /\ m = n + Len(r)
      /\ \A j \in 1 .. n + Len(r) : w[j] = IF j <= n THEN b[j] ELSE r[j - n]
  BY ConcatProperties
<1>3. e \in 1 .. n /\ b[e] = NL /\ \A j \in 1 .. e - 1 : b[j] # NL
  BY LineEndIsFirst
<1> HIDE DEF w, e, n
<1>4. HasLine(w)
  <2>1. e \in 1 .. Len(w) /\ w[e] = NL
    BY <1>1, <1>2, <1>3
  <2> QED BY <2>1 DEF HasLine
<1>5. d \in 1 .. m /\ w[d] = NL /\ \A j \in 1 .. d - 1 : w[j] # NL
  BY <1>2, <1>4, LineEndIsFirst
<1> HIDE DEF d, m
<1>6. d = e
  <2>1. w[e] = NL /\ e \in 1 .. m
    BY <1>1, <1>2, <1>3
  <2>2. ~(e < d)
    BY <1>1, <1>2, <1>3, <1>5, <2>1
  <2>3. \A j \in 1 .. e - 1 : w[j] = b[j]
    BY <1>1, <1>2, <1>3
  <2>4. ~(d < e)
    BY <1>1, <1>2, <1>3, <1>5, <2>3
  <2> QED BY <1>1, <1>2, <1>3, <1>5, <2>2, <2>4
<1>7. e + 1 \in 1 .. m + 1 /\ m \in (e + 1) - 1 .. m /\ e + 1 \in 1 .. n + 1 /\ n \in (e + 1) - 1 .. n
  BY <1>1, <1>2, <1>3
<1>8. u \in Seq(Byte) /\ Len(u) = m - (e + 1) + 1
      /\ \A i \in 1 .. m - (e + 1) + 1 : u[i] = w[(e + 1) + i - 1]
  BY <1>2, <1>7, PieceIs, Zenon DEF m
<1>9. v \in Seq(Byte) /\ Len(v) = n - (e + 1) + 1
      /\ \A i \in 1 .. n - (e + 1) + 1 : v[i] = b[(e + 1) + i - 1]
  BY <1>7, PieceIs, Zenon DEF n
<1> HIDE DEF u, v
<1>10. Len(v) = n - e /\ Len(u) = (n - e) + Len(r) /\ Len(u) = m - e
  BY <1>1, <1>2, <1>3, <1>8, <1>9
<1>11. c \in Seq(Byte) /\ Len(c) = Len(v) + Len(r)
       /\ \A i \in 1 .. Len(v) + Len(r) : c[i] = IF i <= Len(v) THEN v[i] ELSE r[i - Len(v)]
  BY <1>9, ConcatProperties
<1> HIDE DEF c
<1>12. \A i \in 1 .. Len(u) : u[i] = c[i]
  <2> SUFFICES ASSUME NEW i \in 1 .. (n - e) + Len(r) PROVE u[i] = c[i]
    BY <1>10
  <2>0. n \in Int /\ e \in Int /\ Len(r) \in Int
    BY <1>1, <1>3
  <2>1. u[i] = w[e + i]
    <3>1. i \in 1 .. m - (e + 1) + 1 /\ (e + 1) + i - 1 = e + i
      BY <1>2, <2>0
    <3> QED BY <1>8, <3>1
  <2>2. c[i] = IF i <= n - e THEN v[i] ELSE r[i - (n - e)]
    BY <1>10, <1>11
  <2>3. w[e + i] = IF e + i <= n THEN b[e + i] ELSE r[(e + i) - n]
    <3>1. e + i \in 1 .. n + Len(r)
      BY <1>3, <2>0
    <3> QED BY <1>2, <3>1
  <2>4. CASE i <= n - e
    <3>1. i \in 1 .. n - (e + 1) + 1 /\ (e + 1) + i - 1 = e + i /\ e + i <= n
      BY <2>0, <2>4
    <3>2. v[i] = b[e + i]
      BY <1>9, <3>1
    <3> QED BY <2>1, <2>2, <2>3, <2>4, <3>1, <3>2
  <2>5. CASE ~(i <= n - e)
    <3>1. ~(e + i <= n) /\ (e + i) - n = i - (n - e)
      BY <2>0, <2>5
    <3> QED BY <2>1, <2>2, <2>3, <2>5, <3>1
  <2> QED BY <2>4, <2>5
<1>13. u = c
  BY <1>8, <1>10, <1>11, <1>12, SeqEqual
<1> QED
  BY <1>4, <1>6, <1>9, <1>13 DEF w, e, d, n, m, u, v, c

\* getline() takes the first line of the buffer.
LEMMA SeenPrintLine ==
  ASSUME LoopTypeOK, LoopInv, Alone, proc = "running", PrintLine
  PROVE  [Lined!LineNext]_(Lined!lineVars)
<1> DEFINE i == Incoming(S)
           b == buff[S] \o i
           q == LinesOf(b)
           n == Len(q) - Len(InBuffer)
           w == OnWire
           f == InBuffer
           r == Pending'
           A == Arrived
<1>0. S \in Sock
  BY ReadLoopAssumption
<1>1. pc = "get" /\ GetLine(S) /\ mine[S] # NoConn /\ HasLine(buff[S])
  BY DEF PrintLine, Alone, LoopInv, LineIsReady
<1>2. Bufferize(S) /\ UNCHANGED <<st, sent, mine>>
  BY <1>1 DEF GetLine
<1>3. buff[S] \in Seq(Byte) /\ i \in Seq(Byte)
  BY <1>0, <1>1, <1>2, PendingRead DEF LoopTypeOK, TypeOK
<1>4. HasLine(b)
  <2> HIDE DEF i
  <2> QED BY <1>1, <1>3, LineOfPiece
<1>5. buff'[S] = SubSeq(b, LineEnd(b) + 1, Len(b))
  BY <1>0, <1>1, <1>4 DEF GetLine, LoopTypeOK, TypeOK
<1>6. UNCHANGED proc
  BY <1>1, <1>2, Reads
<1>7. /\ b \in Seq(Byte) /\ r \in Seq(Byte)
      /\ b \o r = buff[S] \o Pending
      /\ n \in 0 .. Len(w) /\ Len(w) \in Nat
      /\ q = f \o SubSeq(w, 1, n)
      /\ SubSeq(A, Len(q) + 1, Len(A)) = SubSeq(w, n + 1, Len(w))
      /\ connected'[S] = (connected[S] /\ ~(Link = "end" /\ w = <<>>))
      /\ Link' = Link \/ (Link = "tail" /\ n = Len(w) /\ Link' = "end")
  BY <1>1, <1>2, ReadSeen
<1>8. f # <<>>
  BY <1>1, <1>3, HasSomeLine DEF InBuffer
<1>9. w \in Seq(Seq(Byte))
  BY WireType
<1> HIDE DEF b, r
<1>10. q # <<>> /\ q \in Seq(Seq(Byte)) /\ A = LinesOf(b \o r) /\ A \in Seq(Seq(Byte)) /\ Len(q) <= Len(A)
  <2>1. q # <<>>
    BY <1>4, <1>7, HasSomeLine
  <2>2. /\ q \in Seq(Seq(Byte)) /\ LinesOf(b \o r) \in Seq(Seq(Byte))
        /\ Len(q) <= Len(LinesOf(b \o r))
    BY <1>7, SeenType
  <2>3. A = LinesOf(b \o r)
    BY <1>7 DEF Arrived
  <2> QED BY <2>1, <2>2, <2>3
<1>11. InBuffer' = Tail(q)
  BY <1>4, <1>5, <1>7, LinesAfterFirst DEF InBuffer
<1>12. Arrived' = Tail(A)
  <2>1. /\ HasLine(b \o r)
        /\ SubSeq(b \o r, LineEnd(b \o r) + 1, Len(b \o r)) = SubSeq(b, LineEnd(b) + 1, Len(b)) \o r
    BY <1>4, <1>7, LineOfPiece
  <2>2. b \o r \in Seq(Byte)
    BY <1>7, ConcatProperties
  <2>3. LinesOf(SubSeq(b \o r, LineEnd(b \o r) + 1, Len(b \o r))) = Tail(LinesOf(b \o r))
    BY <2>1, <2>2, LinesAfterFirst
  <2>4. Arrived' = LinesOf(SubSeq(b, LineEnd(b) + 1, Len(b)) \o r)
    BY <1>5 DEF Arrived, r
  <2> QED BY <1>10, <2>1, <2>3, <2>4
<1> HIDE DEF q, n, w, f, A
<1>13. OnWire' = SubSeq(w, n + 1, Len(w))
  <2>1. OnWire' = SubSeq(Tail(A), Len(Tail(q)) + 1, Len(Tail(A)))
    BY <1>11, <1>12 DEF OnWire
  <2>2. SubSeq(Tail(A), Len(Tail(q)) + 1, Len(Tail(A))) = SubSeq(A, Len(q) + 1, Len(A))
    BY <1>10, PieceOfTail
  <2> QED BY <1>7, <2>1, <2>2
<1>14. (proc = "running")' = (proc = "running")
  BY <1>6
<1>15. w = <<>> <=> Len(w) = 0
  BY <1>9, EmptySeq
<1>16. n \in Lined!Chunk
  BY <1>7, <1>8, <1>15 DEF Lined!Chunk, w, f
<1>17. Lined!Bufferize(n)
  BY <1>7, <1>8, <1>13, <1>14 DEF Lined!Bufferize, w, f
<1>18. Lined!Buffered(n) = q
  BY <1>7 DEF Lined!Buffered, w, f
<1>19. Lined!GetLine
  BY <1>10, <1>11, <1>16, <1>17, <1>18 DEF Lined!GetLine
<1> QED
  BY <1>19 DEF Lined!LineNext

\* What follows the first k grows like the whole.
LEMMA PieceGrows ==
  ASSUME NEW T, NEW q \in Seq(T), NEW x \in T, NEW k \in Nat, k <= Len(q)
  PROVE  SubSeq(Append(q, x), k + 1, Len(Append(q, x))) = Append(SubSeq(q, k + 1, Len(q)), x)
<1> DEFINE a == Append(q, x)
           n == Len(q)
           u == SubSeq(a, k + 1, n + 1)
           v == SubSeq(q, k + 1, n)
           c == Append(v, x)
<1>1. n \in Nat
  BY LenProperties
<1>2. a \in Seq(T) /\ Len(a) = n + 1 /\ (\A i \in 1 .. n : a[i] = q[i]) /\ a[n + 1] = x
  BY AppendProperties
<1>3. k + 1 \in 1 .. n + 1 /\ n \in (k + 1) - 1 .. n
      /\ k + 1 \in 1 .. (n + 1) + 1 /\ n + 1 \in (k + 1) - 1 .. n + 1
  BY <1>1
<1>4. v \in Seq(T) /\ Len(v) = n - (k + 1) + 1 /\ \A i \in 1 .. n - (k + 1) + 1 : v[i] = q[(k + 1) + i - 1]
  BY <1>3, PieceIs, Zenon
<1> HIDE DEF a, n, v
<1>5. k + 1 \in 1 .. Len(a) + 1 /\ n + 1 \in (k + 1) - 1 .. Len(a)
  BY <1>2, <1>3
<1>6. u \in Seq(T) /\ Len(u) = (n + 1) - (k + 1) + 1
      /\ \A i \in 1 .. (n + 1) - (k + 1) + 1 : u[i] = a[(k + 1) + i - 1]
  BY <1>2, <1>5, PieceIs, Zenon
<1>7. Len(v) = n - k
  BY <1>1, <1>4
<1>8. c \in Seq(T) /\ Len(c) = Len(v) + 1 /\ (\A i \in 1 .. Len(v) : c[i] = v[i]) /\ c[Len(v) + 1] = x
  BY <1>4, AppendProperties
<1> HIDE DEF u, c
<1>9. Len(u) = (n - k) + 1 /\ Len(c) = (n - k) + 1
  BY <1>1, <1>6, <1>7, <1>8
<1>10. \A i \in 1 .. (n - k) + 1 : u[i] = c[i]
  <2> SUFFICES ASSUME NEW i \in 1 .. (n - k) + 1 PROVE u[i] = c[i]
    OBVIOUS
  <2>1. u[i] = a[k + i]
    <3>1. i \in 1 .. (n + 1) - (k + 1) + 1 /\ (k + 1) + i - 1 = k + i
      BY <1>1
    <3> QED BY <1>6, <3>1
  <2>2. CASE i <= n - k
    <3>1. /\ i \in 1 .. n - (k + 1) + 1 /\ (k + 1) + i - 1 = k + i
          /\ k + i \in 1 .. n /\ i \in 1 .. n - k
      BY <1>1, <2>2
    <3>2. v[i] = q[k + i] /\ c[i] = v[i]
      BY <1>4, <1>7, <1>8, <3>1
    <3> QED BY <1>2, <2>1, <3>1, <3>2
  <2>3. CASE ~(i <= n - k)
    <3>1. i = (n - k) + 1 /\ k + i = n + 1
      BY <1>1, <2>3
    <3> QED BY <1>2, <1>7, <1>8, <2>1, <3>1
  <2> QED BY <2>2, <2>3
<1>11. u = c
  BY <1>6, <1>8, <1>9, <1>10, SeqEqual
<1> QED
  BY <1>2, <1>11 DEF u, v, c, a, n

\* A byte that arrives is appended to all the bytes.
LEMMA AppendAfter ==
  ASSUME NEW T, NEW a \in Seq(T), NEW p \in Seq(T), NEW x \in T
  PROVE  a \o Append(p, x) = Append(a \o p, x) /\ a \o p \in Seq(T)
<1>1. a \o p \in Seq(T) /\ <<x>> \in Seq(T)
  BY ConcatProperties
<1>2. Append(p, x) = p \o <<x>> /\ Append(a \o p, x) = (a \o p) \o <<x>>
  BY <1>1, AppendIsConcat
<1>3. a \o (p \o <<x>>) = (a \o p) \o <<x>>
  BY <1>1, ConcatAssociative
<1> QED
  BY <1>1, <1>2, <1>3

\* A '\n' of the peer makes a line arrive, another byte is not seen.
LEMMA SeenSend ==
  ASSUME LoopTypeOK, Alone, proc = "running", mine[S] # NoConn, NEW x \in Byte,
         PeerSends(mine[S], x), UNCHANGED <<connected, buff, proc, mine>>
  PROVE  [Lined!LineNext]_(Lined!lineVars)
<1> DEFINE a == buff[S]
           p == Pending
           f == InBuffer
           A == Arrived
           w == OnWire
           c == mine[S]
<1>1. c \in ConnId
  BY Reaches
<1>2. st[c] = "up" /\ UNCHANGED <<st, taken>> /\ sent'[c] = Append(sent[c], x)
  BY <1>1 DEF PeerSends, LoopTypeOK, TypeOK, NetTypeOK
<1>3. sent[c] \in Seq(Byte) /\ taken[c] \in Nat /\ taken[c] <= Len(sent[c])
  BY <1>1 DEF LoopTypeOK, TypeOK, NetTypeOK
<1>4. Pending' = Append(p, x)
  <2>1. p = SubSeq(sent[c], taken[c] + 1, Len(sent[c]))
        /\ Pending' = SubSeq(Append(sent[c], x), taken[c] + 1, Len(Append(sent[c], x)))
    BY <1>2 DEF Pending
  <2> HIDE DEF p, c
  <2> QED BY <1>3, <2>1, PieceGrows
<1>5. a \in Seq(Byte) /\ p \in Seq(Byte) /\ w \in Seq(Seq(Byte))
  BY ReadLoopAssumption, WireType DEF LoopTypeOK, TypeOK
<1>6. f = LinesOf(a) /\ A = LinesOf(a \o p) /\ w = SubSeq(A, Len(f) + 1, Len(A))
      /\ InBuffer' = f /\ Arrived' = LinesOf(a \o Append(p, x))
      /\ OnWire' = SubSeq(Arrived', Len(f) + 1, Len(Arrived'))
  BY <1>4 DEF InBuffer, Arrived, OnWire
<1>7. Link = "up" /\ Link' = "up"
  BY <1>2 DEF Link
<1>8. (proc = "running")' = (proc = "running") /\ connected'[S] = connected[S]
  OBVIOUS
<1> HIDE DEF a, p, f, A, w, c
<1>9. a \o Append(p, x) = Append(a \o p, x) /\ a \o p \in Seq(Byte)
  BY <1>5, AppendAfter
<1>10. f \in Seq(Seq(Byte)) /\ A \in Seq(Seq(Byte)) /\ Len(f) \in Nat /\ Len(f) <= Len(A)
  BY <1>5, <1>6, SeenType
<1>11. CASE x # NL
  <2>1. Arrived' = A
    BY <1>6, <1>9, <1>11, LinesOfOneMore
  <2> QED
    BY <1>6, <1>7, <1>8, <2>1 DEF Lined!lineVars, f, w
<1>12. CASE x = NL
  <2>1. PICK l \in Seq(Byte) : Arrived' = Append(A, l)
    <3>1. \E l \in Seq(Byte) : LinesOf(Append(a \o p, x)) = Append(LinesOf(a \o p), l)
      BY <1>9, <1>12, LinesOfOneMore
    <3> QED BY <1>6, <1>9, <3>1
  <2>2. OnWire' = Append(w, l)
    BY <1>6, <1>10, <2>1, PieceGrows
  <2>3. Len(OnWire') > Len(w) /\ OnWire'[Len(OnWire')] = l
    BY <1>5, <2>2, AppendProperties, LenProperties
  <2>4. Lined!PeerLine(l)
    BY <1>6, <1>7, <1>8, <2>2 DEF Lined!PeerLine, f, w
  <2> QED
    BY <2>3, <2>4 DEF Lined!LineNext, w
<1> QED
  BY <1>11, <1>12

\* What the peer does is seen as a line, as the end, or not at all.
LEMMA SeenPeer ==
  ASSUME LoopTypeOK, Alone, Alone', PeerStep, UNCHANGED pc
  PROVE  [Lined!LineNext]_(Lined!lineVars)
<1> DEFINE c == mine[S]
<1>1. UNCHANGED <<connected, buff, proc, mine>> /\ Peer
  BY DEF PeerStep, objVars, histVars
<1>2. PICK d \in ConnId : (\E x \in Byte : PeerSends(d, x)) \/ PeerCloses(d) \/ PeerResets(d)
  BY <1>1 DEF Peer
<1>3. st[d] \in {"up", "fin"}
  BY <1>2 DEF PeerSends, PeerCloses, PeerResets
<1>4. d = c /\ c # NoConn /\ c \in ConnId
  BY <1>3, NetworkAssumption DEF Alone
<1>5. proc = "running"
  <2>1. proc # "killed"
    BY <1>3, <1>4 DEF Alone
  <2> QED BY <2>1 DEF LoopTypeOK, TypeOK
<1>6. (proc = "running")' = (proc = "running") /\ connected'[S] = connected[S] /\ InBuffer' = InBuffer
  BY <1>1 DEF InBuffer
<1>7. Link # "down" /\ (Link = "end" => st[c] # "up")
  BY <1>4 DEF Link
<1>8. ASSUME UNCHANGED <<sent, taken>>, st'[c] # "up" PROVE Lined!PeerEnd
  <2>1. Pending' = Pending /\ OnWire' = OnWire
    BY <1>1, <1>8 DEF Pending, OnWire, Arrived, InBuffer
  <2>2. Link' \in {"tail", "end"} /\ (Link = "end" => Link' = "end")
    BY <1>1, <1>4, <1>8, <2>1 DEF Link
  <2> QED
    BY <1>6, <1>7, <2>1, <2>2 DEF Lined!PeerEnd
<1>9. CASE \E x \in Byte : PeerSends(c, x)
  BY <1>1, <1>4, <1>5, <1>9, SeenSend
<1>10. CASE PeerCloses(c)
  <2>1. UNCHANGED <<sent, taken>> /\ st'[c] # "up"
    BY <1>4, <1>10 DEF PeerCloses, LoopTypeOK, TypeOK, NetTypeOK
  <2> QED BY <1>5, <1>8, <2>1 DEF Lined!LineNext
<1>11. CASE PeerResets(c)
  <2>1. UNCHANGED taken /\ st'[c] = "rst"
    BY <1>4, <1>11 DEF PeerResets, LoopTypeOK, TypeOK, NetTypeOK
  <2>2. CASE sent' = sent
    BY <1>5, <1>8, <2>1, <2>2 DEF Lined!LineNext
  <2>3. CASE sent' = [sent EXCEPT ![c] = SubSeq(@, 1, taken[c])]
    <3> DEFINE t == taken[c]
               s == SubSeq(sent[c], 1, t)
    <3>1. t \in Nat /\ t <= Len(sent[c]) /\ sent[c] \in Seq(Byte) /\ sent'[c] = s
      BY <1>4, <2>3 DEF LoopTypeOK, TypeOK, NetTypeOK
    <3> HIDE DEF t
    <3>2. 1 \in 1 .. Len(sent[c]) + 1 /\ t \in 1 - 1 .. Len(sent[c])
      BY <3>1, LenProperties
    <3>3. s \in Seq(Byte) /\ Len(s) = t
      <4>1. s \in Seq(Byte) /\ Len(s) = t - 1 + 1
        BY <3>1, <3>2, PieceIs, Zenon
      <4> QED BY <3>1, <4>1
    <3> HIDE DEF s
    <3>4. SubSeq(s, t + 1, t) = <<>>
      <4>1. t + 1 \in 1 .. Len(s) + 1 /\ t \in (t + 1) - 1 .. Len(s) /\ t - (t + 1) + 1 = 0
        BY <3>1, <3>3
      <4>2. SubSeq(s, t + 1, t) \in Seq(Byte) /\ Len(SubSeq(s, t + 1, t)) = t - (t + 1) + 1
        BY <3>3, <4>1, PieceIs, Zenon
      <4> QED BY <4>1, <4>2, EmptySeq
    <3>5. Pending' = <<>>
      <4>1. Pending' = SubSeq(s, t + 1, Len(s))
        BY <1>1, <1>4, <2>1, <3>1 DEF Pending, t
      <4> QED BY <3>3, <3>4, <4>1
    <3>6. InBuffer \in Seq(Seq(Byte)) /\ buff[S] \in Seq(Byte)
      BY ReadLoopAssumption, WireType DEF LoopTypeOK, TypeOK
    <3>7. Arrived' = InBuffer
      <4>1. buff[S] \o <<>> = buff[S]
        BY <3>6
      <4> QED BY <1>1, <3>5, <4>1 DEF Arrived, InBuffer
    <3>8. OnWire' = <<>>
      <4> DEFINE f == InBuffer
                 m == Len(f)
      <4>0. OnWire' = SubSeq(f, m + 1, m)
        BY <1>6, <3>7 DEF OnWire
      <4>1. m \in Nat /\ f \in Seq(Seq(Byte))
        BY <3>6, LenProperties
      <4> HIDE DEF m, f
      <4>2. m + 1 \in 1 .. m + 1 /\ m \in (m + 1) - 1 .. m /\ m - (m + 1) + 1 = 0 /\ Len(f) = m
        BY <4>1 DEF m
      <4>3. SubSeq(f, m + 1, m) \in Seq(Seq(Byte)) /\ Len(SubSeq(f, m + 1, m)) = m - (m + 1) + 1
        BY <4>1, <4>2, PieceIs, ZenonT(30)
      <4> QED BY <4>0, <4>2, <4>3, EmptySeq
    <3>9. Link' = "end"
      BY <1>1, <1>4, <2>1, <3>5 DEF Link, HasTail
    <3>10. Lined!PeerEnd
      BY <1>6, <1>7, <3>8, <3>9 DEF Lined!PeerEnd
    <3> QED BY <1>5, <3>10 DEF Lined!LineNext
  <2> QED BY <1>11, <2>2, <2>3 DEF PeerResets
<1> QED
  BY <1>2, <1>4, <1>9, <1>10, <1>11

\* Every step is one of LineSocket or is not seen.
LEMMA SeenStep ==
  ASSUME LoopTypeOK, LoopTypeOK', LoopInv, Alone, Alone', [LoopNext]_loopVars
  PROVE  [Lined!LineNext]_(Lined!lineVars)
<1>1. CASE UNCHANGED loopVars \/ (proc = "running" /\ Test)
  <2>1. UNCHANGED <<st, sent, taken, buff, mine, connected, proc>>
    BY <1>1 DEF Test, loopVars, vars, netVars, objVars, histVars
  <2> QED
    BY <2>1, Unseen DEF Lined!lineVars
<1>2. CASE Script
  <2>1. proc = "running"
    BY <1>2 DEF Script
  <2>2. CASE New \/ Connect
    BY <2>1, <2>2, SeenLife
  <2>3. CASE WriteLine("nick", "user") \/ WriteLine("user", "test") \/ WriteLine("reply", "test")
    BY <2>1, <2>3, SeenWrite
  <2>4. CASE CanGetLine
    BY <2>1, <2>4, SeenCanGetLine
  <2>5. CASE PrintLine
    BY <2>1, <2>5, SeenPrintLine
  <2> QED
    BY <1>1, <1>2, <2>1, <2>2, <2>3, <2>4, <2>5 DEF Script
<1>3. CASE PeerStep /\ UNCHANGED pc
  BY <1>3, SeenPeer
<1> QED
  BY <1>1, <1>2, <1>3 DEF LoopNext

\* If the descriptor the script gets fits an fd_set, then whatever the bytes, however
\* they are cut into packets and whenever the peer ends the connection, the script sees
\* the lines that LineSocket hands to a program: every step of Client_socket and of the
\* peer is one of its steps, or is not seen.
THEOREM SeesLinesOnly ==
  ASSUME FirstFits
  PROVE  LoopSpec => ReadsByLines
<1>1. LoopTypeOK /\ Alone /\ [LoopNext]_loopVars => Alone'
  BY AloneStep
<1>2. LoopTypeOK /\ LoopTypeOK' /\ LoopInv /\ Alone /\ Alone' /\ [LoopNext]_loopVars
        => [Lined!LineNext]_(Lined!lineVars)
  BY SeenStep
<1> QED
  BY <1>1, <1>2, LoopInitInv, LoopStep, LoopTypeCorrect, AloneInitial, SeenInitially, PTL
     DEF LoopSpec, ReadsByLines, Lined!LineSpec
=============================================================================
