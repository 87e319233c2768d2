------------------------- MODULE ClientSocketProofs -------------------------
(***************************************************************************)
(* The invariants of ClientSocket and that it implements LineStream, for   *)
(* any number of objects, descriptors, connections and bytes, and why a    *)
(* careful program may share its process with others.                      *)
(***************************************************************************)
EXTENDS ClientSocketProps, SequenceTheorems, FiniteSetTheorems, TLAPS

USE DEF Time, ConnState, Message

---------------------------------------------------------------------------
(* Sequences and lines. *)

\* A piece of a sequence is a sequence of the same elements.
LEMMA PieceType ==
  ASSUME NEW T, NEW q \in Seq(T), NEW a \in 1 .. Len(q) + 1, NEW b \in 0 .. Len(q)
  PROVE  SubSeq(q, a, b) \in Seq(T)
<1>1. \A i \in a .. b : q[i] \in T
  BY ElementOfSeq
<1>2. a \in Int /\ b \in Int
  BY LenProperties
<1> QED
  BY <1>1, <1>2, SubSeqProperties

\* So many elements, from wherever they are taken.
LEMMA PieceLen ==
  ASSUME NEW T, NEW q \in Seq(T), NEW a \in Nat, NEW n \in Nat, a + n <= Len(q)
  PROVE  Len(SubSeq(q, a + 1, a + n)) = n
<1> DEFINE from == a + 1
           to == a + n
<1>1. Len(q) \in Nat /\ from \in Int /\ to \in Int /\ to = from + n - 1
  BY LenProperties
<1>2. \A i \in from .. to : q[i] \in T
  <2>1. \A i \in from .. to : i \in 1 .. Len(q)
    BY <1>1
  <2> QED
    BY <2>1, ElementOfSeq
<1> HIDE DEF from, to
<1>3. Len(SubSeq(q, from, to)) = IF from <= to THEN to - from + 1 ELSE 0
  BY <1>1, <1>2, SubSeqProperties
<1>4. Len(SubSeq(q, from, to)) = n
  BY <1>1, <1>3
<1> QED
  BY <1>4 DEF from, to

\* A set of numbers has a least one: of the intervals 1 .. i with i in the set, one
\* is not a strict superset of another.
LEMMA LeastNumber ==
  ASSUME NEW E \in SUBSET Nat, E # {}
  PROVE  \E i \in E : \A j \in E : i <= j
<1> DEFINE Intervals == {1 .. i : i \in E}
           Order == StrictSubsetOrdering(Nat)
<1>1. \A i \in E : 1 .. i \in SUBSET Nat /\ IsFiniteSet(1 .. i)
  BY FS_Interval
<1>2. Intervals \subseteq FiniteSubsetsOf(Nat) /\ Intervals # {}
  BY <1>1 DEF FiniteSubsetsOf
<1>3. IsWellFoundedOn(Order, FiniteSubsetsOf(Nat))
  BY FS_StrictSubsetOrderingWellFounded
<1>4. PICK I \in Intervals : \A J \in Intervals : <<J, I>> \notin Order
  <2> HIDE DEF Intervals, Order
  <2> QED
    BY <1>2, <1>3, WFMin
<1>5. PICK i \in E : I = 1 .. i
  OBVIOUS
<1>6. ASSUME NEW j \in E, j < i PROVE FALSE
  <2>1. 1 .. j \subseteq 1 .. i /\ i \in 1 .. i /\ i \notin 1 .. j
    BY <1>6
  <2>2. <<1 .. j, 1 .. i>> \in Order
    BY <2>1 DEF StrictSubsetOrdering
  <2> QED
    BY <1>4, <1>5, <2>2
<1> QED
  BY <1>6

\* The first '\n' that getline() looks for is there when can_getline() says so.
LEMMA LineEndIsFirst ==
  ASSUME NEW b \in Seq(Byte), HasLine(b)
  PROVE  /\ LineEnd(b) \in 1 .. Len(b)
         /\ b[LineEnd(b)] = NL
         /\ \A j \in 1 .. LineEnd(b) - 1 : b[j] # NL
<1> DEFINE Ends == {i \in 1 .. Len(b) : b[i] = NL}
<1>1. Len(b) \in Nat
  BY LenProperties
<1>2. Ends \in SUBSET Nat /\ Ends # {}
  BY <1>1 DEF HasLine
<1>3. PICK i \in Ends : \A j \in Ends : i <= j
  BY <1>2, LeastNumber
<1>5. i \in 1 .. Len(b) /\ b[i] = NL /\ \A j \in 1 .. i - 1 : b[j] # NL
  BY <1>1, <1>3
<1> QED
  BY <1>5 DEF LineEnd

\* A line handed out is a sequence of bytes.
LEMMA FirstLineType ==
  ASSUME NEW b \in Seq(Byte), HasLine(b)
  PROVE  FirstLine(b) \in Seq(Byte)
<1> DEFINE l == SubSeq(b, 1, LineEnd(b) - 1)
<1>1. LineEnd(b) \in 1 .. Len(b) /\ Len(b) \in Nat
  BY LineEndIsFirst, LenProperties
<1>2. l \in Seq(Byte)
  BY <1>1, PieceType
<1>3. Len(l) \in Nat
  BY <1>2, LenProperties
<1> HIDE DEF l
<1>4. Len(l) > 0 => SubSeq(l, 1, Len(l) - 1) \in Seq(Byte)
  BY <1>2, <1>3, PieceType
<1> QED
  BY <1>2, <1>3, <1>4 DEF FirstLine, StripCR, l

---------------------------------------------------------------------------
(* Types. *)

LEMMA InitType == Init => TypeOK
  BY NetworkAssumption, ClientSocketAssumption
     DEF Init, NetInit, TypeOK, NetTypeOK

LEMMA PeerType == TypeOK /\ PeerStep => TypeOK'
<1> SUFFICES ASSUME TypeOK, PeerStep PROVE TypeOK'
  OBVIOUS
<1> USE DEF TypeOK, NetTypeOK, objVars, histVars
<1>1. ASSUME NEW c \in ConnId, NEW b \in Byte, PeerSends(c, b) PROVE TypeOK'
  <2>1. /\ Append(sent[c], b) \in Seq(Byte)
        /\ Len(Append(sent[c], b)) = Len(sent[c]) + 1
    BY AppendProperties
  <2>2. /\ sent' \in [ConnId -> Seq(Byte)]
        /\ \A d \in ConnId : taken'[d] <= Len(sent'[d])
    BY <1>1, <2>1, LenProperties DEF PeerSends
  <2> QED
    BY <1>1, <2>2 DEF PeerSends, PeerStep
<1>2. ASSUME NEW c \in ConnId, PeerCloses(c) PROVE TypeOK'
  BY <1>2 DEF PeerCloses, PeerStep
<1>3. ASSUME NEW c \in ConnId, PeerResets(c) PROVE TypeOK'
  <2> DEFINE kept == SubSeq(sent[c], 1, taken[c])
  <2>1. /\ kept \in Seq(Byte)
        /\ Len(kept) = taken[c]
    <3>1. Len(sent[c]) \in Nat /\ \A i \in 1 .. Len(sent[c]) : sent[c][i] \in Byte
      BY LenProperties, ElementOfSeq
    <3> QED
      BY <3>1, SubSeqProperties
  <2>2. /\ sent' \in [ConnId -> Seq(Byte)]
        /\ \A d \in ConnId : taken'[d] <= Len(sent'[d])
    <3>1. taken' = taken /\ (sent' = sent \/ sent' = [sent EXCEPT ![c] = kept])
      BY <1>3 DEF PeerResets
    <3>2. taken[c] \in Nat
      OBVIOUS
    <3> HIDE DEF kept
    <3>3. CASE sent' = sent
      BY <3>1, <3>3
    <3>4. CASE sent' = [sent EXCEPT ![c] = kept]
      <4>1. sent' \in [ConnId -> Seq(Byte)]
        BY <3>4, <2>1
      <4>2. \A d \in ConnId : Len(sent'[d]) = IF d = c THEN taken[c] ELSE Len(sent[d])
        BY <3>4, <2>1
      <4> QED
        BY <3>1, <4>1, <4>2
    <3> QED
      BY <3>1, <3>3, <3>4
  <2> QED
    BY <1>3, <2>2 DEF PeerResets, PeerStep
<1> QED
  BY <1>1, <1>2, <1>3 DEF PeerStep, Peer

\* What bufferize() receives is a piece of what is still to be received.
LEMMA IncomingType ==
  ASSUME TypeOK, NEW s \in Sock
  PROVE  /\ ConnOf(s) \in ConnId \cup {NoConn}
         /\ Incoming(s) \in Seq(Byte)
         /\ Len(Incoming(s)) \in Nat
         /\ ConnOf(s) \in ConnId => Len(Incoming(s)) <= Unread(ConnOf(s))
<1> USE DEF TypeOK, NetTypeOK
<1>1. ConnOf(s) \in ConnId \cup {NoConn}
  BY DEF ConnOf, Behind
<1>2. <<>> \in Seq(Byte) /\ Len(<<>>) = 0
  BY EmptySeq
<1>3. ASSUME NEW c \in ConnId
      PROVE  /\ Received(c, RecvMax) \in Seq(Byte)
             /\ Len(Received(c, RecvMax)) \in Nat
             /\ Len(Received(c, RecvMax)) <= Unread(c)
             /\ 0 <= Unread(c)
  <2> DEFINE n == IF Unread(c) < RecvMax THEN Unread(c) ELSE RecvMax
  <2>1. /\ Len(sent[c]) \in Nat
        /\ taken[c] \in Nat
        /\ taken[c] <= Len(sent[c])
        /\ \A i \in 1 .. Len(sent[c]) : sent[c][i] \in Byte
    <3>1. sent[c] \in Seq(Byte) /\ taken[c] \in Nat /\ taken[c] <= Len(sent[c])
      OBVIOUS
    <3> HIDE DEF TypeOK, NetTypeOK
    <3>2. Len(sent[c]) \in Nat
      BY <3>1, LenProperties
    <3>3. \A i \in 1 .. Len(sent[c]) : sent[c][i] \in Byte
      BY <3>1, ElementOfSeq
    <3> QED
      BY <3>1, <3>2, <3>3
  <2>2. n \in Nat /\ n <= Unread(c) /\ 0 <= Unread(c) /\ taken[c] + n <= Len(sent[c])
    <3> HIDE DEF TypeOK, NetTypeOK
    <3>1. RecvMax \in Nat
      BY ClientSocketAssumption
    <3> QED
      BY <2>1, <3>1 DEF Unread
  <2>3. Received(c, RecvMax) = SubSeq(sent[c], taken[c] + 1, taken[c] + n)
    BY DEF Received
  <2> HIDE DEF n, TypeOK, NetTypeOK
  <2>4. sent[c] \in Seq(Byte)
    BY DEF TypeOK, NetTypeOK
  <2>5. SubSeq(sent[c], taken[c] + 1, taken[c] + n) \in Seq(Byte)
    <3>1. taken[c] + 1 \in 1 .. Len(sent[c]) + 1 /\ taken[c] + n \in 0 .. Len(sent[c])
      BY <2>1, <2>2
    <3> QED
      BY <2>4, <3>1, PieceType
  <2>6. Len(SubSeq(sent[c], taken[c] + 1, taken[c] + n)) = n
    BY <2>1, <2>2, <2>4, PieceLen
  <2> QED
    BY <2>2, <2>3, <2>5, <2>6
<1> QED
  BY <1>1, <1>2, <1>3, NetworkAssumption DEF Incoming

\* What the counter of the connection says was taken is what recv() returned.
LEMMA TakenOffIsIncoming ==
  ASSUME TypeOK, NEW s \in Sock, Bufferize(s)
  PROVE  received' = [received EXCEPT ![s] = @ \o Incoming(s)]
<1>1. CASE Selectable(s)
  <2>1. /\ taken' = [c \in ConnId |->
                       IF c = ConnOf(s) THEN taken[c] + Len(Incoming(s)) ELSE taken[c]]
        /\ received' = [received EXCEPT ![s] = @ \o TakenOff(s)]
    BY <1>1 DEF Bufferize
  <2>2. TakenOff(s) = Incoming(s)
    <3>1. CASE ConnOf(s) = NoConn
      BY <3>1 DEF TakenOff, Incoming
    <3>2. CASE ConnOf(s) # NoConn
      <4> DEFINE c == ConnOf(s)
                 n == IF Unread(c) < RecvMax THEN Unread(c) ELSE RecvMax
      <4>1. c \in ConnId
        BY <3>2, IncomingType
      <4>2. Incoming(s) = SubSeq(sent[c], taken[c] + 1, taken[c] + n)
        BY <1>1, <3>2 DEF Incoming, Received
      <4>3. Len(Incoming(s)) = n
        <5>1. /\ sent[c] \in Seq(Byte) /\ taken[c] \in Nat /\ taken[c] <= Len(sent[c])
              /\ Len(sent[c]) \in Nat
          BY <4>1, LenProperties DEF TypeOK, NetTypeOK
        <5>2. n \in Nat /\ taken[c] + n <= Len(sent[c])
          BY <5>1, ClientSocketAssumption DEF Unread
        <5> HIDE DEF n
        <5> QED
          BY <4>2, <5>1, <5>2, PieceLen
      <4> HIDE DEF c, n
      <4>4. taken'[c] = taken[c] + n
        BY <2>1, <4>1, <4>3 DEF c
      <4> QED
        BY <3>2, <4>2, <4>4 DEF TakenOff, c
    <3> QED
      BY <3>1, <3>2
  <2> QED
    BY <2>1, <2>2
<1>2. CASE ~Selectable(s)
  <2>1. received' = received /\ Incoming(s) = <<>>
    BY <1>2 DEF Bufferize, Incoming
  <2>2. received \in [Sock -> Seq(Byte)]
    BY DEF TypeOK
  <2>3. received[s] \o <<>> = received[s]
    BY <2>2, ConcatEmptySeq
  <2> QED
    BY <2>1, <2>2, <2>3
<1> QED
  BY <1>1, <1>2

LEMMA BufferizeType ==
  ASSUME TypeOK, NEW s \in Sock, Bufferize(s), UNCHANGED sent
  PROVE  /\ received' \in [Sock -> Seq(Byte)]
         /\ taken' \in [ConnId -> Nat]
         /\ \A c \in ConnId : taken'[c] <= Len(sent'[c])
         /\ users' \in [ConnId -> SUBSET Sock]
         /\ last_poke' \in [Sock -> Time]
         /\ connected' \in [Sock -> BOOLEAN]
         /\ proc' \in {"running", "killed"}
<1>3. received' \in [Sock -> Seq(Byte)]
  <2>1. received \in [Sock -> Seq(Byte)]
    BY DEF TypeOK
  <2>2. received[s] \o Incoming(s) \in Seq(Byte)
    BY <2>1, IncomingType, ConcatProperties
  <2>3. received' = [received EXCEPT ![s] = @ \o Incoming(s)]
    BY TakenOffIsIncoming
  <2> QED
    BY <2>1, <2>2, <2>3
<1> USE DEF TypeOK, NetTypeOK
<1>1. CASE Selectable(s)
  <2>1. /\ taken' = [c \in ConnId |->
                       IF c = ConnOf(s) THEN taken[c] + Len(Incoming(s)) ELSE taken[c]]
        /\ users' = [c \in ConnId |->
                       IF c = ConnOf(s) THEN users[c] \cup {s} ELSE users[c]]
        /\ last_poke' = [last_poke EXCEPT ![s] = IF Incoming(s) = <<>> THEN @ ELSE clock]
        /\ connected' = [connected EXCEPT ![s] = @ /\ ~SeesEnd(s)]
        /\ UNCHANGED proc
    BY <1>1 DEF Bufferize
  <2>2. taken' \in [ConnId -> Nat]
    <3>1. \A c \in ConnId : taken[c] \in Nat /\ taken[c] + Len(Incoming(s)) \in Nat
      <4>1. \A c \in ConnId : taken[c] \in Nat
        OBVIOUS
      <4>2. Len(Incoming(s)) \in Nat
        BY IncomingType
      <4> HIDE DEF TypeOK, NetTypeOK
      <4> QED
        BY <4>1, <4>2
    <3> HIDE DEF TypeOK, NetTypeOK
    <3> QED
      BY <2>1, <3>1
  <2>3. ASSUME NEW c \in ConnId PROVE taken'[c] <= Len(sent'[c])
    <3>1. taken[c] <= Len(sent[c]) /\ Len(sent[c]) \in Nat /\ sent'[c] = sent[c]
      BY LenProperties
    <3>2. CASE c = ConnOf(s)
      <4>1. taken'[c] = taken[c] + Len(Incoming(s))
        BY <2>1, <3>2
      <4>2. Len(Incoming(s)) \in Nat /\ Len(Incoming(s)) <= Len(sent[c]) - taken[c]
        BY <3>2, IncomingType DEF Unread
      <4>3. taken[c] \in Nat
        OBVIOUS
      <4> HIDE DEF TypeOK, NetTypeOK
      <4> QED
        BY <3>1, <4>1, <4>2, <4>3
    <3>3. CASE c # ConnOf(s)
      BY <2>1, <3>1, <3>3
    <3> QED
      BY <3>2, <3>3
  <2>4. users' \in [ConnId -> SUBSET Sock]
    <3>1. users \in [ConnId -> SUBSET Sock]
      OBVIOUS
    <3> HIDE DEF TypeOK, NetTypeOK
    <3> QED
      BY <2>1, <3>1
  <2>5. last_poke' \in [Sock -> Time] /\ connected' \in [Sock -> BOOLEAN]
    <3>1. /\ last_poke \in [Sock -> Time] /\ clock \in Time
          /\ connected \in [Sock -> BOOLEAN]
      OBVIOUS
    <3> HIDE DEF TypeOK, NetTypeOK
    <3>2. last_poke' \in [Sock -> Time]
      BY <2>1, <3>1
    <3>3. connected' \in [Sock -> BOOLEAN]
      BY <2>1, <3>1, Zenon
    <3> QED
      BY <3>2, <3>3
  <2>6. proc' \in {"running", "killed"}
    BY <2>1
  <2> HIDE DEF TypeOK, NetTypeOK
  <2> QED
    BY <1>3, <2>2, <2>3, <2>4, <2>5, <2>6
<1>2. CASE ~Selectable(s)
  <2>1. /\ UNCHANGED <<taken, users, last_poke>>
        /\ connected' = connected \/ connected' = [connected EXCEPT ![s] = FALSE]
        /\ proc' = proc \/ proc' = "killed"
    BY <1>2 DEF Bufferize
  <2> QED
    BY <1>3, <2>1
<1> QED
  BY <1>1, <1>2, <1>3

\* The bytes in the buffer once bufferize() has returned.
LEMMA FilledType ==
  ASSUME TypeOK, NEW s \in Sock
  PROVE  buff[s] \o Incoming(s) \in Seq(Byte)
<1>1. buff[s] \in Seq(Byte)
  BY DEF TypeOK
<1> QED
  BY <1>1, IncomingType, ConcatProperties

LEMMA ConnectType ==
  ASSUME TypeOK, NEW s \in Sock, NEW tbl \in [Fd -> ConnId \cup {NoConn}],
         NEW states \in [ConnId -> ConnState], ConnectFrom(s, tbl, states)
  PROVE  TypeOK'
<1> USE DEF TypeOK, NetTypeOK
<1>1. ASSUME NEW f \in Fd, NEW c \in ConnId, NEW up \in BOOLEAN,
             table' = [tbl EXCEPT ![f] = c],
             st' = [states EXCEPT ![c] = IF up THEN "up" ELSE "new"],
             sock' = [sock EXCEPT ![s] = f],
             connected' = [connected EXCEPT ![s] = up],
             mine' = [mine EXCEPT ![s] = c],
             users' = [users EXCEPT ![c] = {s}],
             UNCHANGED <<sent, taken, out, exists, buff, last_poke, last_ping, clock, proc,
                         received, eaten, lines>>
      PROVE  TypeOK'
  <2>1. table' \in [Fd -> ConnId \cup {NoConn}] /\ st' \in [ConnId -> ConnState]
    BY <1>1
  <2>2. connected' \in [Sock -> BOOLEAN]
    BY <1>1, Zenon
  <2>3. users' \in [ConnId -> SUBSET Sock]
    BY <1>1
  <2> QED
    BY <1>1, <2>1, <2>2, <2>3
<1>2. ASSUME table' = tbl, st' = states,
             sock' = [sock EXCEPT ![s] = -1],
             connected' = [connected EXCEPT ![s] = FALSE],
             mine' = [mine EXCEPT ![s] = NoConn],
             UNCHANGED <<users, sent, taken, out, exists, buff, last_poke, last_ping, clock,
                         proc, received, eaten, lines>>
      PROVE  TypeOK'
  BY <1>2
<1> QED
  BY <1>1, <1>2 DEF ConnectFrom

\* close() leaves a table and connection states.
LEMMA WithoutType ==
  ASSUME TypeOK, NEW f
  PROVE  /\ TableWithout(f) \in [Fd -> ConnId \cup {NoConn}]
         /\ StatesWithout(f) \in [ConnId -> ConnState]
  BY DEF TypeOK, NetTypeOK, TableWithout, StatesWithout

LEMMA LifeType ==
  ASSUME TypeOK, NEW s \in Sock,
         NewSocket(s) \/ Collect(s) \/ ConnectSocket(s) \/ CloseSocket(s) \/ ReconnectSocket(s)
  PROVE  TypeOK'
<1>1. CASE NewSocket(s)
  <2>1. <<>> \in Seq(Byte) /\ <<>> \in Seq(Seq(Byte))
    OBVIOUS
  <2>2. connected' \in [Sock -> BOOLEAN]
    BY <1>1 DEF NewSocket, TypeOK
  <2>3. NetTypeOK'
    BY <1>1 DEF NewSocket, TypeOK, NetTypeOK, netVars
  <2>4. /\ received' \in [Sock -> Seq(Byte)] /\ eaten' \in [Sock -> Seq(Byte)]
        /\ buff' \in [Sock -> Seq(Byte)] /\ lines' \in [Sock -> Seq(Seq(Byte))]
    BY <1>1, <2>1 DEF NewSocket, TypeOK
  <2> QED
    BY <1>1, <2>2, <2>3, <2>4 DEF NewSocket, TypeOK
<1>2. CASE Collect(s)
  BY <1>2 DEF Collect, TypeOK, NetTypeOK, netVars
<1>3. CASE ConnectSocket(s)
  BY <1>3, ConnectType DEF ConnectSocket, TypeOK, NetTypeOK
<1>4. CASE CloseSocket(s)
  BY <1>4, WithoutType DEF CloseSocket, TypeOK, NetTypeOK, objVars
<1>5. CASE ReconnectSocket(s)
  BY <1>5, WithoutType, ConnectType DEF ReconnectSocket
<1> QED
  BY <1>1, <1>2, <1>3, <1>4, <1>5

LEMMA ReadType ==
  ASSUME TypeOK, NEW s \in Sock,
         Poll(s) \/ GetLine(s) \/ GetChars(s) \/ GetChar(s)
  PROVE  TypeOK'
<1> DEFINE b == buff[s] \o Incoming(s)
<1> HIDE DEF b
<1>1. b \in Seq(Byte)
  BY FilledType DEF b
<1>2. buff[s] \in Seq(Byte) /\ eaten[s] \in Seq(Byte) /\ lines[s] \in Seq(Seq(Byte))
  BY DEF TypeOK
<1>3. CASE Poll(s)
  <2>1. Bufferize(s) /\ UNCHANGED sent /\ buff' = [buff EXCEPT ![s] = b]
    BY <1>3 DEF Poll, b
  <2>2. buff' \in [Sock -> Seq(Byte)]
    BY <1>1, <2>1 DEF TypeOK
  <2> QED
    BY <1>3, <2>1, <2>2, BufferizeType DEF Poll, TypeOK, NetTypeOK
<1>4. CASE GetLine(s)
  <2>1. /\ Bufferize(s) /\ UNCHANGED sent
        /\ IF HasLine(b)
           THEN /\ buff' = [buff EXCEPT ![s] = SubSeq(b, LineEnd(b) + 1, Len(b))]
                /\ eaten' = [eaten EXCEPT ![s] = @ \o SubSeq(b, 1, LineEnd(b))]
                /\ lines' = [lines EXCEPT ![s] = Append(@, FirstLine(b))]
           ELSE /\ buff' = [buff EXCEPT ![s] = b]
                /\ UNCHANGED <<eaten, lines>>
    BY <1>4 DEF GetLine, b
  <2>2. /\ buff' \in [Sock -> Seq(Byte)]
        /\ eaten' \in [Sock -> Seq(Byte)]
        /\ lines' \in [Sock -> Seq(Seq(Byte))]
    <3>1. CASE HasLine(b)
      <4>1. LineEnd(b) \in 1 .. Len(b) /\ Len(b) \in Nat
        BY <1>1, <3>1, LineEndIsFirst, LenProperties
      <4>2. /\ SubSeq(b, LineEnd(b) + 1, Len(b)) \in Seq(Byte)
            /\ SubSeq(b, 1, LineEnd(b)) \in Seq(Byte)
        BY <1>1, <4>1, PieceType
      <4>3. eaten[s] \o SubSeq(b, 1, LineEnd(b)) \in Seq(Byte)
        BY <1>2, <4>2, ConcatProperties
      <4>4. Append(lines[s], FirstLine(b)) \in Seq(Seq(Byte))
        BY <1>1, <1>2, <3>1, FirstLineType, AppendProperties
      <4> QED
        BY <2>1, <3>1, <4>2, <4>3, <4>4 DEF TypeOK
    <3>2. CASE ~HasLine(b)
      BY <1>1, <2>1, <3>2 DEF TypeOK
    <3> QED
      BY <3>1, <3>2
  <2> QED
    BY <1>4, <2>1, <2>2, BufferizeType DEF GetLine, TypeOK, NetTypeOK
<1>5. CASE GetChars(s)
  <2>1. eaten[s] \o buff[s] \in Seq(Byte) /\ <<>> \in Seq(Byte)
    BY <1>2, ConcatProperties, EmptySeq
  <2> QED
    BY <1>5, <2>1 DEF GetChars, TypeOK, NetTypeOK, netVars
<1>6. CASE GetChar(s)
  <2>1. CASE buff[s] = <<>>
    BY <1>6, <2>1 DEF GetChar, TypeOK, NetTypeOK, netVars
  <2>2. CASE buff[s] # <<>>
    <3>1. /\ Tail(buff[s]) \in Seq(Byte)
          /\ Append(eaten[s], Head(buff[s])) \in Seq(Byte)
      BY <1>2, <2>2, HeadTailProperties, AppendProperties
    <3>2. buff' \in [Sock -> Seq(Byte)] /\ eaten' \in [Sock -> Seq(Byte)]
      <4> DEFINE rest == Tail(buff[s])
                 more == Append(eaten[s], Head(buff[s]))
      <4>1. buff' = [buff EXCEPT ![s] = rest] /\ eaten' = [eaten EXCEPT ![s] = more]
        BY <1>6, <2>2 DEF GetChar
      <4> HIDE DEF rest, more
      <4>2. buff \in [Sock -> Seq(Byte)] /\ eaten \in [Sock -> Seq(Byte)]
        BY DEF TypeOK
      <4>3. rest \in Seq(Byte) /\ more \in Seq(Byte)
        BY <3>1 DEF rest, more
      <4> QED
        BY <4>1, <4>2, <4>3
    <3>3. NetTypeOK'
      BY <1>6 DEF GetChar, TypeOK, NetTypeOK, netVars
    <3> QED
      BY <1>6, <2>2, <3>2, <3>3 DEF GetChar, TypeOK
  <2> QED
    BY <2>1, <2>2
<1> QED
  BY <1>3, <1>4, <1>5, <1>6

LEMMA WriteType ==
  ASSUME TypeOK, NEW s \in Sock, Write(s) \/ WriteChar(s)
  PROVE  TypeOK'
<1> DEFINE c == ConnOf(s)
<1>1. ASSUME NEW splittable, Send(s, splittable)
      PROVE  /\ out' \in [ConnId -> Seq(Message)]
             /\ users' \in [ConnId -> SUBSET Sock]
             /\ connected' \in [Sock -> BOOLEAN]
             /\ last_ping' \in [Sock -> Time]
             /\ proc' \in {"running", "killed"}
  <2>1. ASSUME Writable(c), NEW whole \in BOOLEAN,
               out' = [out EXCEPT ![c] = Append(@, [by |-> s, whole |-> whole])],
               users' = [users EXCEPT ![c] = @ \cup {s}],
               \/ last_ping' = [last_ping EXCEPT ![s] = clock] /\ UNCHANGED connected
               \/ connected' = [connected EXCEPT ![s] = FALSE] /\ UNCHANGED last_ping,
               UNCHANGED proc
        PROVE  /\ out' \in [ConnId -> Seq(Message)]
               /\ users' \in [ConnId -> SUBSET Sock]
               /\ connected' \in [Sock -> BOOLEAN]
               /\ last_ping' \in [Sock -> Time]
               /\ proc' \in {"running", "killed"}
    <3>1. c \in ConnId
      BY <2>1, IncomingType DEF Writable
    <3>2. Append(out[c], [by |-> s, whole |-> whole]) \in Seq(Message)
      <4>1. out[c] \in Seq(Message) /\ [by |-> s, whole |-> whole] \in Message
        BY <3>1 DEF TypeOK, NetTypeOK
      <4> QED
        BY <4>1, AppendProperties
    <3> HIDE DEF c
    <3>3. out' \in [ConnId -> Seq(Message)]
      BY <2>1, <3>2 DEF TypeOK, NetTypeOK
    <3>4. users' \in [ConnId -> SUBSET Sock]
      BY <2>1 DEF TypeOK
    <3>5. connected' \in [Sock -> BOOLEAN] /\ last_ping' \in [Sock -> Time]
      BY <2>1 DEF TypeOK
    <3>6. proc' \in {"running", "killed"}
      BY <2>1 DEF TypeOK
    <3> QED
      BY <3>3, <3>4, <3>5, <3>6
  <2>2. ASSUME UNCHANGED <<out, users, last_ping>>,
               \/ connected' = [connected EXCEPT ![s] = FALSE] /\ UNCHANGED proc
               \/ proc' = "killed" /\ UNCHANGED connected
        PROVE  /\ out' \in [ConnId -> Seq(Message)]
               /\ users' \in [ConnId -> SUBSET Sock]
               /\ connected' \in [Sock -> BOOLEAN]
               /\ last_ping' \in [Sock -> Time]
               /\ proc' \in {"running", "killed"}
    BY <2>2 DEF TypeOK, NetTypeOK
  <2> QED
    BY <1>1, <2>1, <2>2 DEF Send
<1>2. CASE Write(s)
  BY <1>1, <1>2 DEF Write, TypeOK, NetTypeOK
<1>3. CASE WriteChar(s)
  BY <1>1, <1>3 DEF WriteChar, TypeOK, NetTypeOK
<1> QED
  BY <1>2, <1>3

\* Every call, every move of a peer and every tick keeps the variables in their types:
\* in particular recv() never returns more bytes than have arrived.
THEOREM TypeCorrect == Spec => []TypeOK
<1>1. ASSUME TypeOK, Next PROVE TypeOK'
  <2>1. CASE PeerStep
    BY <1>1, <2>1, PeerType
  <2>2. CASE Tick
    <3>1. clock' \in Time
      BY <1>1, <2>2, ClientSocketAssumption DEF Tick, TypeOK
    <3> QED
      BY <1>1, <2>2, <3>1 DEF Tick, TypeOK, NetTypeOK, netVars, objVars, histVars
  <2>3. ASSUME NEW s \in Sock, Call(s) PROVE TypeOK'
    BY <1>1, <2>3, LifeType, ReadType, WriteType DEF Call
  <2> QED
    BY <1>1, <2>1, <2>2, <2>3 DEF Next
<1>2. ASSUME TypeOK, UNCHANGED vars PROVE TypeOK'
  BY <1>2 DEF vars, TypeOK, NetTypeOK, netVars, objVars, histVars
<1> QED
  BY InitType, <1>1, <1>2, PTL DEF Spec

---------------------------------------------------------------------------
(* What no program can break. *)

\* An object that is not held opened nothing, and what an object opened is a real
\* connection: established, if the object is connected.
EstablishedInv ==
  /\ \A s \in Sock : ~exists[s] => mine[s] = NoConn
  /\ \A s \in Sock : mine[s] # NoConn => st[mine[s]] # "free"
  /\ ConnectedWasEstablished

LEMMA EstablishedByConnect ==
  ASSUME TypeOK, EstablishedInv, NEW s \in Sock, exists[s], NEW tbl, NEW states,
         tbl \in [Fd -> ConnId \cup {NoConn}], states \in [ConnId -> ConnState],
         \A c \in ConnId : states[c] \in {st[c], "closed"},
         ConnectFrom(s, tbl, states)
  PROVE  EstablishedInv'
<1> USE DEF EstablishedInv, ConnectedWasEstablished, TypeOK, NetTypeOK
<1>1. ASSUME NEW f \in Fd, NEW c \in ConnId, NEW up \in BOOLEAN,
             states[c] = "free",
             st' = [states EXCEPT ![c] = IF up THEN "up" ELSE "new"],
             connected' = [connected EXCEPT ![s] = up],
             mine' = [mine EXCEPT ![s] = c],
             exists' = exists
      PROVE  EstablishedInv'
  <2>1. \A t \in Sock : mine[t] # c
    <3>1. st[c] = "free" /\ c # NoConn
      BY <1>1, NetworkAssumption
    <3>2. \A t \in Sock : mine[t] # NoConn => st[mine[t]] # "free"
      OBVIOUS
    <3> QED
      BY <3>1, <3>2
  <2>2. \A t \in Sock : t # s => /\ mine'[t] = mine[t]
                                 /\ connected'[t] = connected[t]
                                 /\ mine[t] # NoConn => st'[mine[t]] \in {st[mine[t]], "closed"}
    <3>1. \A d \in ConnId : d # c => st'[d] = states[d]
      BY <1>1
    <3>2. \A t \in Sock : t # s => mine'[t] = mine[t] /\ connected'[t] = connected[t]
      BY <1>1
    <3>3. \A t \in Sock : mine[t] # NoConn => mine[t] \in ConnId
      OBVIOUS
    <3> QED
      BY <2>1, <3>1, <3>2, <3>3
  <2>3. mine'[s] = c /\ connected'[s] = up /\ st'[c] = (IF up THEN "up" ELSE "new")
    BY <1>1, Zenon
  <2>4. \A t \in Sock : ~exists'[t] => mine'[t] = NoConn
    BY <1>1, <2>2
  <2>5. ASSUME NEW t \in Sock, mine'[t] # NoConn
        PROVE  st'[mine'[t]] # "free" /\ (connected'[t] => st'[mine'[t]] # "new")
    <3>1. CASE t = s
      BY <2>3, <3>1
    <3>2. CASE t # s
      <4>1. mine'[t] = mine[t] /\ connected'[t] = connected[t] /\ mine[t] # NoConn
        BY <2>2, <2>5, <3>2
      <4>2. st[mine[t]] # "free" /\ (connected[t] => st[mine[t]] # "new")
        BY <4>1
      <4>3. st'[mine[t]] = st[mine[t]] \/ st'[mine[t]] = "closed"
        BY <2>2, <3>2, <4>1
      <4> QED
        BY <4>1, <4>2, <4>3
    <3> QED
      BY <3>1, <3>2
  <2> QED
    BY <2>4, <2>5
<1>2. ASSUME st' = states,
             connected' = [connected EXCEPT ![s] = FALSE],
             mine' = [mine EXCEPT ![s] = NoConn],
             exists' = exists
      PROVE  EstablishedInv'
  BY <1>2
<1> QED
  BY <1>1, <1>2 DEF ConnectFrom

LEMMA EstablishedByLife ==
  ASSUME TypeOK, EstablishedInv, NEW s \in Sock,
         NewSocket(s) \/ Collect(s) \/ ConnectSocket(s) \/ CloseSocket(s) \/ ReconnectSocket(s)
  PROVE  EstablishedInv'
<1> USE DEF EstablishedInv, ConnectedWasEstablished
<1>1. CASE NewSocket(s)
  <2>1. /\ mine' = mine /\ st' = st /\ mine[s] = NoConn
        /\ \A t \in Sock : t # s => connected'[t] = connected[t] /\ exists'[t] = exists[t]
    BY <1>1 DEF NewSocket, TypeOK, netVars
  <2> QED
    BY <2>1
<1>2. CASE Collect(s)
  BY <1>2 DEF Collect, TypeOK, netVars
<1>3. CASE ConnectSocket(s)
  BY <1>3, EstablishedByConnect DEF ConnectSocket, TypeOK, NetTypeOK
<1>4. CASE CloseSocket(s)
  BY <1>4 DEF CloseSocket, StatesWithout, TypeOK, NetTypeOK, objVars
<1>5. CASE ReconnectSocket(s)
  <2>1. \A c \in ConnId : StatesWithout(sock[s])[c] \in {st[c], "closed"}
    BY DEF StatesWithout, TypeOK, NetTypeOK
  <2> QED
    BY <1>5, <2>1, WithoutType, EstablishedByConnect DEF ReconnectSocket
<1> QED
  BY <1>1, <1>2, <1>3, <1>4, <1>5

\* Between a connect and a close the flag only falls.
LEMMA FlagFalls ==
  ASSUME TypeOK, NEW s \in Sock,
         \/ Poll(s) \/ GetLine(s) \/ GetChars(s) \/ GetChar(s) \/ Write(s) \/ WriteChar(s)
  PROVE  /\ UNCHANGED <<exists, mine, st>>
         /\ \A t \in Sock : connected'[t] => connected[t]
<1>1. ASSUME Bufferize(s) PROVE \A t \in Sock : connected'[t] => connected[t]
  <2>1. \/ connected' = [connected EXCEPT ![s] = @ /\ ~SeesEnd(s)]
        \/ connected' = connected
        \/ connected' = [connected EXCEPT ![s] = FALSE]
    BY <1>1 DEF Bufferize
  <2> QED
    BY <2>1, Zenon DEF TypeOK
<1>2. ASSUME NEW splittable, Send(s, splittable)
      PROVE  \A t \in Sock : connected'[t] => connected[t]
  <2>1. connected' = connected \/ connected' = [connected EXCEPT ![s] = FALSE]
    BY <1>2 DEF Send
  <2> QED
    BY <2>1 DEF TypeOK
<1>3. CASE Poll(s) \/ GetLine(s)
  BY <1>1, <1>3 DEF Poll, GetLine
<1>4. CASE GetChars(s) \/ GetChar(s)
  BY <1>4 DEF GetChars, GetChar, netVars
<1>5. CASE Write(s) \/ WriteChar(s)
  BY <1>2, <1>5 DEF Write, WriteChar
<1> QED
  BY <1>3, <1>4, <1>5

\* The peers close and reset established connections only.
LEMMA PeerKeepsState ==
  ASSUME TypeOK, PeerStep
  PROVE  /\ UNCHANGED <<objVars, proc, histVars, table, out>>
         /\ \A c \in ConnId : \/ st'[c] = st[c]
                              \/ st[c] \in {"up", "fin"} /\ st'[c] \in {"fin", "rst"}
<1> USE DEF TypeOK, NetTypeOK
<1>1. ASSUME NEW c \in ConnId,
             \/ \E b \in Byte : PeerSends(c, b)
             \/ PeerCloses(c)
             \/ PeerResets(c)
      PROVE  /\ UNCHANGED <<table, out>>
             /\ \A d \in ConnId : \/ st'[d] = st[d]
                                  \/ st[d] \in {"up", "fin"} /\ st'[d] \in {"fin", "rst"}
  BY <1>1 DEF PeerSends, PeerCloses, PeerResets
<1> QED
  BY <1>1 DEF PeerStep, Peer

LEMMA EstablishedStep == TypeOK /\ EstablishedInv /\ [Next]_vars => EstablishedInv'
<1> SUFFICES ASSUME TypeOK, EstablishedInv, [Next]_vars PROVE EstablishedInv'
  OBVIOUS
<1>1. CASE PeerStep
  <2>1. UNCHANGED <<exists, mine, connected>>
    BY <1>1, PeerKeepsState DEF objVars, histVars
  <2>2. \A s \in Sock : mine[s] # NoConn => mine[s] \in ConnId
    BY DEF TypeOK
  <2> QED
    BY <1>1, <2>1, <2>2, PeerKeepsState DEF EstablishedInv, ConnectedWasEstablished
<1>2. ASSUME NEW s \in Sock, Call(s) PROVE EstablishedInv'
  BY <1>2, EstablishedByLife, FlagFalls DEF Call, EstablishedInv, ConnectedWasEstablished
<1>3. CASE Tick \/ UNCHANGED vars
  BY <1>3 DEF Tick, vars, netVars, objVars, histVars, EstablishedInv, ConnectedWasEstablished
<1> QED
  BY <1>1, <1>2, <1>3 DEF Next

LEMMA EstablishedAlways == Spec => [](TypeOK /\ EstablishedInv)
<1>1. Init => EstablishedInv
  BY DEF Init, EstablishedInv, ConnectedWasEstablished
<1> QED
  BY TypeCorrect, EstablishedStep, <1>1, PTL DEF Spec

\* Whatever a program calls, an object that has opened a connection is not connected
\* unless connect() succeeded on it.
THEOREM ConnectedIsEstablished == Spec => []ConnectedWasEstablished
<1>1. EstablishedInv => ConnectedWasEstablished
  BY DEF EstablishedInv
<1> QED
  BY EstablishedAlways, <1>1, PTL

\* Whatever a program calls, a disconnected object is connected again by
\* connect_socket() only.
THEOREM DisconnectedStaysSo == Spec => DisconnectionIsFinal
<1> DEFINE Final == \A s \in Sock :
                      exists[s] /\ ~connected[s] /\ connected'[s] => mine'[s] # mine[s]
<1>1. ASSUME TypeOK, EstablishedInv, NEW s \in Sock, NEW tbl, NEW states,
             \A c \in ConnId : states[c] \in {st[c], "closed"},
             ConnectFrom(s, tbl, states)
      PROVE  Final
  <2>1. ASSUME NEW c \in ConnId, states[c] = "free" PROVE mine[s] # c
    BY <1>1, <2>1, NetworkAssumption DEF EstablishedInv
  <2>2. \A t \in Sock : t # s => connected'[t] = connected[t]
    BY <1>1 DEF ConnectFrom, TypeOK
  <2>3. connected'[s] => mine'[s] # mine[s]
    <3>1. ASSUME NEW c \in ConnId, states[c] = "free", mine' = [mine EXCEPT ![s] = c]
          PROVE  mine'[s] # mine[s]
      BY <1>1, <2>1, <3>1 DEF TypeOK
    <3>2. ASSUME connected' = [connected EXCEPT ![s] = FALSE] PROVE ~connected'[s]
      BY <1>1, <3>2 DEF TypeOK
    <3> QED
      BY <1>1, <3>1, <3>2 DEF ConnectFrom
  <2> QED
    BY <2>2, <2>3
<1>2. ASSUME TypeOK, EstablishedInv, NEW s \in Sock, Call(s) PROVE Final
  <2>1. CASE NewSocket(s)
    BY <1>2, <2>1 DEF NewSocket, TypeOK
  <2>2. CASE Collect(s) \/ CloseSocket(s)
    BY <2>2 DEF Collect, CloseSocket, objVars
  <2>3. CASE ConnectSocket(s)
    <3>1. \A c \in ConnId : st[c] \in {st[c], "closed"}
      OBVIOUS
    <3> HIDE DEF Final
    <3> QED
      BY <1>1, <1>2, <2>3, <3>1 DEF ConnectSocket
  <2>4. CASE ReconnectSocket(s)
    <3>1. \A c \in ConnId : StatesWithout(sock[s])[c] \in {st[c], "closed"}
      BY DEF StatesWithout
    <3> HIDE DEF Final
    <3> QED
      BY <1>1, <1>2, <2>4, <3>1 DEF ReconnectSocket
  <2>5. CASE \/ Poll(s) \/ GetLine(s) \/ GetChars(s) \/ GetChar(s) \/ Write(s) \/ WriteChar(s)
    BY <1>2, <2>5, FlagFalls
  <2> QED
    BY <1>2, <2>1, <2>2, <2>3, <2>4, <2>5 DEF Call
<1>3. ASSUME TypeOK, PeerStep \/ Tick \/ UNCHANGED vars PROVE Final
  <2>1. UNCHANGED connected
    BY <1>3, PeerKeepsState DEF Tick, vars, objVars
  <2> QED
    BY <2>1
<1>4. TypeOK /\ EstablishedInv /\ [Next]_vars => Final
  <2> HIDE DEF Final
  <2> QED
    BY <1>2, <1>3 DEF Next
<1>5. Spec => [][Final]_vars
  <2> HIDE DEF Final
  <2> QED
    BY <1>4, EstablishedAlways, PTL DEF Spec
<1> QED
  BY <1>5 DEF DisconnectionIsFinal

\* No call moves a time stamp except to the present.
LEMMA StampsMoveToNow ==
  ASSUME TypeOK, [Next]_vars, clock' = clock, NEW s \in Sock, exists[s], exists'[s]
  PROVE  last_poke'[s] \in {last_poke[s], clock} /\ last_ping'[s] \in {last_ping[s], clock}
<1> DEFINE Stamps == /\ last_poke'[s] \in {last_poke[s], clock}
                     /\ last_ping'[s] \in {last_ping[s], clock}
<1>1. ASSUME NEW t \in Sock, Bufferize(t) PROVE last_poke'[s] \in {last_poke[s], clock}
  <2>1. \/ last_poke' = [last_poke EXCEPT ![t] = IF Incoming(t) = <<>> THEN @ ELSE clock]
        \/ last_poke' = last_poke
    BY <1>1 DEF Bufferize
  <2> QED
    BY <2>1 DEF TypeOK
<1>2. ASSUME NEW t \in Sock, NEW splittable, Send(t, splittable)
      PROVE  last_ping'[s] \in {last_ping[s], clock}
  <2>1. last_ping' = last_ping \/ last_ping' = [last_ping EXCEPT ![t] = clock]
    BY <1>2 DEF Send
  <2> QED
    BY <2>1 DEF TypeOK
<1>3. ASSUME NEW t \in Sock, Call(t) PROVE Stamps
  <2>1. CASE NewSocket(t)
    BY <2>1 DEF NewSocket, TypeOK
  <2>2. CASE \/ Collect(t) \/ ConnectSocket(t) \/ CloseSocket(t) \/ ReconnectSocket(t)
             \/ GetChars(t) \/ GetChar(t)
    BY <2>2 DEF Collect, ConnectSocket, CloseSocket, ReconnectSocket, ConnectFrom, GetChars,
                GetChar, objVars
  <2>3. CASE Poll(t) \/ GetLine(t)
    BY <1>1, <2>3 DEF Poll, GetLine
  <2>4. CASE Write(t) \/ WriteChar(t)
    BY <1>2, <2>4 DEF Write, WriteChar
  <2> QED
    BY <1>3, <2>1, <2>2, <2>3, <2>4 DEF Call
<1>4. CASE PeerStep \/ Tick \/ UNCHANGED vars
  BY <1>4, PeerKeepsState DEF Tick, vars, objVars
<1> QED
  BY <1>3, <1>4 DEF Next

\* Whatever a program calls, only the passing of time makes an object time out.
THEOREM TimesOutByTimeOnly == Spec => OnlyTimeTimesOut
<1> DEFINE Timely ==
      \A s \in Sock, sec \in 1 .. MaxClock + 1 :
        exists[s] /\ exists'[s] /\ clock' = clock
          => /\ has_timed_out(s, sec)' => has_timed_out(s, sec)
             /\ has_pinged_out(s, sec)' => has_pinged_out(s, sec)
<1>1. ASSUME TypeOK, [Next]_vars, NEW s \in Sock, NEW sec \in 1 .. MaxClock + 1,
             exists[s], exists'[s], clock' = clock
      PROVE  /\ has_timed_out(s, sec)' => has_timed_out(s, sec)
             /\ has_pinged_out(s, sec)' => has_pinged_out(s, sec)
  <2>1. /\ clock \in Int /\ last_poke[s] \in Int /\ last_ping[s] \in Int
        /\ sec \in Int /\ 1 <= sec
    BY <1>1, ClientSocketAssumption DEF TypeOK
  <2>2. /\ last_poke'[s] = last_poke[s] \/ last_poke'[s] = clock
        /\ last_ping'[s] = last_ping[s] \/ last_ping'[s] = clock
    BY <1>1, StampsMoveToNow
  <2> QED
    BY <1>1, <2>1, <2>2 DEF has_timed_out, has_pinged_out
<1>2. TypeOK /\ [Next]_vars => [Timely]_vars
  BY <1>1
<1>3. Spec => [][Timely]_vars
  <2> HIDE DEF Timely
  <2> QED
    BY <1>2, TypeCorrect, PTL DEF Spec
<1> QED
  BY <1>3 DEF OnlyTimeTimesOut

---------------------------------------------------------------------------
(***************************************************************************)
(* ClientSocket implements LineStream: every call and every move of a peer *)
(* is a step of LineStream, or changes nothing it speaks of.               *)
(***************************************************************************)

(* Sequences. *)

\* The first n elements of the second of two sequences, found in the two joined.
LEMMA PieceBehind ==
  ASSUME NEW T, NEW q \in Seq(T), NEW r \in Seq(T), NEW n \in 0 .. Len(r)
  PROVE  SubSeq(q \o r, Len(q) + 1, Len(q) + n) = SubSeq(r, 1, n)
<1> DEFINE w == q \o r
           p == SubSeq(w, Len(q) + 1, Len(q) + n)
           f == SubSeq(r, 1, n)
<1>1. Len(q) \in Nat /\ Len(r) \in Nat /\ n \in Nat
  BY LenProperties
<1>2. /\ w \in Seq(T)
      /\ Len(w) = Len(q) + Len(r)
      /\ \A i \in 1 .. Len(q) + Len(r) : w[i] = IF i <= Len(q) THEN q[i] ELSE r[i - Len(q)]
  BY ConcatProperties
<1>3. \A i \in 1 .. n : w[Len(q) + i] = r[i]
  <2> DEFINE a == Len(q)
             z == Len(r)
  <2>1. a \in Nat /\ z \in Nat /\ n \in Nat /\ n <= z
    BY <1>1
  <2>2. \A i \in 1 .. a + z : w[i] = IF i <= a THEN q[i] ELSE r[i - a]
    BY <1>2
  <2> SUFFICES ASSUME NEW i \in 1 .. n PROVE w[a + i] = r[i]
    OBVIOUS
  <2> HIDE DEF w, a, z
  <2>3. a + i \in 1 .. a + z /\ ~(a + i <= a) /\ (a + i) - a = i
    BY <2>1
  <2> QED
    BY <2>2, <2>3
<1>4. /\ f \in Seq(T)
      /\ Len(f) = n
      /\ \A i \in 1 .. n : f[i] = r[i]
  <2>1. \A i \in 1 .. n : r[i] \in T
    BY <1>1, ElementOfSeq
  <2> DEFINE one == 1
  <2>2. one \in Int /\ \A i \in one .. n : r[i] \in T
    BY <2>1
  <2> HIDE DEF one
  <2>3. /\ SubSeq(r, one, n) \in Seq(T)
        /\ Len(SubSeq(r, one, n)) = IF one <= n THEN n - one + 1 ELSE 0
        /\ \A i \in 1 .. n - one + 1 : SubSeq(r, one, n)[i] = r[one + i - 1]
    BY <1>1, <2>2, SubSeqProperties
  <2>4. one = 1
    BY DEF one
  <2> QED
    BY <1>1, <2>3, <2>4
<1>5. /\ p \in Seq(T)
      /\ Len(p) = n
      /\ \A i \in 1 .. n : p[i] = w[Len(q) + i]
  <2> DEFINE a == Len(q) + 1
             b == Len(q) + n
  <2>1. a \in Int /\ b \in Int /\ b - a + 1 = n /\ (a <= b <=> n # 0)
    BY <1>1
  <2>2. \A i \in a .. b : i \in 1 .. Len(w)
    BY <1>1, <1>2
  <2>3. \A i \in a .. b : w[i] \in T
    BY <1>2, <2>2, ElementOfSeq
  <2> HIDE DEF a, b, w
  <2>4. /\ SubSeq(w, a, b) \in Seq(T)
        /\ Len(SubSeq(w, a, b)) = IF a <= b THEN b - a + 1 ELSE 0
        /\ \A i \in 1 .. b - a + 1 : SubSeq(w, a, b)[i] = w[a + i - 1]
    BY <2>1, <2>3, SubSeqProperties
  <2>5. \A i \in 1 .. n : a + i - 1 = Len(q) + i
    BY <1>1 DEF a
  <2> QED
    BY <1>1, <2>1, <2>4, <2>5 DEF a, b
<1> HIDE DEF p, f
<1>6. p = f
  BY <1>3, <1>4, <1>5, SeqEqual
<1> QED
  BY <1>6 DEF p, f

\* The first of two joined sequences is what they begin with.
LEMMA PieceBefore ==
  ASSUME NEW T, NEW q \in Seq(T), NEW r \in Seq(T)
  PROVE  /\ SubSeq(q \o r, 1, Len(q)) = q
         /\ Len(q) <= Len(q \o r)
<1> DEFINE w == q \o r
           p == SubSeq(w, 1, Len(q))
<1>1. Len(q) \in Nat /\ Len(r) \in Nat
  BY LenProperties
<1>2. /\ Len(w) = Len(q) + Len(r)
      /\ \A i \in 1 .. Len(q) + Len(r) : w[i] = IF i <= Len(q) THEN q[i] ELSE r[i - Len(q)]
  BY ConcatProperties
<1>3. \A i \in 1 .. Len(q) : w[i] = q[i] /\ w[i] \in T
  <2> HIDE DEF w
  <2> QED
    BY <1>1, <1>2, ElementOfSeq
<1>4. /\ p \in Seq(T)
      /\ Len(p) = Len(q)
      /\ \A i \in 1 .. Len(q) : p[i] = w[i]
  <2> DEFINE one == 1
             n == Len(q)
  <2>1. one \in Int /\ n \in Int /\ \A i \in one .. n : w[i] \in T
    BY <1>1, <1>3
  <2> HIDE DEF w, one, n
  <2>2. /\ SubSeq(w, one, n) \in Seq(T)
        /\ Len(SubSeq(w, one, n)) = IF one <= n THEN n - one + 1 ELSE 0
        /\ \A i \in 1 .. n - one + 1 : SubSeq(w, one, n)[i] = w[one + i - 1]
    BY <2>1, SubSeqProperties
  <2>3. one = 1 /\ n = Len(q)
    BY DEF one, n
  <2> QED
    BY <1>1, <2>2, <2>3
<1> HIDE DEF p
<1>5. p = q
  BY <1>3, <1>4, SeqEqual
<1> QED
  BY <1>1, <1>2, <1>5 DEF p

LEMMA Regrouped ==
  ASSUME NEW q \in Seq(Byte), NEW r \in Seq(Byte), NEW u \in Seq(Byte)
  PROVE  q \o (r \o u) = (q \o r) \o u
  BY ConcatAssociative, SMTT(20)

\* From the position p on, l is the next line of the stream a; it ends at e.
NextLine(a, p, e, l) ==
  /\ e \in p + 1 .. Len(a)
  /\ a[e] = NL
  /\ \A i \in p + 1 .. e - 1 : a[i] # NL
  /\ l = IF e - 1 > p /\ a[e - 1] = CR THEN SubSeq(a, p + 1, e - 2)
                                       ELSE SubSeq(a, p + 1, e - 1)

\* The first line of b is the next of a stream that b follows.
LEMMA LineOfStream ==
  ASSUME NEW q \in Seq(Byte), NEW b \in Seq(Byte), HasLine(b),
         NEW a, a = q \o b, NEW e, e = Len(q) + LineEnd(b)
  PROVE  NextLine(a, Len(q), e, FirstLine(b))
<1> DEFINE n == LineEnd(b)
           E == Len(q)
           l == SubSeq(b, 1, n - 1)
<1>1. n \in 1 .. Len(b) /\ b[n] = NL /\ \A j \in 1 .. n - 1 : b[j] # NL
  BY LineEndIsFirst
<1>2. E \in Nat /\ Len(b) \in Nat /\ n \in Nat /\ n >= 1 /\ n <= Len(b)
  BY <1>1, LenProperties
<1>3. Len(a) = E + Len(b) /\ \A j \in 1 .. Len(b) : a[E + j] = b[j]
  <2>1. /\ Len(a) = E + Len(b)
        /\ \A i \in 1 .. E + Len(b) : a[i] = IF i <= E THEN q[i] ELSE b[i - E]
    BY ConcatProperties
  <2> HIDE DEF E
  <2> QED
    BY <1>2, <2>1
<1>4. /\ SubSeq(a, E + 1, E + (n - 1)) = l
      /\ n > 1 => SubSeq(a, E + 1, E + (n - 2)) = SubSeq(b, 1, n - 2)
  <2>1. n - 1 \in 0 .. Len(b) /\ (n > 1 => n - 2 \in 0 .. Len(b))
    BY <1>2
  <2> HIDE DEF n
  <2> QED
    BY <2>1, PieceBehind
<1>5. Len(l) = n - 1 /\ \A i \in 1 .. n - 1 : l[i] = b[i]
  <2>1. \A i \in 1 .. n - 1 : b[i] \in Byte
    BY <1>2, ElementOfSeq
  <2> HIDE DEF n
  <2> QED
    BY <1>2, <2>1, SubSeqProperties
<1>6. n > 1 => SubSeq(l, 1, n - 2) = SubSeq(b, 1, n - 2)
  <2> SUFFICES ASSUME n > 1 PROVE SubSeq(l, 1, n - 2) = SubSeq(b, 1, n - 2)
    OBVIOUS
  <2> HIDE DEF n, l
  <2> DEFINE u == SubSeq(l, 1, n - 2)
             v == SubSeq(b, 1, n - 2)
  <2>1. \A i \in 1 .. n - 2 : l[i] \in Byte /\ b[i] \in Byte /\ l[i] = b[i]
    <3>1. \A i \in 1 .. n - 2 : i \in 1 .. n - 1 /\ i \in 1 .. Len(b)
      BY <1>2
    <3> QED
      BY <1>5, <3>1, ElementOfSeq
  <2>2. n - 2 \in Int /\ (1 <= n - 2 => n - 2 - 1 + 1 = n - 2)
    BY <1>2
  <2>3. /\ u \in Seq(Byte) /\ v \in Seq(Byte)
        /\ Len(u) = Len(v)
        /\ Len(u) = n - 2
        /\ \A i \in 1 .. n - 2 : u[i] = l[i] /\ v[i] = b[i]
    BY <1>2, <2>1, <2>2, SubSeqProperties
  <2> HIDE DEF u, v
  <2>4. u = v
    BY <2>1, <2>3, SeqEqual
  <2> QED
    BY <2>4 DEF u, v
<1>7. FirstLine(b) = IF Len(l) > 0 /\ l[Len(l)] = CR THEN SubSeq(l, 1, Len(l) - 1) ELSE l
  BY DEF FirstLine, StripCR
<1> HIDE DEF l, E, n
<1>8. e = E + n
  BY DEF E, n
<1>9. /\ e \in E + 1 .. Len(a)
      /\ a[e] = NL
  BY <1>1, <1>2, <1>3, <1>8
<1>10. ASSUME NEW i \in E + 1 .. e - 1 PROVE a[i] # NL
  <2>1. i - E \in 1 .. n - 1 /\ i - E \in 1 .. Len(b) /\ E + (i - E) = i
    BY <1>2, <1>8
  <2> QED
    BY <1>1, <1>3, <2>1
<1>11. FirstLine(b) = IF e - 1 > E /\ a[e - 1] = CR
                      THEN SubSeq(a, E + 1, e - 2) ELSE SubSeq(a, E + 1, e - 1)
  <2>1. e - 1 = E + (n - 1) /\ e - 2 = E + (n - 2) /\ Len(l) - 1 = n - 2
    BY <1>2, <1>5, <1>8
  <2>2. e - 1 > E <=> n > 1
    BY <1>2, <1>8
  <2>3. CASE n = 1
    <3>1. Len(l) = 0
      BY <1>2, <1>5, <2>3
    <3>2. FirstLine(b) = l
      BY <1>7, <3>1
    <3> QED
      BY <1>2, <1>4, <2>1, <2>2, <2>3, <3>2
  <2>4. CASE n > 1
    <3>1. Len(l) > 0 /\ n - 1 \in 1 .. n - 1 /\ n - 1 \in 1 .. Len(b)
      BY <1>2, <1>5, <2>4
    <3>2. l[Len(l)] = a[e - 1]
      BY <1>3, <1>5, <2>1, <3>1
    <3>3. /\ SubSeq(l, 1, Len(l) - 1) = SubSeq(a, E + 1, e - 2)
          /\ l = SubSeq(a, E + 1, e - 1)
      BY <1>4, <1>6, <2>1, <2>4
    <3> QED
      BY <1>7, <2>2, <2>4, <3>1, <3>2, <3>3
  <2>5. n = 1 \/ n > 1
    BY <1>2
  <2> QED
    BY <2>3, <2>4, <2>5, Zenon
<1> QED
  BY <1>9, <1>10, <1>11 DEF NextLine, E

\* The first element of r, moved to the end of q.
LEMMA Moved ==
  ASSUME NEW q \in Seq(Byte), NEW r \in Seq(Byte), r # <<>>
  PROVE  /\ Append(q, Head(r)) \o Tail(r) = q \o r
         /\ Len(Append(q, Head(r))) = Len(q) + 1
         /\ Len(q) < Len(q \o r)
<1> DEFINE h == Head(r)
           t == Tail(r)
<1>1. h \in Byte /\ t \in Seq(Byte) /\ <<h>> \in Seq(Byte) /\ h = r[1]
  BY HeadTailProperties
<1>2. Len(q) \in Nat /\ Len(r) \in Nat /\ Len(r) # 0
  BY LenProperties, EmptySeq
<1>3. r = <<h>> \o t
  <2>1. 1 \in 1 .. Len(r) /\ Len(r) \in 1 .. Len(r) /\ 1 + 1 = 2
    BY <1>2
  <2>2. SubSeq(r, 1, Len(r)) = <<r[1]>> \o SubSeq(r, 2, Len(r))
    BY <2>1, SubSeqRecursiveFirst
  <2>3. SubSeq(r, 1, Len(r)) = r /\ SubSeq(r, 2, Len(r)) = t
    BY SubSeqFull, TailIsSubSeq
  <2> HIDE DEF h, t
  <2> QED
    BY <1>1, <2>2, <2>3, Zenon
<1>4. Append(q, h) = q \o <<h>> /\ Len(Append(q, h)) = Len(q) + 1
  BY <1>1, AppendIsConcat, AppendProperties
<1> HIDE DEF h, t
<1>5. Append(q, h) \o t = q \o r
  <2>1. q \o (<<h>> \o t) = (q \o <<h>>) \o t
    BY <1>1, Regrouped, Zenon
  <2> QED
    BY <1>3, <1>4, <2>1, Zenon
<1>6. Len(q) < Len(q \o r)
  <2>1. Len(q \o r) = Len(q) + Len(r)
    BY ConcatProperties
  <2> QED
    BY <1>2, <2>1
<1> QED
  BY <1>4, <1>5, <1>6, Zenon DEF h, t

---------------------------------------------------------------------------
(* What the stream of an object is. *)

\* The inductive invariant: what recv() has returned for an object has been handed out
\* or is in its buffer, in this order.
Kept == \A s \in Sock : received[s] = eaten[s] \o buff[s]

\* The stream is made of bytes.
LEMMA StreamType ==
  ASSUME TypeOK, NEW s \in Sock
  PROVE  /\ eaten[s] \in Seq(Byte) /\ buff[s] \in Seq(Byte)
         /\ Len(eaten[s]) \in Nat /\ Len(buff[s]) \in Nat
         /\ eaten[s] \o buff[s] \in Seq(Byte)
         /\ Len(eaten[s] \o buff[s]) = Len(eaten[s]) + Len(buff[s])
<1>1. eaten[s] \in Seq(Byte) /\ buff[s] \in Seq(Byte)
  BY DEF TypeOK
<1> QED
  BY <1>1, LenProperties, ConcatProperties

\* Only the bytes of s change.
Only(s) == \A t \in Sock : t # s => eaten'[t] = eaten[t] /\ buff'[t] = buff[t]

\* A step in which recv() returns more for s, and it goes behind what s has.
Longer(s, more) ==
  /\ more \in Seq(Byte)
  /\ Only(s)
  /\ received' = [received EXCEPT ![s] = @ \o more]
  /\ eaten'[s] \o buff'[s] = (eaten[s] \o buff[s]) \o more

\* Nothing is lost in such a step, and it is one of a stream that grows.
LEMMA GrowsBy ==
  ASSUME TypeOK, Kept, NEW s \in Sock, NEW more, Longer(s, more)
  PROVE  Kept' /\ Stream!Grows(s)
<1>1. /\ received \in [Sock -> Seq(Byte)] /\ more \in Seq(Byte)
      /\ received' = [received EXCEPT ![s] = received[s] \o more]
  BY DEF TypeOK, Longer
<1>2. /\ Len(received[s]) <= Len(received[s] \o more)
      /\ SubSeq(received[s] \o more, 1, Len(received[s])) = received[s]
  BY <1>1, PieceBefore
<1>3. /\ received'[s] = received[s] \o more
      /\ \A t \in Sock : t # s => received'[t] = received[t]
      /\ received' = [received EXCEPT ![s] = received'[s]]
  BY <1>1
<1>4. Stream!Grows(s)
  BY <1>2, <1>3 DEF Stream!Grows
<1>5. received'[s] = eaten'[s] \o buff'[s]
  <2>1. received[s] = eaten[s] \o buff[s]
    BY DEF Kept
  <2> QED
    BY <1>3, <2>1, Zenon DEF Longer
<1>6. Kept'
  <2> SUFFICES ASSUME NEW t \in Sock PROVE received'[t] = eaten'[t] \o buff'[t]
    BY DEF Kept
  <2>1. CASE t = s
    BY <1>5, <2>1
  <2>2. CASE t # s
    <3>1. received'[t] = received[t] /\ eaten'[t] = eaten[t] /\ buff'[t] = buff[t]
      BY <1>3, <2>2 DEF Longer, Only
    <3> QED
      BY <3>1 DEF Kept
  <2> QED
    BY <2>1, <2>2
<1> QED
  BY <1>4, <1>6

\* What has left the buffer are the first bytes of the stream.
LEMMA PassedUpTo ==
  ASSUME TypeOK, TypeOK', Kept', NEW s \in Sock, Only(s)
  PROVE  Stream!PassUpTo(s, Len(eaten'[s]))
<1>1. eaten'[s] \in Seq(Byte) /\ buff'[s] \in Seq(Byte)
  BY DEF TypeOK
<1>2. SubSeq(eaten'[s] \o buff'[s], 1, Len(eaten'[s])) = eaten'[s]
  BY <1>1, PieceBefore
<1>3. SubSeq(received'[s], 1, Len(eaten'[s])) = eaten'[s]
  BY <1>2 DEF Kept
<1>4. eaten' = [eaten EXCEPT ![s] = eaten'[s]]
  BY DEF TypeOK, Only
<1> QED
  BY <1>3, <1>4 DEF Stream!PassUpTo

---------------------------------------------------------------------------
(* Steps. *)

\* Before the first step nothing is held and no byte has arrived.
LEMMA StreamInitial == Init => Kept /\ Stream!StreamInit
<1>1. <<>> \o <<>> = <<>>
  BY ConcatEmptySeq, EmptySeq
<1> QED
  BY <1>1 DEF Init, Kept, Stream!StreamInit

\* A step that leaves the bytes, the lines and the objects alone.
LEMMA StreamStutter ==
  ASSUME Kept, UNCHANGED <<exists, received, eaten, buff, lines>>
  PROVE  Kept' /\ UNCHANGED Stream!streamVars
  BY DEF Kept, Stream!streamVars

\* newSocket() starts a stream, the collector ends it.
LEMMA StreamOfLife ==
  ASSUME TypeOK, Kept, NEW s \in Sock, NewSocket(s) \/ Collect(s)
  PROVE  Kept' /\ Stream!StreamNext
<1>1. CASE NewSocket(s)
  <2>1. <<>> \o <<>> = <<>>
    BY ConcatEmptySeq, EmptySeq
  <2>2. /\ ~exists[s]
        /\ exists' = [exists EXCEPT ![s] = TRUE]
        /\ buff' = [buff EXCEPT ![s] = <<>>]
        /\ received' = [received EXCEPT ![s] = <<>>]
        /\ eaten' = [eaten EXCEPT ![s] = <<>>]
        /\ lines' = [lines EXCEPT ![s] = <<>>]
    BY <1>1 DEF NewSocket
  <2>3. Kept'
    BY <2>1, <2>2 DEF TypeOK, Kept
  <2>4. Stream!Fresh(s)
    BY <2>2 DEF Stream!Fresh
  <2> QED
    BY <2>2, <2>3, <2>4 DEF Stream!StreamNext
<1>2. CASE Collect(s)
  <2>1. /\ exists[s]
        /\ exists' = [exists EXCEPT ![s] = FALSE]
        /\ UNCHANGED <<received, eaten, buff, lines>>
    BY <1>2 DEF Collect
  <2>2. Stream!Drop(s) /\ Kept'
    BY <2>1 DEF Stream!Drop, Kept
  <2> QED
    BY <2>1, <2>2 DEF Stream!StreamNext
<1> QED
  BY <1>1, <1>2

\* What bufferize() appends to the buffer arrives at the end of the stream.
LEMMA StreamFilled ==
  ASSUME TypeOK, Kept, NEW s \in Sock, exists[s], Bufferize(s),
         UNCHANGED <<exists, eaten, lines>>,
         buff' = [buff EXCEPT ![s] = buff[s] \o Incoming(s)]
  PROVE  Kept' /\ Stream!StreamNext
<1>1. eaten[s] \in Seq(Byte) /\ buff[s] \in Seq(Byte) /\ Incoming(s) \in Seq(Byte)
  BY StreamType, IncomingType
<1>2. eaten'[s] = eaten[s] /\ buff'[s] = buff[s] \o Incoming(s) /\ Only(s)
  BY DEF TypeOK, Only
<1>3. eaten[s] \o (buff[s] \o Incoming(s)) = (eaten[s] \o buff[s]) \o Incoming(s)
  BY <1>1, Regrouped, Zenon
<1>4. Longer(s, Incoming(s))
  BY <1>1, <1>2, <1>3, TakenOffIsIncoming, Zenon DEF Longer
<1>5. Kept' /\ Stream!Grows(s)
  BY <1>4, GrowsBy
<1>6. Stream!Arrive(s)
  BY <1>5 DEF Stream!Arrive
<1> QED
  BY <1>5, <1>6 DEF Stream!StreamNext

\* The step of getline() that takes the first line of b off the buffer.
TakesLine(s, b) ==
  /\ buff' = [buff EXCEPT ![s] = SubSeq(b, LineEnd(b) + 1, Len(b))]
  /\ eaten' = [eaten EXCEPT ![s] = @ \o SubSeq(b, 1, LineEnd(b))]
  /\ lines' = [lines EXCEPT ![s] = Append(@, FirstLine(b))]
  /\ UNCHANGED exists

\* It cuts what was received and leaves the stream as it is.
LEMMA LineIsCut ==
  ASSUME TypeOK, NEW s \in Sock, NEW b, b = buff[s] \o Incoming(s), HasLine(b), TakesLine(s, b),
         Bufferize(s)
  PROVE  /\ eaten'[s] \o buff'[s] = eaten[s] \o b
         /\ Len(eaten'[s]) = Len(eaten[s]) + LineEnd(b)
         /\ Longer(s, Incoming(s))
<1> DEFINE n == LineEnd(b)
           head == SubSeq(b, 1, n)
           rest == SubSeq(b, n + 1, Len(b))
<1>1. /\ eaten[s] \in Seq(Byte) /\ buff[s] \in Seq(Byte) /\ Incoming(s) \in Seq(Byte)
      /\ b \in Seq(Byte)
      /\ Len(b) \in Nat
  BY StreamType, IncomingType, FilledType, LenProperties
<1>2. n \in 1 .. Len(b)
  BY <1>1, LineEndIsFirst
<1>3. /\ eaten'[s] = eaten[s] \o head
      /\ buff'[s] = rest
      /\ Only(s)
  <2> HIDE DEF head, rest
  <2>1. buff' = [buff EXCEPT ![s] = rest] /\ eaten' = [eaten EXCEPT ![s] = @ \o head]
    BY DEF TakesLine, head, rest
  <2> QED
    BY <2>1 DEF TypeOK, Only
<1> HIDE DEF n
<1>4. head \in Seq(Byte) /\ rest \in Seq(Byte)
  BY <1>1, <1>2, PieceType
<1>5. Len(head) = n
  <2>1. \A i \in 1 .. n : b[i] \in Byte
    BY <1>1, <1>2, ElementOfSeq
  <2> QED
    BY <1>2, <2>1, SubSeqProperties
<1>6. head \o rest = b
  <2>1. 1 \in 1 .. Len(b) + 1 /\ n \in 1 - 1 .. Len(b) /\ Len(b) \in n .. Len(b)
    BY <1>1, <1>2
  <2>2. head \o rest = SubSeq(b, 1, Len(b))
    BY <1>1, <2>1, ConcatAdjacentSubSeq
  <2> QED
    BY <1>1, <2>2, SubSeqFull
<1> HIDE DEF head, rest
<1>7. eaten'[s] \o buff'[s] = eaten[s] \o b
  <2>1. eaten[s] \o (head \o rest) = (eaten[s] \o head) \o rest
    <3>1. eaten[s] \in Seq(Byte) /\ head \in Seq(Byte) /\ rest \in Seq(Byte)
      BY <1>1, <1>4
    <3> QED
      BY <3>1, Regrouped, Zenon
  <2>2. eaten'[s] \o buff'[s] = (eaten[s] \o head) \o rest
    BY <1>3, Zenon
  <2> QED
    BY <1>6, <2>1, <2>2, Zenon
<1>8. Longer(s, Incoming(s))
  <2>1. eaten[s] \o (buff[s] \o Incoming(s)) = (eaten[s] \o buff[s]) \o Incoming(s)
    <3>1. eaten[s] \in Seq(Byte) /\ buff[s] \in Seq(Byte) /\ Incoming(s) \in Seq(Byte)
      BY <1>1
    <3> QED
      BY <3>1, Regrouped, Zenon
  <2> QED
    BY <1>1, <1>3, <1>7, <2>1, TakenOffIsIncoming, SMT DEF Longer
<1>9. Len(eaten'[s]) = Len(eaten[s]) + n
  <2>1. Len(eaten[s] \o head) = Len(eaten[s]) + Len(head)
    BY <1>1, <1>4, ConcatProperties
  <2> QED
    BY <1>3, <1>5, <2>1, Zenon
<1> QED
  BY <1>7, <1>8, <1>9 DEF n

\* getline() hands out the next line of the stream, wherever it was cut.
LEMMA StreamLine ==
  ASSUME TypeOK, TypeOK', Kept, NEW s \in Sock, exists[s], Bufferize(s),
         NEW b, b = buff[s] \o Incoming(s), HasLine(b), TakesLine(s, b)
  PROVE  Kept' /\ Stream!StreamNext
<1> DEFINE E == Len(eaten[s])
           e == E + LineEnd(b)
           a == received'[s]
           line == IF e - 1 > E /\ a[e - 1] = CR THEN SubSeq(a, E + 1, e - 2)
                                                 ELSE SubSeq(a, E + 1, e - 1)
<1>1. eaten[s] \in Seq(Byte) /\ b \in Seq(Byte)
  BY StreamType, FilledType
<1>2. eaten'[s] \o buff'[s] = eaten[s] \o b /\ Len(eaten'[s]) = e /\ Longer(s, Incoming(s))
  BY LineIsCut
<1>3. Kept' /\ Stream!Grows(s)
  BY <1>2, GrowsBy
<1>4. a = eaten[s] \o b
  BY <1>2, <1>3 DEF Kept
<1> HIDE DEF a
<1>5. NextLine(a, E, e, FirstLine(b))
  <2>1. e = E + LineEnd(b)
    OBVIOUS
  <2> HIDE DEF e
  <2> QED
    BY <1>1, <1>4, <2>1, LineOfStream
<1>6. Stream!PassUpTo(s, e)
  <2> HIDE DEF e
  <2> QED
    BY <1>2, <1>3, PassedUpTo DEF Longer
<1> HIDE DEF e
<1>7. lines' = [lines EXCEPT ![s] = Append(@, line)] /\ UNCHANGED exists
  <2>1. FirstLine(b) = line
    BY <1>5 DEF NextLine
  <2> HIDE DEF line
  <2> QED
    BY <2>1 DEF TakesLine
<1>8. Stream!HandLine(s)
  BY <1>3, <1>5, <1>6, <1>7 DEF NextLine, Stream!HandLine, a
<1> QED
  BY <1>3, <1>8 DEF Stream!StreamNext

\* getchar() and getchars() hand out what is next, or all there is.
LEMMA StreamBytes ==
  ASSUME TypeOK, TypeOK', Kept, NEW s \in Sock, GetChars(s) \/ GetChar(s)
  PROVE  Kept' /\ (Stream!StreamNext \/ UNCHANGED Stream!streamVars)
<1>1. /\ eaten[s] \in Seq(Byte) /\ buff[s] \in Seq(Byte)
      /\ Len(eaten[s]) \in Nat /\ Len(buff[s]) \in Nat
      /\ Len(eaten[s] \o buff[s]) = Len(eaten[s]) + Len(buff[s])
      /\ received[s] = eaten[s] \o buff[s]
      /\ UNCHANGED received
  BY StreamType DEF Kept, GetChars, GetChar
<1>2. CASE buff[s] = <<>>
  <2>1. UNCHANGED <<exists, eaten, buff, lines>>
    <3>1. eaten[s] \o <<>> = eaten[s]
      BY <1>1, ConcatEmptySeq
    <3>2. CASE GetChars(s)
      <4>1. eaten' = [eaten EXCEPT ![s] = eaten[s]] /\ buff' = [buff EXCEPT ![s] = buff[s]]
        BY <1>2, <3>1, <3>2 DEF GetChars
      <4> QED
        BY <3>2, <4>1 DEF GetChars, TypeOK
    <3>3. CASE GetChar(s)
      BY <1>2, <3>3 DEF GetChar
    <3> QED
      BY <3>2, <3>3
  <2> QED
    BY <1>1, <2>1, StreamStutter
<1>3. ASSUME buff[s] # <<>>, exists[s], UNCHANGED <<exists, lines>>,
             Only(s),
             eaten'[s] \o buff'[s] = eaten[s] \o buff[s],
             Len(eaten'[s]) \in {Len(eaten[s]) + 1, Len(eaten[s] \o buff[s])}
      PROVE  Kept' /\ Stream!StreamNext
  <2>1. Len(eaten[s]) < Len(received[s])
    BY <1>1, <1>3, Moved, Zenon
  <2>2. Kept'
    BY <1>1, <1>3 DEF Kept, Only
  <2>3. Stream!PassUpTo(s, Len(eaten'[s]))
    BY <1>3, <2>2, PassedUpTo
  <2>4. Stream!HandBytes(s)
    BY <1>1, <1>3, <2>1, <2>3 DEF Stream!HandBytes
  <2> QED
    BY <1>3, <2>2, <2>4 DEF Stream!StreamNext
<1>4. CASE buff[s] # <<>> /\ GetChars(s)
  <2>1. /\ eaten'[s] = eaten[s] \o buff[s] /\ buff'[s] = <<>>
        /\ exists[s] /\ UNCHANGED <<exists, lines>>
        /\ Only(s)
    BY <1>4 DEF GetChars, TypeOK, Only
  <2>2. (eaten[s] \o buff[s]) \o <<>> = eaten[s] \o buff[s]
    <3>1. eaten[s] \o buff[s] \in Seq(Byte)
      BY <1>1, ConcatProperties
    <3> QED
      BY <3>1, ConcatEmptySeq
  <2> QED
    BY <1>3, <1>4, <2>1, <2>2
<1>5. CASE buff[s] # <<>> /\ GetChar(s)
  <2> DEFINE h == Head(buff[s])
             r == Tail(buff[s])
  <2>1. /\ eaten'[s] = Append(eaten[s], h) /\ buff'[s] = r
        /\ exists[s] /\ UNCHANGED <<exists, lines>>
        /\ Only(s)
    BY <1>5 DEF GetChar, TypeOK, Only
  <2> HIDE DEF h, r
  <2>2. Append(eaten[s], h) \o r = eaten[s] \o buff[s] /\ Len(Append(eaten[s], h)) = Len(eaten[s]) + 1
    BY <1>1, <1>5, Moved, Zenon DEF h, r
  <2> QED
    BY <1>3, <1>5, <2>1, <2>2
<1> QED
  BY <1>2, <1>4, <1>5

\* Every call and every move of a peer keeps what was received, and is a step of the
\* stream, or none.
LEMMA StreamStep ==
  ASSUME TypeOK, TypeOK', Kept, [Next]_vars
  PROVE  Kept' /\ [Stream!StreamNext]_(Stream!streamVars)
<1>1. CASE UNCHANGED vars
  BY <1>1, StreamStutter DEF vars, objVars, histVars
<1>2. CASE PeerStep
  BY <1>2, StreamStutter DEF PeerStep, objVars, histVars
<1>3. CASE Tick
  BY <1>3, StreamStutter DEF Tick, objVars, histVars
<1>4. ASSUME NEW s \in Sock, Call(s)
      PROVE  Kept' /\ [Stream!StreamNext]_(Stream!streamVars)
  <2>1. CASE NewSocket(s) \/ Collect(s)
    BY <2>1, StreamOfLife
  <2>2. CASE ConnectSocket(s) \/ CloseSocket(s) \/ ReconnectSocket(s)
    <3>1. UNCHANGED <<exists, received, eaten, buff, lines>>
      BY <2>2 DEF ConnectSocket, CloseSocket, ReconnectSocket, ConnectFrom, objVars
    <3> QED
      BY <3>1, StreamStutter
  <2>3. CASE Poll(s)
    BY <2>3, StreamFilled DEF Poll
  <2>4. CASE GetLine(s)
    <3> DEFINE b == buff[s] \o Incoming(s)
    <3>1. CASE HasLine(b)
      <4>1. exists[s] /\ Bufferize(s) /\ TakesLine(s, b)
        BY <2>4, <3>1 DEF GetLine, TakesLine
      <4> QED
        BY <3>1, <4>1, StreamLine
    <3>2. CASE ~HasLine(b)
      <4>1. /\ exists[s] /\ Bufferize(s) /\ UNCHANGED <<exists, eaten, lines>>
            /\ buff' = [buff EXCEPT ![s] = b]
        BY <2>4, <3>2 DEF GetLine
      <4> QED
        BY <4>1, StreamFilled
    <3> QED
      BY <3>1, <3>2
  <2>5. CASE GetChars(s) \/ GetChar(s)
    BY <2>5, StreamBytes
  <2>6. CASE Write(s) \/ WriteChar(s)
    <3>1. UNCHANGED <<exists, received, eaten, buff, lines>>
      BY <2>6 DEF Write, WriteChar
    <3> QED
      BY <3>1, StreamStutter
  <2> QED
    BY <1>4, <2>1, <2>2, <2>3, <2>4, <2>5, <2>6 DEF Call
<1> QED
  BY <1>1, <1>2, <1>3, <1>4 DEF Next

\* Whatever calls a program makes, the socket is a stream to each of its objects: the
\* bytes handed out are the first of those recv() has taken off the connections, none
\* lost, repeated or reordered by bufferize(), getline(), getchar() and getchars(), and
\* a line is a line of that stream wherever recv() cut it.
THEOREM SocketIsStream == Spec => LinesAreOfTheStream
<1>1. Init => Kept /\ Stream!StreamInit
  BY StreamInitial
<1>2. TypeOK /\ TypeOK' /\ Kept /\ [Next]_vars
        => Kept' /\ [Stream!StreamNext]_(Stream!streamVars)
  BY StreamStep
<1> QED
  BY <1>1, <1>2, TypeCorrect, PTL DEF Spec, LinesAreOfTheStream, Stream!StreamSpec

---------------------------------------------------------------------------
(***************************************************************************)
(* Careful programs: for any number of objects, descriptors and            *)
(* connections, the descriptors of a careful program stay its own, none is *)
(* lost, nobody else reads or writes its connections, a line sent in part  *)
(* is the last of its connection, and only SIGPIPE kills it.               *)
(***************************************************************************)
(* The invariant. *)

\* No two descriptors lead to one connection, and an open one leads to a connection
\* that socket() has returned and close() has not ended.
TableIsSound(tbl, states) ==
  /\ \A f, g \in Fd : tbl[f] # NoConn /\ tbl[f] = tbl[g] => f = g
  /\ \A f \in Fd : tbl[f] # NoConn => states[tbl[f]] \notin {"free", "closed"}

\* Whoever owns a connection is the only one to have read or written it.
OwnerIsUser == \A s \in Sock : mine[s] # NoConn => users[mine[s]] = {s}

\* A connection is fresh until it is opened.
FreeIsFresh == \A c \in ConnId : st[c] = "free" => out[c] = <<>>

\* A message sent in part is the last one, and its author is disconnected.
PartIsLast ==
  \A c \in ConnId : \A i \in 1 .. Len(out[c]) :
    \/ out[c][i].whole
    \/ i = Len(out[c]) /\ \A s \in Sock : mine[s] = c => ~connected[s]

CarefulInv ==
  /\ CarefulDescriptorIsMine
  /\ CarefulNoLeak
  /\ TableIsSound(table, st)
  /\ OwnerIsUser
  /\ CarefulNoCrosstalk
  /\ FreeIsFresh
  /\ PartIsLast

---------------------------------------------------------------------------
(* A careful program is a program. *)

LEMMA CarefulStepIsAStep == [CarefulNext]_vars => [Next]_vars
  BY DEF CarefulNext, CarefulCall, Next, Call

LEMMA CarefulIsAProgram == CarefulSpec => Spec
  BY CarefulStepIsAStep, PTL DEF CarefulSpec, Spec

---------------------------------------------------------------------------
(* Opening and closing. *)

\* What CarefulInv says of everyone but s, with the table and the connection states
\* that socket() and connect() will find.
OthersOwn(s, tbl, states) ==
  /\ \A t \in Sock \ {s} : mine[t] # NoConn => sock[t] \in Fd /\ tbl[sock[t]] = mine[t]
  /\ \A f \in Fd : tbl[f] # NoConn =>
       \E t \in Sock \ {s} : sock[t] = f /\ mine[t] = tbl[f]
  /\ TableIsSound(tbl, states)

\* An object that owns nothing is in nobody's way.
LEMMA OthersOwnWithoutMe ==
  ASSUME TypeOK, CarefulInv, NEW s \in Sock, mine[s] = NoConn
  PROVE  OthersOwn(s, table, st)
  BY DEF CarefulInv, OthersOwn, CarefulDescriptorIsMine, CarefulNoLeak

\* close() of one's own descriptor takes nothing from the others.
LEMMA OthersOwnAfterClose ==
  ASSUME TypeOK, CarefulInv, NEW s \in Sock, mine[s] # NoConn
  PROVE  OthersOwn(s, TableWithout(sock[s]), StatesWithout(sock[s]))
<1> USE DEF TypeOK, NetTypeOK, CarefulInv, CarefulDescriptorIsMine, CarefulNoLeak,
            TableIsSound, OwnerIsUser
<1> DEFINE tbl == TableWithout(sock[s])
           states == StatesWithout(sock[s])
<1>1. /\ sock[s] \in Fd /\ table[sock[s]] = mine[s] /\ mine[s] \in ConnId
      /\ \A f \in Fd : tbl[f] = IF f = sock[s] THEN NoConn ELSE table[f]
      /\ \A c \in ConnId : states[c] = IF c = mine[s] THEN "closed" ELSE st[c]
  <2>1. CarefulDescriptorIsMine
    BY DEF CarefulInv
  <2>2. sock[s] \in Fd /\ table[sock[s]] = mine[s]
    BY <2>1 DEF CarefulDescriptorIsMine
  <2>3. mine[s] \in ConnId
    BY DEF TypeOK
  <2> HIDE DEF TypeOK, NetTypeOK, CarefulInv, CarefulDescriptorIsMine, CarefulNoLeak,
               TableIsSound, OwnerIsUser
  <2>4. \A f \in Fd : tbl[f] = IF f = sock[s] THEN NoConn ELSE table[f]
    BY DEF TableWithout
  <2>5. \A c \in ConnId : states[c] = IF c = mine[s] THEN "closed" ELSE st[c]
    BY <2>2 DEF StatesWithout
  <2> QED
    BY <2>2, <2>3, <2>4, <2>5
<1> HIDE DEF tbl, states
<1>2. ASSUME NEW t \in Sock \ {s}, mine[t] # NoConn
      PROVE  sock[t] \in Fd /\ tbl[sock[t]] = mine[t]
  <2>1. mine[t] # mine[s]
    <3>1. users[mine[t]] = {t} /\ users[mine[s]] = {s}
      BY <1>2
    <3> QED
      BY <3>1
  <2>2. sock[t] \in Fd /\ table[sock[t]] = mine[t]
    BY <1>2
  <2> QED
    BY <1>1, <2>1, <2>2
<1>3. ASSUME NEW f \in Fd, tbl[f] # NoConn
      PROVE  \E t \in Sock \ {s} : sock[t] = f /\ mine[t] = tbl[f]
  <2>1. f # sock[s] /\ tbl[f] = table[f]
    BY <1>1, <1>3
  <2>2. PICK t \in Sock : sock[t] = f /\ mine[t] = table[f]
    BY <1>3, <2>1
  <2> QED
    BY <2>1, <2>2
<1>4. TableIsSound(tbl, states)
  <2>1. ASSUME NEW f \in Fd, NEW g \in Fd, tbl[f] # NoConn, tbl[f] = tbl[g] PROVE f = g
    <3>1. tbl[f] = table[f] /\ tbl[g] = table[g] /\ table[f] # NoConn
      <4>1. tbl[g] # NoConn
        BY <2>1
      <4>2. \A h \in Fd : tbl[h] # NoConn => tbl[h] = table[h]
        BY <1>1
      <4> HIDE DEF TypeOK, NetTypeOK, CarefulInv, CarefulDescriptorIsMine, CarefulNoLeak,
                   TableIsSound, OwnerIsUser
      <4> QED
        BY <2>1, <4>1, <4>2
    <3>2. table[f] = table[g]
      BY <2>1, <3>1
    <3> QED
      BY <3>1, <3>2
  <2>2. ASSUME NEW f \in Fd, tbl[f] # NoConn PROVE states[tbl[f]] \notin {"free", "closed"}
    <3>1. /\ f # sock[s] /\ tbl[f] = table[f]
          /\ table[f] \in ConnId /\ st[table[f]] \notin {"free", "closed"}
      <4>1. f # sock[s] /\ tbl[f] = table[f] /\ table[f] # NoConn
        <5>1. tbl[f] = IF f = sock[s] THEN NoConn ELSE table[f]
          BY <1>1
        <5> HIDE DEF TypeOK, NetTypeOK, CarefulInv, CarefulDescriptorIsMine, CarefulNoLeak,
                     TableIsSound, OwnerIsUser
        <5> QED
          BY <2>2, <5>1
      <4>2. table[f] \in ConnId
        BY <2>2, <4>1
      <4>3. st[table[f]] \notin {"free", "closed"}
        <5>1. TableIsSound(table, st)
          BY DEF CarefulInv
        <5> HIDE DEF TypeOK, NetTypeOK, CarefulInv, CarefulDescriptorIsMine, CarefulNoLeak,
                     OwnerIsUser
        <5> QED
          BY <2>2, <4>1, <5>1 DEF TableIsSound
      <4> QED
        BY <4>1, <4>2, <4>3
    <3>2. table[f] # mine[s]
      <4>1. TableIsSound(table, st) /\ sock[s] \in Fd /\ table[sock[s]] = mine[s]
        BY <1>1 DEF CarefulInv
      <4> HIDE DEF TypeOK, NetTypeOK, CarefulInv, CarefulDescriptorIsMine, CarefulNoLeak,
                   OwnerIsUser
      <4>2. table[f] # NoConn
        BY <2>2, <3>1
      <4> QED
        BY <3>1, <4>1, <4>2 DEF TableIsSound
    <3>3. states[table[f]] = st[table[f]]
      <4>1. \A c \in ConnId : states[c] = IF c = mine[s] THEN "closed" ELSE st[c]
        BY <1>1
      <4> HIDE DEF TypeOK, NetTypeOK, CarefulInv, CarefulDescriptorIsMine, CarefulNoLeak,
                   TableIsSound, OwnerIsUser
      <4> QED
        BY <3>1, <3>2, <4>1
    <3> HIDE DEF TypeOK, NetTypeOK, CarefulInv, CarefulDescriptorIsMine, CarefulNoLeak,
                 TableIsSound, OwnerIsUser
    <3> QED
      BY <3>1, <3>3
  <2> QED
    BY <2>1, <2>2
<1> QED
  BY <1>2, <1>3, <1>4 DEF OthersOwn, tbl, states

\* What socket() and connect() make of such a table.
LEMMA ConnectKeepsCareful ==
  ASSUME TypeOK, CarefulInv, NEW s \in Sock,
         NEW tbl \in [Fd -> ConnId \cup {NoConn}], NEW states \in [ConnId -> ConnState],
         \A c \in ConnId : states[c] = st[c] \/ states[c] = "closed",
         OthersOwn(s, tbl, states), ConnectFrom(s, tbl, states)
  PROVE  CarefulInv'
<1>1. ASSUME NEW f \in Fd, NEW c \in ConnId, NEW up \in BOOLEAN,
             IsLowestFree(tbl, f),
             states[c] = "free",
             table' = [tbl EXCEPT ![f] = c],
             st' = [states EXCEPT ![c] = IF up THEN "up" ELSE "new"],
             sock' = [sock EXCEPT ![s] = f],
             connected' = [connected EXCEPT ![s] = up],
             mine' = [mine EXCEPT ![s] = c],
             users' = [users EXCEPT ![c] = {s}],
             out' = out
      PROVE  CarefulInv'
  <2>1. tbl[f] = NoConn /\ st[c] = "free" /\ c # NoConn
    BY <1>1, NetworkAssumption DEF IsLowestFree
  <2>2. /\ \A g \in Fd : table'[g] = IF g = f THEN c ELSE tbl[g]
        /\ \A t \in Sock \ {s} : sock'[t] = sock[t] /\ mine'[t] = mine[t] /\ connected'[t] = connected[t]
        /\ sock'[s] = f /\ mine'[s] = c
        /\ \A d \in ConnId : users'[d] = IF d = c THEN {s} ELSE users[d]
    BY <1>1 DEF TypeOK, NetTypeOK
  <2>3. \A d \in ConnId : st'[d] = "free" => d # c /\ st[d] = "free"
    BY <1>1
  <2>4. \A g \in Fd : tbl[g] # c
    BY <1>1, <2>1 DEF OthersOwn, TableIsSound
  <2>5. ASSUME NEW t \in Sock \ {s}, mine[t] # NoConn
        PROVE  /\ mine[t] \in ConnId /\ mine[t] # c
               /\ sock[t] \in Fd /\ sock[t] # f /\ tbl[sock[t]] = mine[t]
    BY <2>1, <2>4, <2>5 DEF OthersOwn, TypeOK
  <2>6. CarefulDescriptorIsMine'
    BY <2>2, <2>5 DEF CarefulDescriptorIsMine
  <2>7. CarefulNoLeak'
    <3>1. ASSUME NEW g \in Fd, table'[g] # NoConn
          PROVE  \E t \in Sock : sock'[t] = g /\ mine'[t] = table'[g]
      <4>1. CASE g = f
        BY <2>2, <4>1
      <4>2. CASE g # f
        <5>1. PICK t \in Sock \ {s} : sock[t] = g /\ mine[t] = tbl[g]
          BY <2>2, <3>1, <4>2 DEF OthersOwn
        <5> QED
          BY <2>2, <4>2, <5>1
      <4> QED
        BY <4>1, <4>2
    <3> QED
      BY <3>1 DEF CarefulNoLeak
  <2>8. TableIsSound(table', st')
    <3>1. \A g, h \in Fd : table'[g] # NoConn /\ table'[g] = table'[h] => g = h
      BY <2>2, <2>4 DEF OthersOwn, TableIsSound
    <3>2. ASSUME NEW g \in Fd, table'[g] # NoConn
          PROVE  st'[table'[g]] \notin {"free", "closed"}
      <4>1. CASE g = f
        BY <1>1, <2>2, <4>1
      <4>2. CASE g # f
        <5>1. /\ table'[g] = tbl[g] /\ tbl[g] \in ConnId /\ tbl[g] # c
              /\ states[tbl[g]] \notin {"free", "closed"}
          BY <2>2, <2>4, <3>2, <4>2 DEF OthersOwn, TableIsSound
        <5> QED
          BY <1>1, <5>1
      <4> QED
        BY <4>1, <4>2
    <3> QED
      BY <3>1, <3>2 DEF TableIsSound
  <2>9. OwnerIsUser'
    <3>1. ASSUME NEW t \in Sock, mine'[t] # NoConn PROVE users'[mine'[t]] = {t}
      <4>1. CASE t = s
        BY <2>2, <4>1
      <4>2. CASE t # s
        <5>1. mine'[t] = mine[t] /\ mine[t] \in ConnId /\ mine[t] # c
          BY <2>2, <2>5, <3>1, <4>2
        <5>2. users[mine[t]] = {t}
          BY <3>1, <5>1 DEF CarefulInv, OwnerIsUser
        <5> QED
          BY <2>2, <5>1, <5>2
      <4> QED
        BY <4>1, <4>2
    <3> QED
      BY <3>1 DEF OwnerIsUser
  <2>10. CarefulNoCrosstalk'
    BY <2>2 DEF CarefulInv, CarefulNoCrosstalk
  <2>11. FreeIsFresh'
    BY <1>1, <2>3 DEF CarefulInv, FreeIsFresh
  <2>12. PartIsLast'
    <3>1. ASSUME NEW d \in ConnId, NEW i \in 1 .. Len(out[d])
          PROVE  out[d][i].whole \/ (i = Len(out[d]) /\ \A t \in Sock : mine'[t] = d => ~connected'[t])
      <4>1. ASSUME d = c PROVE FALSE
        <5>1. out[d] = <<>> /\ Len(<<>>) = 0
          BY <2>1, <4>1, EmptySeq DEF CarefulInv, FreeIsFresh
        <5>2. i \in 1 .. 0
          BY <5>1
        <5> QED
          BY <5>2
      <4>2. \A t \in Sock : mine'[t] = d => mine[t] = d /\ (~connected[t] => ~connected'[t])
        BY <2>2, <4>1
      <4>3. out[d][i].whole \/ (i = Len(out[d]) /\ \A t \in Sock : mine[t] = d => ~connected[t])
        BY DEF CarefulInv, PartIsLast
      <4> QED
        BY <4>2, <4>3
    <3> QED
      BY <1>1, <3>1 DEF PartIsLast
  <2> QED
    BY <2>6, <2>7, <2>8, <2>9, <2>10, <2>11, <2>12 DEF CarefulInv
<1>2. ASSUME table' = tbl, st' = states,
             sock' = [sock EXCEPT ![s] = -1],
             connected' = [connected EXCEPT ![s] = FALSE],
             mine' = [mine EXCEPT ![s] = NoConn],
             users' = users, out' = out
      PROVE  CarefulInv'
  <2>1. /\ \A t \in Sock \ {s} : sock'[t] = sock[t] /\ mine'[t] = mine[t] /\ connected'[t] = connected[t]
        /\ mine'[s] = NoConn
    BY <1>2 DEF TypeOK
  <2>2. CarefulDescriptorIsMine' /\ CarefulNoLeak'
    BY <1>2, <2>1 DEF CarefulDescriptorIsMine, CarefulNoLeak, OthersOwn
  <2>3. TableIsSound(table', st')
    BY <1>2 DEF OthersOwn
  <2>4. OwnerIsUser' /\ CarefulNoCrosstalk' /\ FreeIsFresh'
    BY <1>2, <2>1 DEF CarefulInv, OwnerIsUser, CarefulNoCrosstalk, FreeIsFresh
  <2>5. PartIsLast'
    BY <1>2, <2>1, NetworkAssumption DEF CarefulInv, PartIsLast
  <2> QED
    BY <2>2, <2>3, <2>4, <2>5 DEF CarefulInv
<1> QED
  BY <1>1, <1>2 DEF ConnectFrom

LEMMA LifeKeepsCareful ==
  ASSUME TypeOK, CarefulInv, NEW s \in Sock,
         \/ mine[s] = NoConn /\ (NewSocket(s) \/ Collect(s) \/ ConnectSocket(s))
         \/ mine[s] # NoConn /\ (CloseSocket(s) \/ ReconnectSocket(s))
  PROVE  CarefulInv'
<1>1. CASE mine[s] = NoConn /\ NewSocket(s)
  <2>1. /\ UNCHANGED <<table, st, out, mine, users>>
        /\ \A t \in Sock \ {s} : sock'[t] = sock[t] /\ connected'[t] = connected[t]
    BY <1>1 DEF NewSocket, netVars, TypeOK
  <2>2. \A t \in Sock : mine[t] # NoConn => t # s
    BY <1>1
  <2>3. CarefulDescriptorIsMine'
    BY <2>1, <2>2 DEF CarefulInv, CarefulDescriptorIsMine
  <2>4. CarefulNoLeak'
    BY <2>1, <2>2 DEF CarefulInv, CarefulNoLeak
  <2>5. TableIsSound(table', st')
    BY <2>1 DEF CarefulInv
  <2>6. OwnerIsUser' /\ CarefulNoCrosstalk' /\ FreeIsFresh'
    BY <2>1 DEF CarefulInv, OwnerIsUser, CarefulNoCrosstalk, FreeIsFresh
  <2>7. PartIsLast'
    BY <2>1, <2>2, NetworkAssumption DEF CarefulInv, PartIsLast
  <2> QED
    BY <2>3, <2>4, <2>5, <2>6, <2>7 DEF CarefulInv
<1>2. CASE mine[s] = NoConn /\ Collect(s)
  <2>1. UNCHANGED <<table, st, out, users, sock, connected>> /\ mine' = mine
    BY <1>2 DEF Collect, netVars, TypeOK
  <2> QED
    BY <2>1 DEF CarefulInv, CarefulDescriptorIsMine, CarefulNoLeak, TableIsSound, OwnerIsUser,
                CarefulNoCrosstalk, FreeIsFresh, PartIsLast
<1>3. CASE mine[s] = NoConn /\ ConnectSocket(s)
  BY <1>3, OthersOwnWithoutMe, ConnectKeepsCareful DEF ConnectSocket, TypeOK, NetTypeOK
<1>4. CASE mine[s] # NoConn /\ CloseSocket(s)
  <2>1. /\ table' = TableWithout(sock[s])
        /\ st' = StatesWithout(sock[s])
        /\ UNCHANGED <<out, users, sock, connected>>
        /\ \A t \in Sock \ {s} : mine'[t] = mine[t]
        /\ mine'[s] = NoConn
    BY <1>4 DEF CloseSocket, objVars, TypeOK
  <2>2. OthersOwn(s, table', st')
    BY <1>4, <2>1, OthersOwnAfterClose
  <2>3. CarefulDescriptorIsMine' /\ CarefulNoLeak' /\ TableIsSound(table', st')
    BY <2>1, <2>2 DEF CarefulDescriptorIsMine, CarefulNoLeak, OthersOwn
  <2>4. \A c \in ConnId : st'[c] = "free" => st[c] = "free"
    BY <2>1 DEF StatesWithout
  <2>5. OwnerIsUser' /\ CarefulNoCrosstalk' /\ FreeIsFresh'
    BY <2>1, <2>4 DEF CarefulInv, OwnerIsUser, CarefulNoCrosstalk, FreeIsFresh
  <2>6. PartIsLast'
    BY <2>1, NetworkAssumption DEF CarefulInv, PartIsLast
  <2> QED
    BY <2>3, <2>5, <2>6 DEF CarefulInv
<1>5. CASE mine[s] # NoConn /\ ReconnectSocket(s)
  <2>1. \A c \in ConnId : \/ StatesWithout(sock[s])[c] = st[c]
                         \/ StatesWithout(sock[s])[c] = "closed"
    BY DEF StatesWithout
  <2> QED
    BY <1>5, <2>1, WithoutType, OthersOwnAfterClose, ConnectKeepsCareful DEF ReconnectSocket
<1> QED
  BY <1>1, <1>2, <1>3, <1>4, <1>5

---------------------------------------------------------------------------
(* Reading and writing. *)

\* The connection a careful program reads and writes is its own.
LEMMA MineIsBehind ==
  ASSUME TypeOK, CarefulInv, NEW s \in Sock, mine[s] # NoConn
  PROVE  ConnOf(s) = mine[s] /\ mine[s] \in ConnId
  BY DEF CarefulInv, CarefulDescriptorIsMine, ConnOf, Behind, TypeOK

\* Steps that move bytes only: no descriptor, owner or message changes, flags fall, and
\* only owners become users.
LEMMA QuietKeepsCareful ==
  ASSUME TypeOK, CarefulInv, UNCHANGED <<table, out, sock, mine>>,
         \A c \in ConnId : st'[c] = "free" => st[c] = "free",
         \A f \in Fd : table[f] # NoConn => st'[table[f]] \notin {"free", "closed"},
         \A t \in Sock : connected'[t] => connected[t],
         \/ users' = users
         \/ \E s \in Sock : /\ mine[s] # NoConn
                           /\ users' = [c \in ConnId |-> IF c = mine[s] THEN users[c] \cup {s}
                                                         ELSE users[c]]
  PROVE  CarefulInv'
<1>1. users' = users
  <2>1. ASSUME NEW s \in Sock, mine[s] # NoConn
        PROVE  users[mine[s]] \cup {s} = users[mine[s]]
    BY <2>1 DEF CarefulInv, OwnerIsUser
  <2>2. users \in [ConnId -> SUBSET Sock]
    BY DEF TypeOK
  <2>3. ASSUME NEW s \in Sock, mine[s] # NoConn,
               users' = [c \in ConnId |-> IF c = mine[s] THEN users[c] \cup {s} ELSE users[c]]
        PROVE  users' = users
    BY <2>1, <2>2, <2>3
  <2> QED
    BY <2>3
<1>2. CarefulDescriptorIsMine' /\ CarefulNoLeak'
  BY DEF CarefulInv, CarefulDescriptorIsMine, CarefulNoLeak
<1>3. TableIsSound(table', st')
  BY DEF CarefulInv, TableIsSound
<1>4. OwnerIsUser' /\ CarefulNoCrosstalk' /\ FreeIsFresh'
  BY <1>1 DEF CarefulInv, OwnerIsUser, CarefulNoCrosstalk, FreeIsFresh
<1>5. PartIsLast'
  BY DEF CarefulInv, PartIsLast
<1> QED
  BY <1>2, <1>3, <1>4, <1>5 DEF CarefulInv

LEMMA ReadKeepsCareful ==
  ASSUME TypeOK, CarefulInv, NEW s \in Sock,
         \/ mine[s] # NoConn /\ (Poll(s) \/ GetLine(s))
         \/ GetChars(s) \/ GetChar(s)
  PROVE  CarefulInv'
<1>1. /\ UNCHANGED <<table, st, out, sock, mine>>
      /\ \A t \in Sock : connected'[t] => connected[t]
  BY FlagFalls DEF Poll, GetLine, GetChars, GetChar, netVars
<1>2. CASE mine[s] # NoConn /\ (Poll(s) \/ GetLine(s))
  <2>1. Bufferize(s) /\ ConnOf(s) = mine[s]
    BY <1>2, MineIsBehind DEF Poll, GetLine
  <2>2. \/ users' = [c \in ConnId |-> IF c = mine[s] THEN users[c] \cup {s} ELSE users[c]]
        \/ users' = users
    BY <2>1 DEF Bufferize
  <2> QED
    BY <1>1, <1>2, <2>2, QuietKeepsCareful DEF CarefulInv, TableIsSound
<1>3. CASE GetChars(s) \/ GetChar(s)
  <2>1. users' = users
    BY <1>3 DEF GetChars, GetChar
  <2> QED
    BY <1>1, <2>1, QuietKeepsCareful DEF CarefulInv, TableIsSound
<1> QED
  BY <1>2, <1>3

LEMMA SendKeepsCareful ==
  ASSUME TypeOK, CarefulInv, NEW s \in Sock, mine[s] # NoConn, connected[s],
         NEW splittable \in BOOLEAN, Send(s, splittable),
         UNCHANGED <<table, st, sock, mine>>
  PROVE  CarefulInv'
<1>1. ConnOf(s) = mine[s] /\ mine[s] \in ConnId
  BY MineIsBehind
<1>2. ASSUME Writable(mine[s]), NEW whole \in BOOLEAN,
             out' = [out EXCEPT ![mine[s]] = Append(@, [by |-> s, whole |-> whole])],
             users' = [users EXCEPT ![mine[s]] = @ \cup {s}],
             \/ whole /\ UNCHANGED connected
             \/ connected' = [connected EXCEPT ![s] = FALSE]
      PROVE  CarefulInv'
  <2> DEFINE c == mine[s]
             m == [by |-> s, whole |-> whole]
  <2>1. users' = users
    <3>1. users[c] \cup {s} = users[c] /\ users \in [ConnId -> SUBSET Sock]
      BY DEF CarefulInv, OwnerIsUser, TypeOK
    <3> QED
      BY <1>1, <1>2, <3>1
  <2>2. out[c] \in Seq(Message) /\ m \in Message /\ m.whole = whole
    BY <1>1 DEF TypeOK, NetTypeOK, Message
  <2>3. /\ out'[c] = Append(out[c], m)
        /\ \A d \in ConnId \ {c} : out'[d] = out[d]
    BY <1>1, <1>2 DEF TypeOK, NetTypeOK
  <2>4. \A t \in Sock : t # s => connected'[t] = connected[t]
    BY <1>2 DEF TypeOK
  <2>5. CarefulDescriptorIsMine' /\ CarefulNoLeak' /\ TableIsSound(table', st')
    BY DEF CarefulInv, CarefulDescriptorIsMine, CarefulNoLeak, TableIsSound
  <2>6. OwnerIsUser' /\ CarefulNoCrosstalk'
    BY <2>1 DEF CarefulInv, OwnerIsUser, CarefulNoCrosstalk
  <2>7. FreeIsFresh'
    <3>1. st[c] # "free"
      BY <1>2 DEF Writable
    <3> QED
      BY <2>3, <3>1 DEF CarefulInv, FreeIsFresh
  <2>8. \A t \in Sock : mine[t] = c => t = s
    <3>1. \A t \in Sock : mine[t] = c => users[c] = {t}
      BY DEF CarefulInv, OwnerIsUser
    <3> QED
      BY <3>1
  <2>9. PartIsLast'
    <3>1. ASSUME NEW d \in ConnId, NEW i \in 1 .. Len(out'[d])
          PROVE  \/ out'[d][i].whole
                 \/ i = Len(out'[d]) /\ \A t \in Sock : mine[t] = d => ~connected'[t]
      <4>1. CASE d # c
        <5>1. out'[d] = out[d] /\ i \in 1 .. Len(out[d])
          BY <2>3, <3>1, <4>1
        <5>2. \/ out[d][i].whole
              \/ i = Len(out[d]) /\ \A t \in Sock : mine[t] = d => ~connected[t]
          BY <5>1 DEF CarefulInv, PartIsLast
        <5>3. \A t \in Sock : mine[t] = d => t # s
          BY <4>1
        <5> QED
          BY <2>4, <5>1, <5>2, <5>3
      <4>2. CASE d = c /\ i = Len(out[c]) + 1
        <5>1. out'[d][i] = m /\ Len(out'[d]) = i
          <6> HIDE DEF c, m
          <6>1. i = Len(out[c]) + 1 /\ out'[d] = Append(out[c], m)
            BY <2>3, <4>2
          <6> QED
            BY <2>2, <6>1, AppendProperties
        <5>2. CASE whole
          BY <2>2, <5>1, <5>2
        <5>3. CASE ~whole
          <6>1. connected'[s] = FALSE
            BY <1>2, <5>3 DEF TypeOK
          <6> QED
            BY <2>8, <4>2, <5>1, <6>1
        <5> QED
          BY <5>2, <5>3
      <4>3. CASE d = c /\ i \in 1 .. Len(out[c])
        <5>1. out'[d][i] = out[c][i]
          <6> HIDE DEF c, m
          <6>1. i \in 1 .. Len(out[c]) /\ out'[d] = Append(out[c], m)
            BY <2>3, <4>3
          <6> QED
            BY <2>2, <6>1, AppendProperties
        <5>2. out[c][i].whole
          BY <1>1, <4>3 DEF CarefulInv, PartIsLast
        <5> QED
          BY <5>1, <5>2
      <4>4. d = c => i \in 1 .. Len(out[c]) + 1
        BY <2>2, <2>3
      <4> QED
        BY <2>2, <4>1, <4>2, <4>3, <4>4
    <3> QED
      BY <3>1 DEF PartIsLast
  <2> QED
    BY <2>5, <2>6, <2>7, <2>9 DEF CarefulInv
<1>3. ASSUME UNCHANGED <<out, users>>,
             \A t \in Sock : connected'[t] => connected[t]
      PROVE  CarefulInv'
  BY <1>3, QuietKeepsCareful DEF CarefulInv, TableIsSound
<1>4. CASE connected' = [connected EXCEPT ![s] = FALSE] /\ UNCHANGED <<out, users>>
  <2>1. \A t \in Sock : connected'[t] => connected[t]
    BY <1>4 DEF TypeOK
  <2> QED
    BY <1>3, <1>4, <2>1
<1>5. CASE UNCHANGED <<out, users, connected>>
  BY <1>3, <1>5
<1>6. \/ UNCHANGED <<out, users, connected>>
      \/ connected' = [connected EXCEPT ![s] = FALSE] /\ UNCHANGED <<out, users>>
      \/ /\ Writable(mine[s])
         /\ \E whole \in BOOLEAN :
              /\ out' = [out EXCEPT ![mine[s]] = Append(@, [by |-> s, whole |-> whole])]
              /\ users' = [users EXCEPT ![mine[s]] = @ \cup {s}]
              /\ \/ whole /\ UNCHANGED connected
                 \/ connected' = [connected EXCEPT ![s] = FALSE]
  BY <1>1 DEF Send
<1> QED
  BY <1>2, <1>4, <1>5, <1>6

LEMMA WriteKeepsCareful ==
  ASSUME TypeOK, CarefulInv, NEW s \in Sock, mine[s] # NoConn, Write(s) \/ WriteChar(s)
  PROVE  CarefulInv'
<1>1. connected[s] /\ \E splittable \in BOOLEAN : Send(s, splittable)
  BY DEF Write, WriteChar
<1>2. UNCHANGED <<table, st, sock, mine>>
  BY DEF Write, WriteChar
<1> QED
  BY <1>1, <1>2, SendKeepsCareful

---------------------------------------------------------------------------
(* The theorems. *)

LEMMA CarefulStart == Init => CarefulInv
<1> SUFFICES ASSUME Init PROVE CarefulInv
  OBVIOUS
<1>1. /\ \A s \in Sock : mine[s] = NoConn
      /\ \A f \in Fd : table[f] = NoConn
      /\ \A c \in ConnId : users[c] = {} /\ out[c] = <<>> /\ Len(out[c]) = 0
  BY EmptySeq DEF Init, NetInit
<1>2. PartIsLast
  BY <1>1 DEF PartIsLast
<1> QED
  BY <1>1, <1>2 DEF CarefulInv, CarefulDescriptorIsMine, CarefulNoLeak, TableIsSound, OwnerIsUser,
     CarefulNoCrosstalk, FreeIsFresh

LEMMA CarefulStep == TypeOK /\ CarefulInv /\ [CarefulNext]_vars => CarefulInv'
<1> SUFFICES ASSUME TypeOK, CarefulInv, [CarefulNext]_vars PROVE CarefulInv'
  OBVIOUS
<1>1. ASSUME NEW s \in Sock, CarefulCall(s) PROVE CarefulInv'
  BY <1>1, LifeKeepsCareful, ReadKeepsCareful, WriteKeepsCareful DEF CarefulCall
<1>2. CASE PeerStep
  <2>1. UNCHANGED <<table, out, sock, mine, connected, users>>
    BY <1>2 DEF PeerStep, Peer, PeerSends, PeerCloses, PeerResets, objVars, histVars
  <2>2. /\ \A c \in ConnId : st'[c] = "free" => st[c] = "free"
        /\ \A c \in ConnId : st[c] \notin {"free", "closed"} => st'[c] \notin {"free", "closed"}
    BY <1>2 DEF PeerStep, Peer, PeerSends, PeerCloses, PeerResets, TypeOK, NetTypeOK
  <2>3. \A f \in Fd : table[f] # NoConn => st'[table[f]] \notin {"free", "closed"}
    BY <2>2 DEF CarefulInv, TableIsSound, TypeOK, NetTypeOK
  <2> QED
    BY <2>1, <2>2, <2>3, QuietKeepsCareful
<1>3. CASE Tick \/ UNCHANGED vars
  <2>1. UNCHANGED <<table, st, out, sock, mine, connected, users>>
    BY <1>3 DEF Tick, vars, netVars, objVars, histVars
  <2> QED
    BY <2>1, QuietKeepsCareful DEF CarefulInv, TableIsSound
<1> QED
  BY <1>1, <1>2, <1>3 DEF CarefulNext

\* In every state of a careful program the invariant holds.
THEOREM CarefulAlways == CarefulSpec => [](TypeOK /\ CarefulInv)
<1>1. CarefulSpec => []TypeOK
  BY CarefulIsAProgram, TypeCorrect, PTL
<1> QED
  BY <1>1, CarefulStart, CarefulStep, PTL DEF CarefulSpec

\* With any number of objects and descriptors, the descriptor a careful program's object
\* holds is open and is the connection it opened: connect_socket() and close_socket() of
\* the others never take it.
THEOREM DescriptorStaysMine == CarefulSpec => []CarefulDescriptorIsMine
<1>1. CarefulInv => CarefulDescriptorIsMine
  BY DEF CarefulInv
<1> QED
  BY <1>1, CarefulAlways, PTL

\* A careful program leaks no descriptor, although neither connect_socket() nor the Lua
\* collector closes one.
THEOREM NothingLeaks == CarefulSpec => []CarefulNoLeak
<1>1. CarefulInv => CarefulNoLeak
  BY DEF CarefulInv
<1> QED
  BY <1>1, CarefulAlways, PTL

\* bufferize() and write(), which look at nothing but the number, only ever touch the
\* connection the object opened itself.
THEOREM NobodyElseReads == CarefulSpec => []CarefulNoCrosstalk
<1>1. CarefulInv => CarefulNoCrosstalk
  BY DEF CarefulInv
<1> QED
  BY <1>1, CarefulAlways, PTL

\* After send() has taken part of a message, write() sends nothing more on that
\* connection: the peer gets no line joined to the rest of another.
THEOREM LinesStayWhole == CarefulSpec => []CarefulFraming
<1>1. TypeOK /\ CarefulInv => CarefulFraming
  <2> SUFFICES ASSUME TypeOK, CarefulInv, NEW c \in ConnId, NEW i \in 1 .. Len(out[c]) - 1
               PROVE  out[c][i].whole
    BY DEF CarefulFraming
  <2>1. Len(out[c]) \in Nat
    BY DEF TypeOK, NetTypeOK
  <2>2. i \in 1 .. Len(out[c]) /\ i # Len(out[c])
    BY <2>1
  <2> QED
    BY <2>2 DEF CarefulInv, PartIsLast
<1> QED
  BY <1>1, CarefulAlways, PTL

---------------------------------------------------------------------------
(* How high the descriptors of a careful program get. *)

\* A number that has fewer descriptors below it than there are objects is inside an
\* fd_set.  Where 0, 1 and 2 are open this is FD_SETSIZE - 3 objects at most.
FewObjects ==
  /\ IsFiniteSet(Sock)
  /\ \A f \in Fd : Cardinality({g \in Fd : g < f}) < Cardinality(Sock) => f < FdSetSize

\* FD_SET() has room for the descriptor of every object.
NumbersAreLow == \A s \in Sock : mine[s] # NoConn => sock[s] < FdSetSize

\* The lowest free descriptor has only descriptors of the others below it, and each of
\* them has one.
LEMMA LowestIsLow ==
  ASSUME FewObjects, NEW s \in Sock, NEW tbl, NEW states, OthersOwn(s, tbl, states),
         NEW f \in Fd, IsLowestFree(tbl, f)
  PROVE  f < FdSetSize
<1> DEFINE below == {g \in Fd : g < f}
           others == Sock \ {s}
           owner == [g \in below |-> CHOOSE t \in others : sock[t] = g]
<1>1. \A g \in below : \E t \in others : sock[t] = g
  <2>1. \A g \in below : tbl[g] # NoConn
    BY NetworkAssumption DEF IsLowestFree
  <2> QED
    BY <2>1 DEF OthersOwn
<1>2. owner \in [below -> others] /\ \A g \in below : sock[owner[g]] = g
  BY <1>1
<1>3. IsFiniteSet(below)
  <2>1. below \subseteq 0 .. f /\ f \in Nat
    <3>1. f \in Nat /\ \A g \in Fd : g \in Nat
      BY NetworkAssumption
    <3>2. \A g \in below : g \in Nat /\ g < f
      BY <3>1
    <3> HIDE DEF below
    <3> QED
      BY <3>1, <3>2
  <2>2. below \in SUBSET (0 .. f) /\ 0 \in Int /\ f \in Int
    BY <2>1
  <2>3. IsFiniteSet(0 .. f)
    BY <2>2, FS_Interval
  <2> HIDE DEF below
  <2> QED
    BY <2>2, <2>3, FS_Subset
<1>4. IsFiniteSet(others) /\ Cardinality(others) = Cardinality(Sock) - 1
  <2>1. IsFiniteSet(Sock) /\ s \in Sock
    BY DEF FewObjects
  <2>2. /\ IsFiniteSet(Sock \ {s})
        /\ Cardinality(Sock \ {s}) = IF s \in Sock THEN Cardinality(Sock) - 1 ELSE Cardinality(Sock)
    BY <2>1, FS_RemoveElement, Zenon
  <2> QED
    BY <2>2
<1>5. Cardinality(below) \in Nat /\ Cardinality(Sock) \in Nat
  BY <1>3, FS_CardinalityType DEF FewObjects
<1> HIDE DEF below, others, owner
<1>6. ~(Cardinality(others) < Cardinality(below))
  <2>1. SUFFICES ASSUME Cardinality(others) < Cardinality(below) PROVE FALSE
    OBVIOUS
  <2>2. \E x, y \in below : x # y /\ owner[x] = owner[y]
    BY <1>2, <1>3, <1>4, <2>1, FS_PigeonHole
  <2> QED
    BY <1>2, <2>2
<1>7. Cardinality(below) < Cardinality(Sock)
  BY <1>4, <1>5, <1>6
<1> QED
  BY <1>7 DEF FewObjects, below

LEMMA ConnectKeepsLow ==
  ASSUME FewObjects, TypeOK, NumbersAreLow, NEW s \in Sock, NEW tbl, NEW states,
         OthersOwn(s, tbl, states), ConnectFrom(s, tbl, states)
  PROVE  NumbersAreLow'
<1>1. \/ mine' = [mine EXCEPT ![s] = NoConn] /\ sock' = [sock EXCEPT ![s] = -1]
      \/ \E f \in Fd, c \in ConnId : /\ f < FdSetSize
                                    /\ sock' = [sock EXCEPT ![s] = f]
                                    /\ mine' = [mine EXCEPT ![s] = c]
  BY LowestIsLow DEF ConnectFrom
<1> QED
  BY <1>1 DEF NumbersAreLow, TypeOK

LEMMA LowStep ==
  ASSUME FewObjects, TypeOK, CarefulInv, NumbersAreLow, [CarefulNext]_vars
  PROVE  NumbersAreLow'
<1>1. ASSUME NEW s \in Sock, CarefulCall(s) PROVE NumbersAreLow'
  <2>1. CASE mine[s] = NoConn /\ (NewSocket(s) \/ Collect(s))
    BY <2>1 DEF NewSocket, Collect, NumbersAreLow, TypeOK
  <2>2. CASE mine[s] = NoConn /\ ConnectSocket(s)
    BY <2>2, OthersOwnWithoutMe, ConnectKeepsLow DEF ConnectSocket
  <2>3. CASE mine[s] # NoConn /\ CloseSocket(s)
    BY <2>3 DEF CloseSocket, objVars, NumbersAreLow, TypeOK
  <2>4. CASE mine[s] # NoConn /\ ReconnectSocket(s)
    BY <2>4, OthersOwnAfterClose, ConnectKeepsLow DEF ReconnectSocket
  <2>5. CASE Poll(s) \/ GetLine(s) \/ GetChars(s) \/ GetChar(s) \/ Write(s) \/ WriteChar(s)
    <3>1. UNCHANGED <<sock, mine>>
      BY <2>5 DEF Poll, GetLine, GetChars, GetChar, Write, WriteChar
    <3> QED
      BY <3>1 DEF NumbersAreLow
  <2> QED
    BY <1>1, <2>1, <2>2, <2>3, <2>4, <2>5 DEF CarefulCall
<1>2. CASE PeerStep \/ Tick \/ UNCHANGED vars
  <2>1. UNCHANGED <<sock, mine>>
    BY <1>2 DEF PeerStep, Tick, vars, objVars, histVars
  <2> QED
    BY <2>1 DEF NumbersAreLow
<1> QED
  BY <1>1, <1>2 DEF CarefulNext

---------------------------------------------------------------------------
(* What kills a careful program. *)

LEMMA CallsKillBySigpipe ==
  ASSUME TypeOK, CarefulInv, ConnectedWasEstablished, NumbersAreLow,
         NEW s \in Sock, CarefulCall(s), proc = "running", proc' = "killed"
  PROVE  \E t \in Sock : mine'[t] # NoConn /\ connected'[t] /\ st'[mine'[t]] = "rst"
<1>1. CASE NewSocket(s) \/ Collect(s) \/ ConnectSocket(s) \/ CloseSocket(s)
           \/ ReconnectSocket(s) \/ GetChars(s) \/ (buff[s] # <<>> /\ GetChar(s))
  BY <1>1 DEF NewSocket, Collect, ConnectSocket, CloseSocket, ReconnectSocket, ConnectFrom,
              GetChars, GetChar
<1>2. CASE mine[s] # NoConn /\ (Poll(s) \/ GetLine(s))
  <2>1. sock[s] \in Fd
    BY <1>2 DEF CarefulInv, CarefulDescriptorIsMine
  <2>2. Selectable(s)
    <3>1. sock[s] \in Nat /\ FdSetSize \in Nat
      BY <2>1, NetworkAssumption
    <3>2. sock[s] < FdSetSize
      BY <1>2 DEF NumbersAreLow
    <3> QED
      BY <3>1, <3>2 DEF Selectable
  <2>3. Bufferize(s)
    BY <1>2 DEF Poll, GetLine
  <2> QED
    BY <2>2, <2>3 DEF Bufferize
<1>3. CASE mine[s] # NoConn /\ (Write(s) \/ WriteChar(s))
  <2>1. ConnOf(s) = mine[s] /\ mine[s] \in ConnId
    BY <1>3, MineIsBehind
  <2>2. connected[s] /\ UNCHANGED <<st, mine, connected>> /\ ~Writable(ConnOf(s))
    BY <1>3 DEF Write, WriteChar, Send
  <2>3. st[mine[s]] \notin {"free", "closed"}
    BY <1>3, <2>1 DEF CarefulInv, TableIsSound, CarefulDescriptorIsMine
  <2>4. st[mine[s]] # "new"
    BY <1>3, <2>2 DEF ConnectedWasEstablished
  <2>5. st[mine[s]] \notin {"up", "fin"}
    BY <1>3, <2>1, <2>2 DEF Writable
  <2>6. st[mine[s]] \in ConnState
    BY <2>1 DEF TypeOK, NetTypeOK
  <2> QED
    BY <1>3, <2>1, <2>2, <2>3, <2>4, <2>5, <2>6 DEF ConnState
<1> QED
  BY <1>1, <1>2, <1>3 DEF CarefulCall

LEMMA DeathStep ==
  ASSUME TypeOK, CarefulInv, ConnectedWasEstablished, NumbersAreLow, CarefulDeathIsSigpipe,
         [CarefulNext]_vars
  PROVE  CarefulDeathIsSigpipe'
<1>1. CASE UNCHANGED vars
  BY <1>1 DEF CarefulDeathIsSigpipe, vars, netVars, objVars, histVars
<1>2. CASE (PeerStep \/ Tick) /\ proc = "running"
  BY <1>2 DEF PeerStep, Tick, CarefulDeathIsSigpipe
<1>3. ASSUME NEW s \in Sock, CarefulCall(s), proc = "running"
      PROVE  CarefulDeathIsSigpipe'
  BY <1>3, CallsKillBySigpipe DEF CarefulDeathIsSigpipe
<1> QED
  BY <1>1, <1>2, <1>3 DEF CarefulNext

\* A careful program with fewer objects than an fd_set has room for dies of SIGPIPE in
\* write() or not at all: socket() gives the lowest free number, so as long as no
\* descriptor is lost FD_SET() in bufferize() stays inside the set, however many the
\* process might open; and buff.at(0) in getchar() never throws.
THEOREM OnlySigpipeKills ==
  ASSUME FewObjects
  PROVE  CarefulSpec => []CarefulDeathIsSigpipe
<1>1. Init => CarefulDeathIsSigpipe /\ NumbersAreLow
  BY DEF Init, CarefulDeathIsSigpipe, NumbersAreLow
<1>2. ASSUME TypeOK, CarefulInv, ConnectedWasEstablished, NumbersAreLow,
             CarefulDeathIsSigpipe, [CarefulNext]_vars
      PROVE  CarefulDeathIsSigpipe' /\ NumbersAreLow'
  BY <1>2, DeathStep, LowStep
<1>3. CarefulSpec => []ConnectedWasEstablished
  BY CarefulIsAProgram, ConnectedIsEstablished, PTL
<1> QED
  BY <1>1, <1>2, <1>3, CarefulAlways, PTL DEF CarefulSpec
=============================================================================
