-------------------------- MODULE IrcServerProofs --------------------------
(***************************************************************************)
(* IrcServer, for any nicks, handlers, lines and bounds: its types, that   *)
(* lines are handled in the order in which the server sent them, and that  *)
(* whois() answers for the nick it was asked for.                          *)
(***************************************************************************)
EXTENDS IrcServer, SequenceTheorems, TLAPS

---------------------------------------------------------------------------
(* Sequences of lines and their serials. *)

Serials(s) == {s[i].n : i \in 1 .. Len(s)}

Increasing(s) == \A i, j \in 1 .. Len(s) : i < j => s[i].n < s[j].n

Ahead(s, t) == \A x \in Serials(s), y \in Serials(t) : x < y

\* A piece of a sequence of lines is one, with serials of the whole.
LEMMA PieceOfLines ==
  ASSUME NEW s \in Seq(Line), NEW a \in 1 .. Len(s) + 1, NEW b \in 0 .. Len(s)
  PROVE  /\ SubSeq(s, a, b) \in Seq(Line)
         /\ Serials(SubSeq(s, a, b)) \subseteq Serials(s)
         /\ Increasing(s) => Increasing(SubSeq(s, a, b))
<1> DEFINE p == SubSeq(s, a, b)
<1>1. Len(s) \in Nat /\ a \in Int /\ b \in Int /\ a >= 1 /\ b <= Len(s)
  BY LenProperties
<1>2. \A i \in a .. b : s[i] \in Line
  BY <1>1, ElementOfSeq
<1>3. /\ p \in Seq(Line)
      /\ Len(p) = IF a <= b THEN b - a + 1 ELSE 0
      /\ \A i \in 1 .. b - a + 1 : p[i] = s[a + i - 1]
  BY <1>1, <1>2, SubSeqProperties
<1> HIDE DEF p
<1>4. \A i \in 1 .. Len(p) : a + i - 1 \in 1 .. Len(s) /\ p[i] = s[a + i - 1]
  BY <1>1, <1>3
<1>5. Serials(p) \subseteq Serials(s)
  BY <1>4 DEF Serials
<1>6. Increasing(s) => Increasing(p)
  <2> SUFFICES ASSUME Increasing(s), NEW i \in 1 .. Len(p), NEW j \in 1 .. Len(p), i < j
               PROVE  p[i].n < p[j].n
    BY DEF Increasing
  <2>1. /\ a + i - 1 \in 1 .. Len(s) /\ a + j - 1 \in 1 .. Len(s)
        /\ a + i - 1 < a + j - 1
    BY <1>1, <1>3, <1>4
  <2> QED
    BY <1>4, <2>1 DEF Increasing
<1> QED
  BY <1>3, <1>5, <1>6 DEF p

\* The first n lines of a sequence are ahead of the others.
LEMMA CutOfLines ==
  ASSUME NEW s \in Seq(Line), Increasing(s), NEW n \in 0 .. Len(s)
  PROVE  Ahead(SubSeq(s, 1, n), SubSeq(s, n + 1, Len(s)))
<1> DEFINE p == SubSeq(s, 1, n)
           q == SubSeq(s, n + 1, Len(s))
<1>1. Len(s) \in Nat /\ n \in Nat
  BY LenProperties
<1>2. \A i \in 1 .. Len(s) : s[i] \in Line
  BY ElementOfSeq
<1>3. Len(p) = n /\ \A i \in 1 .. n : p[i] = s[i]
  BY <1>1, <1>2, SubSeqProperties
<1>4. Len(q) = Len(s) - n /\ \A i \in 1 .. Len(q) : q[i] = s[n + i]
  BY <1>1, <1>2, SubSeqProperties
<1> HIDE DEF p, q
<1>5. ASSUME NEW i \in 1 .. Len(p), NEW j \in 1 .. Len(q) PROVE p[i].n < q[j].n
  <2>1. i \in 1 .. Len(s) /\ n + j \in 1 .. Len(s) /\ i < n + j
    BY <1>1, <1>3, <1>4
  <2> QED
    BY <1>3, <1>4, <2>1 DEF Increasing
<1>6. Ahead(p, q)
  BY <1>5 DEF Ahead, Serials
<1> QED
  BY <1>6 DEF p, q

LEMMA AppendedLine ==
  ASSUME NEW s \in Seq(Line), NEW l \in Line
  PROVE  /\ Append(s, l) \in Seq(Line)
         /\ Serials(Append(s, l)) = Serials(s) \cup {l.n}
         /\ Increasing(s) /\ (\A x \in Serials(s) : x < l.n) => Increasing(Append(s, l))
<1> DEFINE a == Append(s, l)
<1>1. Len(s) \in Nat
  BY LenProperties
<1>2. /\ a \in Seq(Line)
      /\ Len(a) = Len(s) + 1
      /\ \A i \in 1 .. Len(s) : a[i] = s[i]
      /\ a[Len(s) + 1] = l
  BY AppendProperties
<1> HIDE DEF a
<1>3. \A i \in 1 .. Len(a) : i \in 1 .. Len(s) \/ i = Len(s) + 1
  BY <1>1, <1>2
<1>4. 1 .. Len(s) \subseteq 1 .. Len(a) /\ Len(s) + 1 \in 1 .. Len(a)
  BY <1>1, <1>2
<1>5. Serials(a) = Serials(s) \cup {l.n}
  BY <1>2, <1>3, <1>4 DEF Serials
<1>6. ASSUME Increasing(s), \A x \in Serials(s) : x < l.n
      PROVE  Increasing(a)
  <2> SUFFICES ASSUME NEW i \in 1 .. Len(a), NEW j \in 1 .. Len(a), i < j
               PROVE  a[i].n < a[j].n
    BY DEF Increasing
  <2>1. i \in 1 .. Len(s) /\ a[i] = s[i]
    BY <1>1, <1>2
  <2>2. s[i].n \in Serials(s)
    BY <2>1 DEF Serials
  <2>3. CASE j = Len(s) + 1
    BY <1>2, <1>6, <2>1, <2>2, <2>3
  <2>4. CASE j \in 1 .. Len(s)
    BY <1>2, <1>6, <2>1, <2>4 DEF Increasing
  <2> QED
    BY <1>3, <2>3, <2>4
<1> QED
  BY <1>2, <1>5, <1>6 DEF a

LEMMA JoinedLines ==
  ASSUME NEW s \in Seq(Line), NEW t \in Seq(Line)
  PROVE  /\ s \o t \in Seq(Line)
         /\ Serials(s \o t) = Serials(s) \cup Serials(t)
         /\ Increasing(s) /\ Increasing(t) /\ Ahead(s, t) => Increasing(s \o t)
<1> DEFINE c == s \o t
<1>1. Len(s) \in Nat /\ Len(t) \in Nat
  BY LenProperties
<1>2. /\ c \in Seq(Line)
      /\ Len(c) = Len(s) + Len(t)
      /\ \A i \in 1 .. Len(c) : c[i] = IF i <= Len(s) THEN s[i] ELSE t[i - Len(s)]
  BY ConcatProperties
<1> HIDE DEF c
<1>3. ASSUME NEW i \in 1 .. Len(s)
      PROVE  i \in 1 .. Len(c) /\ c[i] = s[i]
  BY <1>1, <1>2
<1>4. ASSUME NEW i \in 1 .. Len(t)
      PROVE  Len(s) + i \in 1 .. Len(c) /\ c[Len(s) + i] = t[i]
  <2>1. Len(s) + i \in 1 .. Len(c) /\ ~(Len(s) + i <= Len(s)) /\ (Len(s) + i) - Len(s) = i
    BY <1>1, <1>2
  <2> QED
    BY <1>2, <2>1
<1>5. ASSUME NEW i \in 1 .. Len(c)
      PROVE  \/ i \in 1 .. Len(s) /\ c[i] = s[i]
             \/ i > Len(s) /\ i - Len(s) \in 1 .. Len(t) /\ c[i] = t[i - Len(s)]
  <2>1. CASE i <= Len(s)
    BY <1>1, <1>2, <2>1
  <2>2. CASE ~(i <= Len(s))
    <3>1. i > Len(s) /\ i - Len(s) \in 1 .. Len(t)
      BY <1>1, <1>2, <2>2
    <3> QED
      BY <1>2, <2>2, <3>1
  <2> QED
    BY <2>1, <2>2
<1>6. Serials(c) = Serials(s) \cup Serials(t)
  <2>1. ASSUME NEW i \in 1 .. Len(c) PROVE c[i].n \in Serials(s) \cup Serials(t)
    BY <1>5 DEF Serials
  <2>2. ASSUME NEW i \in 1 .. Len(s) PROVE s[i].n \in Serials(c)
    BY <1>3 DEF Serials
  <2>3. ASSUME NEW i \in 1 .. Len(t) PROVE t[i].n \in Serials(c)
    <3>1. Len(s) + i \in 1 .. Len(c) /\ c[Len(s) + i].n = t[i].n
      BY <1>4
    <3> QED
      BY <3>1 DEF Serials
  <2>4. Serials(c) \subseteq Serials(s) \cup Serials(t)
    BY <2>1 DEF Serials
  <2>5. Serials(s) \cup Serials(t) \subseteq Serials(c)
    BY <2>2, <2>3 DEF Serials
  <2> QED
    BY <2>4, <2>5
<1>7. ASSUME Increasing(s), Increasing(t), Ahead(s, t)
      PROVE  Increasing(c)
  <2> SUFFICES ASSUME NEW i \in 1 .. Len(c), NEW j \in 1 .. Len(c), i < j
               PROVE  c[i].n < c[j].n
    BY DEF Increasing
  <2>1. CASE j \in 1 .. Len(s) /\ c[j] = s[j]
    <3>1. i \in 1 .. Len(s) /\ c[i] = s[i]
      BY <1>1, <1>2, <2>1
    <3> QED
      BY <1>7, <2>1, <3>1 DEF Increasing
  <2>2. CASE i \in 1 .. Len(s) /\ c[i] = s[i] /\ j - Len(s) \in 1 .. Len(t) /\ c[j] = t[j - Len(s)]
    BY <1>7, <2>2 DEF Ahead, Serials
  <2>3. CASE /\ i - Len(s) \in 1 .. Len(t) /\ c[i] = t[i - Len(s)]
             /\ j - Len(s) \in 1 .. Len(t) /\ c[j] = t[j - Len(s)]
    <3>1. i - Len(s) < j - Len(s)
      BY <1>1
    <3> QED
      BY <1>7, <2>3, <3>1 DEF Increasing
  <2> QED
    BY <1>1, <1>5, <2>1, <2>2, <2>3
<1> QED
  BY <1>2, <1>6, <1>7 DEF c

\* The first line of a sequence is ahead of the others.
LEMMA HeadOfLines ==
  ASSUME NEW s \in Seq(Line), s # <<>>
  PROVE  /\ Head(s) \in Line /\ Head(s) = s[1] /\ Head(s).n \in Serials(s)
         /\ Tail(s) \in Seq(Line) /\ Serials(Tail(s)) \subseteq Serials(s)
         /\ Increasing(s) => Increasing(Tail(s)) /\ \A y \in Serials(Tail(s)) : Head(s).n < y
<1> DEFINE t == Tail(s)
<1>1. Len(s) \in Nat /\ Len(s) >= 1
  BY EmptySeq
<1>2. Head(s) \in Line /\ Head(s) = s[1]
  BY HeadTailProperties
<1>3. t = SubSeq(s, 2, Len(s))
  BY TailIsSubSeq
<1>4. /\ t \in Seq(Line) /\ Serials(t) \subseteq Serials(s)
      /\ Increasing(s) => Increasing(t)
  <2>1. 2 \in 1 .. Len(s) + 1 /\ Len(s) \in 0 .. Len(s)
    BY <1>1
  <2> QED
    BY <1>3, <2>1, PieceOfLines
<1>5. Head(s).n \in Serials(s)
  BY <1>1, <1>2 DEF Serials
<1>6. ASSUME Increasing(s), NEW i \in 1 .. Len(t) PROVE Head(s).n < t[i].n
  <2>1. Len(t) = Len(s) - 1 /\ t[i] = s[i + 1]
    BY HeadTailProperties
  <2>2. 1 \in 1 .. Len(s) /\ i + 1 \in 1 .. Len(s) /\ 1 < i + 1
    BY <1>1, <2>1
  <2> QED
    BY <1>2, <1>6, <2>1, <2>2 DEF Increasing
<1> HIDE DEF t
<1>7. Increasing(s) => \A y \in Serials(t) : Head(s).n < y
  BY <1>6 DEF Serials
<1> QED
  BY <1>2, <1>4, <1>5, <1>7 DEF t

---------------------------------------------------------------------------
(* Types. *)

\* What a poll moves from the wire to the object, n lines at the front.
LEMMA ReadMoves ==
  ASSUME Socket!LineTypeOK, NEW n \in Socket!Chunk, Socket!Bufferize(n)
  PROVE  /\ wire' \in Seq(Line) /\ flag' \in BOOLEAN /\ link' \in Socket!LinkState
         /\ alive' = alive
         /\ Socket!Buffered(n) \in Seq(Line)
         /\ Serials(wire') \subseteq Serials(wire)
         /\ Serials(Socket!Buffered(n)) \subseteq Serials(ready) \cup Serials(wire)
         /\ Increasing(wire) /\ Increasing(ready) /\ Ahead(ready, wire)
              => /\ Increasing(wire')
                 /\ Increasing(Socket!Buffered(n))
                 /\ Ahead(Socket!Buffered(n), wire')
<1> DEFINE first == SubSeq(wire, 1, n)
<1> USE DEF Socket!LineTypeOK
<1>1. wire \in Seq(Line) /\ ready \in Seq(Line) /\ Len(wire) \in Nat
  BY LenProperties
<1>2. n \in 0 .. Len(wire) /\ n + 1 \in 1 .. Len(wire) + 1 /\ Len(wire) \in 0 .. Len(wire)
  BY <1>1 DEF Socket!Chunk
<1>3. wire' = SubSeq(wire, n + 1, Len(wire)) /\ Socket!Buffered(n) = ready \o first
  BY DEF Socket!Bufferize, Socket!Buffered
<1>4. /\ wire' \in Seq(Line) /\ Serials(wire') \subseteq Serials(wire)
      /\ Increasing(wire) => Increasing(wire')
  BY <1>1, <1>2, <1>3, PieceOfLines
<1>5. /\ first \in Seq(Line) /\ Serials(first) \subseteq Serials(wire)
      /\ Increasing(wire) => Increasing(first)
  BY <1>1, <1>2, PieceOfLines
<1>6. Increasing(wire) => Ahead(first, wire')
  BY <1>1, <1>2, <1>3, CutOfLines
<1>7. flag' \in BOOLEAN /\ link' \in Socket!LinkState /\ alive' = alive
  BY DEF Socket!Bufferize, Socket!LinkState
<1> HIDE DEF first
<1>8. /\ Socket!Buffered(n) \in Seq(Line)
      /\ Serials(Socket!Buffered(n)) = Serials(ready) \cup Serials(first)
      /\ Increasing(ready) /\ Increasing(first) /\ Ahead(ready, first)
           => Increasing(Socket!Buffered(n))
  BY <1>1, <1>3, <1>5, JoinedLines
<1>9. ASSUME Increasing(wire), Increasing(ready), Ahead(ready, wire)
      PROVE  Increasing(Socket!Buffered(n)) /\ Ahead(Socket!Buffered(n), wire')
  BY <1>4, <1>5, <1>6, <1>8, <1>9 DEF Ahead
<1> QED
  BY <1>4, <1>5, <1>7, <1>8, <1>9

\* Beside the types: whois() asks for somebody, and a line is taken when there is one.
AskedIsNick == caller = "whois" => asked \in Nick
LineIsThere == pc = "take" => ready # <<>>

TypeInv == TypeOK /\ AskedIsNick /\ LineIsThere

LEMMA TypeInitial == Init => TypeInv
<1> SUFFICES ASSUME Init PROVE TypeInv
  OBVIOUS
<1>1. Empty \in Line /\ <<Empty>> \in Seq(Line) /\ <<Empty>> # <<>>
  BY DEF Line, Empty, Kind
<1>2. /\ \A T : <<>> \in Seq(T)
      /\ {} \subseteq Nick \X (Nick \cup {NoNick})
      /\ 0 \in 0 .. MaxLines /\ 0 \in 0 .. MaxWhois
  BY EmptySeq, IrcAssumption
<1>3. Socket!LineTypeOK
  BY <1>2 DEF Init, Socket!LineInit, Socket!LineTypeOK, Socket!LinkState
<1> QED
  BY <1>1, <1>2, <1>3 DEF Init, TypeInv, TypeOK, AskedIsNick, LineIsThere, Label

LEMMA NumberedLine ==
  ASSUME serial \in Nat, NEW l \in Line
  PROVE  Numbered(l) \in Line /\ Numbered(l).n = serial + 1
<1>1. l.kind \in Kind /\ l.who \in Nick \cup {NoNick}
  BY DEF Line
<1>2. Numbered(l) = [n |-> serial + 1, kind |-> l.kind, who |-> l.who]
  BY DEF Numbered, Line
<1>3. serial + 1 \in Nat
  OBVIOUS
<1> QED
  BY <1>1, <1>2, <1>3 DEF Line

\* The server sends a line, numbered.
LEMMA TypeEmit ==
  ASSUME TypeInv, NEW l \in Line, Emit(l), unasked' \in 0 .. MaxLines, todo' \in Seq(Line)
  PROVE  TypeInv'
<1> USE DEF TypeInv, TypeOK
<1>1. Numbered(l) \in Line /\ serial + 1 \in Nat
  BY NumberedLine
<1>2. /\ wire' = Append(wire, Numbered(l)) /\ UNCHANGED <<ready, flag, link, alive>>
      /\ serial' = serial + 1
      /\ UNCHANGED <<handlers, pc, caller, buffer, cur, after, asked, user, whoises, histVars>>
  BY DEF Emit, Socket!PeerLine
<1>3. wire' \in Seq(Line)
  BY <1>1, <1>2, AppendedLine DEF Socket!LineTypeOK
<1> QED
  BY <1>1, <1>2, <1>3 DEF Socket!LineTypeOK, AskedIsNick, LineIsThere, histVars

LEMMA SendMoves ==
  ASSUME Socket!LineTypeOK, Send
  PROVE  Socket!LineTypeOK' /\ UNCHANGED <<wire, ready, link>>
  BY DEF Send, Socket!LineTypeOK, Socket!WriteLine, sockVars

\* What is left of self.buffer is never nil.
LEMMA RestOfBuffer ==
  ASSUME buffer \in Seq(Line), buffer # <<>>, Len(buffer) # 1
  PROVE  /\ BufferRest \in Seq(Line) /\ BufferRest # <<>>
         /\ \/ BufferRest = <<Empty>>
            \/ \E a \in 2 .. Len(buffer) : BufferRest = SubSeq(buffer, a, Len(buffer))
<1> DEFINE cut == IF IsEmpty(buffer[1]) THEN 2 ELSE 1
           rest == SubSeq(buffer, cut + 1, Len(buffer))
<1>1. Len(buffer) \in Nat /\ Len(buffer) >= 2
  <2>1. Len(buffer) \in Nat \ {0}
    BY EmptySeq
  <2> QED
    BY <2>1, SMTT(30)
<1>2. cut + 1 \in 2 .. 3 /\ cut + 1 \in 1 .. Len(buffer) + 1 /\ Len(buffer) \in 0 .. Len(buffer)
  BY <1>1
<1>3. rest \in Seq(Line)
  BY <1>2, PieceOfLines
<1>4. cut + 1 > Len(buffer) => rest = <<>>
  BY <1>1, <1>2, SubSeqEmpty
<1>5. Empty \in Line /\ <<Empty>> \in Seq(Line) /\ <<Empty>> # <<>>
  BY DEF Line, Empty, Kind
<1>6. BufferRest = IF rest = <<>> THEN <<Empty>> ELSE rest
  BY DEF BufferRest
<1> HIDE DEF rest
<1>7. CASE rest = <<>>
  BY <1>5, <1>6, <1>7
<1>8. CASE rest # <<>>
  <2>1. cut + 1 \in 2 .. Len(buffer)
    BY <1>1, <1>2, <1>4, <1>8
  <2> QED
    BY <1>3, <1>6, <1>8, <2>1 DEF rest
<1> QED
  BY <1>7, <1>8

\* getLine() takes the first complete line.
LEMMA LineTaken ==
  ASSUME Socket!LineTypeOK, ready # <<>>, Socket!GetLine
  PROVE  /\ Socket!LineTypeOK' /\ Head(ready) \in Line /\ Head(ready).n \in Serials(ready)
         /\ Serials(wire') \subseteq Serials(wire)
         /\ Serials(ready') \subseteq Serials(ready) \cup Serials(wire)
         /\ Increasing(wire) /\ Increasing(ready) /\ Ahead(ready, wire)
              => /\ Increasing(wire') /\ Increasing(ready') /\ Ahead(ready', wire')
                 /\ \A y \in Serials(ready') \cup Serials(wire') : Head(ready).n < y
<1>1. PICK n \in Socket!Chunk :
        /\ Socket!Bufferize(n)
        /\ ready' = IF Socket!Buffered(n) = <<>> THEN <<>> ELSE Tail(Socket!Buffered(n))
  BY DEF Socket!GetLine
<1> DEFINE b == Socket!Buffered(n)
<1>2. /\ wire' \in Seq(Line) /\ flag' \in BOOLEAN /\ link' \in Socket!LinkState /\ alive' = alive
      /\ b \in Seq(Line)
      /\ Serials(wire') \subseteq Serials(wire)
      /\ Serials(b) \subseteq Serials(ready) \cup Serials(wire)
      /\ Increasing(wire) /\ Increasing(ready) /\ Ahead(ready, wire)
           => Increasing(wire') /\ Increasing(b) /\ Ahead(b, wire')
  BY <1>1, ReadMoves
<1>3. Head(ready) \in Line /\ Head(ready).n \in Serials(ready) /\ Head(ready) = ready[1]
  BY HeadOfLines DEF Socket!LineTypeOK
<1>4. b # <<>> /\ b[1] = ready[1]
  <2>1. b = ready \o SubSeq(wire, 1, n) /\ Len(ready) \in Nat /\ Len(ready) >= 1
    BY EmptySeq DEF Socket!Buffered, Socket!LineTypeOK
  <2>2. n \in 0 .. Len(wire) /\ 1 \in 1 .. Len(wire) + 1
    BY LenProperties DEF Socket!Chunk, Socket!LineTypeOK
  <2>3. SubSeq(wire, 1, n) \in Seq(Line) /\ Len(SubSeq(wire, 1, n)) \in Nat
    BY <2>2, PieceOfLines, LenProperties DEF Socket!LineTypeOK
  <2>4. ready \in Seq(Line)
    BY DEF Socket!LineTypeOK
  <2>5. b # <<>>
    BY <2>1, <2>3, <2>4, ConcatProperties, EmptySeq
  <2> DEFINE first == SubSeq(wire, 1, n)
  <2> HIDE DEF first
  <2>6. (ready \o first)[1] = ready[1]
    BY <2>1, <2>3, <2>4, ConcatProperties DEF first
  <2> QED
    BY <2>1, <2>5, <2>6 DEF first
<1> HIDE DEF b
<1>5. /\ Head(b) = Head(ready) /\ ready' = Tail(b)
      /\ ready' \in Seq(Line) /\ Serials(ready') \subseteq Serials(b)
      /\ Increasing(b) => Increasing(ready') /\ \A y \in Serials(ready') : Head(ready).n < y
      /\ Head(ready).n \in Serials(b)
  <2>1. Head(b) = b[1]
    BY <1>2, <1>4, HeadOfLines
  <2>2. Head(b) = Head(ready) /\ ready' = Tail(b)
    BY <1>1, <1>3, <1>4, <2>1 DEF b
  <2> QED
    BY <1>2, <1>4, <2>2, HeadOfLines
<1> QED
  BY <1>2, <1>3, <1>5 DEF Ahead, Socket!LineTypeOK

LEMMA TypeServer == TypeInv /\ Server => TypeInv'
<1> SUFFICES ASSUME TypeInv, Server PROVE TypeInv'
  OBVIOUS
<1> USE DEF TypeInv, TypeOK
<1>1. ASSUME NEW kind \in Spontaneous, ServerSpeaks(kind) PROVE TypeInv'
  <2> DEFINE l == [n |-> 0, kind |-> kind, who |-> NoNick]
  <2>1. l \in Line
    BY IrcAssumption DEF Line
  <2>2. Emit(l) /\ unasked' \in 0 .. MaxLines /\ todo' \in Seq(Line)
    BY <1>1, IrcAssumption DEF ServerSpeaks
  <2> HIDE DEF l
  <2> QED
    BY <2>1, <2>2, TypeEmit
<1>2. CASE ServerAnswers
  <2>1. Head(todo) \in Line /\ Tail(todo) \in Seq(Line)
    BY <1>2, HeadTailProperties DEF ServerAnswers
  <2>2. Emit(Head(todo)) /\ unasked' \in 0 .. MaxLines /\ todo' \in Seq(Line)
    BY <1>2, <2>1 DEF ServerAnswers
  <2> QED
    BY <2>1, <2>2, TypeEmit
<1>3. CASE ServerEnds
  <2>1. Socket!LineTypeOK' /\ ready' = ready
    BY <1>3, EmptySeq DEF ServerEnds, Socket!PeerEnd, Socket!LineTypeOK, Socket!LinkState
  <2> QED
    BY <1>3, <2>1 DEF ServerEnds, AskedIsNick, LineIsThere, bookVars, histVars
<1> QED
  BY <1>1, <1>2, <1>3 DEF Server

LEMMA TypeScript == TypeInv /\ Script => TypeInv'
<1> SUFFICES ASSUME TypeInv, Script PROVE TypeInv'
  OBVIOUS
<1> USE DEF TypeInv, TypeOK, AskedIsNick, LineIsThere, Label
<1>1. CASE New
  BY <1>1 DEF New, Socket!Create, Socket!LineTypeOK, bookVars, histVars
<1>2. CASE ConnectServer
  BY <1>2 DEF ConnectServer, Socket!Connect, Socket!LineTypeOK, Socket!LinkState, bookVars, histVars
<1>3. ASSUME NEW from \in {"nick", "user", "handler"}, NEW to \in {"user", "test", "raw"},
             SendThen(from, to)
      PROVE  TypeInv'
  <2>1. Socket!LineTypeOK'
    BY <1>3, SendMoves DEF SendThen
  <2> QED
    BY <1>3, <2>1 DEF SendThen, bookVars, histVars
<1>4. CASE Test
  BY <1>4 DEF Test, Socket!LineTypeOK, sockVars, bookVars, histVars
<1>5. CASE Proceed
  <2>1. buffer' \in Seq(Line) /\ buffer' # <<>> /\ cur' \in Line /\ pc' \in {"poll", "dispatch", "test"}
    <3>1. CASE Len(buffer) = 1
      <4>1. Empty \in Line /\ <<Empty>> \in Seq(Line) /\ <<Empty>> # <<>>
        BY DEF Line, Empty, Kind
      <4>2. buffer[1] \in Line
        BY <3>1, ElementOfSeq
      <4> QED
        BY <1>5, <3>1, <4>1, <4>2 DEF Proceed
    <3>2. CASE Len(buffer) # 1
      BY <1>5, <3>2, RestOfBuffer DEF Proceed
    <3> QED
      BY <3>1, <3>2
  <2> QED
    BY <1>5, <2>1 DEF Proceed, Socket!LineTypeOK, sockVars, bookVars, histVars
<1>6. CASE CanGetLine
  <2>1. Socket!LineTypeOK'
    BY <1>6, ReadMoves DEF CanGetLine, Socket!CanGetLine, Socket!LineTypeOK
  <2> QED
    BY <1>6, <2>1 DEF CanGetLine, bookVars, histVars
<1>7. CASE TakeLine
  <2>1. Socket!LineTypeOK' /\ Head(ready) \in Line
    BY <1>7, LineTaken DEF TakeLine
  <2>2. CASE caller = "proceed" /\ cur' = Head(ready) /\ pc' = "dispatch"
             /\ UNCHANGED <<buffer, user, answers, missed>>
    BY <1>7, <2>1, <2>2 DEF TakeLine, bookVars
  <2>3. CASE caller = "whois" /\ WhoisLine(Head(ready)) /\ UNCHANGED cur
    <3>1. Head(ready).who \in Nick \cup {NoNick}
      BY <2>1 DEF Line
    <3>2. Append(buffer, Head(ready)) \in Seq(Line) /\ Append(buffer, Head(ready)) # <<>>
      BY <2>1, AppendProperties
    <3>3. /\ buffer' \in Seq(Line) /\ buffer' # <<>> /\ pc' \in {"handler", "poll"}
          /\ user' \in Nick \cup {NoNick}
          /\ answers' \subseteq Nick \X (Nick \cup {NoNick})
          /\ missed' \in BOOLEAN
      BY <2>3, <3>1, <3>2 DEF WhoisLine
    <3> QED
      BY <1>7, <2>1, <2>3, <3>3 DEF TakeLine, bookVars
  <2> QED
    BY <1>7, <2>2, <2>3 DEF TakeLine
<1>8. CASE Dispatch
  <2>1. cur.n \in Nat
    BY DEF Line
  <2>2. Append(log, cur.n) \in Seq(Nat)
    BY <2>1, AppendProperties
  <2> QED
    BY <1>8, <2>2 DEF Dispatch, Socket!LineTypeOK, sockVars, bookVars
<1>9. CASE Raw \/ HandlerReturns
  BY <1>9 DEF Raw, HandlerReturns, Socket!LineTypeOK, sockVars, bookVars, histVars
<1>10. ASSUME NEW nick \in Nick, CallWhois(nick) PROVE TypeInv'
  <2>1. Socket!LineTypeOK'
    BY <1>10, SendMoves DEF CallWhois
  <2>2. ASSUME NEW answer \in AnswersTo(nick) PROVE todo \o answer \in Seq(Line)
    <3>1. answer \in Seq(Line)
      <4>1. Reply("311", nick) \in Line /\ Reply("318", nick) \in Line /\ Reply("401", nick) \in Line
        BY DEF Reply, Line, Kind
      <4>2. \A l, k \in Line : <<l>> \in Seq(Line) /\ <<l, k>> \in Seq(Line)
        OBVIOUS
      <4>3. answer \in {<<Reply("311", nick), Reply("318", nick)>>, <<Reply("401", nick)>>,
                        <<Reply("401", nick), Reply("318", nick)>>}
        BY DEF AnswersTo
      <4> QED
        BY <4>1, <4>2, <4>3
    <3> QED
      BY <3>1, ConcatProperties
  <2>3. todo' \in Seq(Line)
    BY <1>10, <2>2 DEF CallWhois
  <2>4. whoises' \in 0 .. MaxWhois
    BY <1>10, IrcAssumption DEF CallWhois
  <2> QED
    BY <1>10, <2>1, <2>3, <2>4 DEF CallWhois, histVars
<1> QED
  BY <1>1, <1>2, <1>3, <1>4, <1>5, <1>6, <1>7, <1>8, <1>9, <1>10 DEF Script

LEMMA TypeStep == TypeInv /\ [Next]_vars => TypeInv'
<1>1. TypeInv /\ UNCHANGED vars => TypeInv'
  BY DEF vars, sockVars, bookVars, histVars, TypeInv, TypeOK, AskedIsNick, LineIsThere,
     Socket!LineTypeOK
<1> QED
  BY <1>1, TypeServer, TypeScript DEF Next

\* Every variable keeps its type: an emptied buffer is a string and never nil, and
\* getLine() hands its caller a line when can_getline() said there was one.
THEOREM TypeCorrect == Spec => []TypeOK
<1>1. TypeInv => TypeOK
  BY DEF TypeInv
<1> QED
  BY <1>1, TypeInitial, TypeStep, PTL DEF Spec

---------------------------------------------------------------------------
(***************************************************************************)
(* The order of lines.  A line is on the wire, then ready, and then handled *)
(* or kept in self.buffer until proceed() takes it from there; a line ahead *)
(* of another in this was sent before it.  proceed() asks the socket when  *)
(* nothing is kept.  The empty string in the buffer has the serial 0.      *)
(***************************************************************************)
Handled == {log[i] : i \in 1 .. Len(log)}

QueuesInOrder ==
  /\ Increasing(buffer) /\ Increasing(ready) /\ Increasing(wire)
  /\ Ahead(buffer, ready) /\ Ahead(buffer, wire) /\ Ahead(ready, wire)

SerialsAreSent ==
  /\ Serials(wire) \cup Serials(ready) \subseteq 1 .. serial
  /\ Serials(buffer) \subseteq 0 .. serial
  /\ \A i \in 1 .. Len(buffer) : buffer[i].n = 0 => IsEmpty(buffer[i])

\* A serial before those of all lines that are still to be read.
HandedOut(x) == x <= serial /\ \A y \in Serials(wire) \cup Serials(ready) : x < y

HandledFirst ==
  \A x \in Handled : HandedOut(x) /\ \A y \in Serials(buffer) \ {0} : x < y

CurIsNext ==
  pc = "dispatch" => /\ caller = "proceed" /\ HandedOut(cur.n)
                     /\ \A x \in Handled : x < cur.n

NothingKept == pc \in {"poll", "take", "dispatch"} /\ caller = "proceed" => buffer = <<Empty>>

OrderInv ==
  /\ HandledInOrder /\ QueuesInOrder /\ SerialsAreSent /\ HandledFirst /\ CurIsNext
  /\ NothingKept

LEMMA EmptyBuffer ==
  /\ Serials(<<>>) = {} /\ Increasing(<<>>)
  /\ <<Empty>> \in Seq(Line) /\ Serials(<<Empty>>) = {0} /\ Increasing(<<Empty>>)
  /\ \A i \in 1 .. Len(<<Empty>>) : IsEmpty(<<Empty>>[i])
<1>1. Empty \in Line /\ Empty.n = 0 /\ IsEmpty(Empty)
  BY DEF Line, Empty, Kind, IsEmpty
<1>2. \A e : /\ Len(<<e>>) = 1 /\ <<e>>[1] = e
             /\ Serials(<<e>>) = {e.n} /\ Increasing(<<e>>)
  BY DEF Serials, Increasing
<1>3. Serials(<<>>) = {} /\ Increasing(<<>>)
  BY DEF Serials, Increasing
<1> QED
  BY <1>1, <1>2, <1>3

LEMMA OrderInitial == Init => OrderInv
<1> SUFFICES ASSUME Init PROVE OrderInv
  OBVIOUS
<1>1. /\ buffer = <<Empty>> /\ wire = <<>> /\ ready = <<>> /\ log = <<>> /\ serial = 0
      /\ pc = "new"
  BY DEF Init, Socket!LineInit
<1>2. HandledInOrder /\ Handled = {}
  BY <1>1 DEF HandledInOrder, Handled
<1>3. QueuesInOrder /\ SerialsAreSent
  BY <1>1, EmptyBuffer DEF QueuesInOrder, SerialsAreSent, Ahead
<1> QED
  BY <1>1, <1>2, <1>3 DEF OrderInv, HandledFirst, CurIsNext, NothingKept

\* Lines may be read or dropped as long as they stay in order, and proceed() may go on
\* as long as it takes none.
LEMMA OrderKept ==
  ASSUME OrderInv, UNCHANGED <<buffer, log, serial>>,
         Serials(wire') \cup Serials(ready') \subseteq Serials(wire) \cup Serials(ready),
         Increasing(wire'), Increasing(ready'), Ahead(ready', wire'),
         pc' = "dispatch" => pc = "dispatch" /\ cur' = cur /\ caller' = caller,
         pc' \in {"poll", "take"} /\ caller' = "proceed" => pc \in {"poll", "take"} /\ caller = "proceed"
  PROVE  OrderInv'
<1> USE DEF OrderInv
<1>1. HandledInOrder' /\ Handled' = Handled /\ Serials(buffer)' = Serials(buffer)
  BY DEF HandledInOrder, Handled
<1>2. QueuesInOrder'
  BY DEF QueuesInOrder, Ahead
<1>3. SerialsAreSent'
  BY DEF SerialsAreSent
<1>4. \A x : HandedOut(x) => HandedOut(x)'
  BY DEF HandedOut
<1>5. HandledFirst'
  BY <1>1, <1>4 DEF HandledFirst
<1>6. CurIsNext' /\ NothingKept'
  BY <1>1, <1>4 DEF CurIsNext, NothingKept
<1> QED
  BY <1>1, <1>2, <1>3, <1>5, <1>6

LEMMA OrderEmit ==
  ASSUME TypeInv, OrderInv, NEW l \in Line, Emit(l)
  PROVE  OrderInv'
<1> USE DEF TypeInv, TypeOK, OrderInv
<1> DEFINE k == Numbered(l)
<1>1. k \in Line /\ k.n = serial + 1 /\ serial \in Nat
  BY NumberedLine
<1>2. /\ wire' = Append(wire, k) /\ serial' = serial + 1
      /\ UNCHANGED <<ready, buffer, log, pc, caller, cur>>
  BY DEF Emit, Socket!PeerLine, histVars
<1> HIDE DEF k
<1>3. wire \in Seq(Line)
  BY DEF Socket!LineTypeOK
<1>4. \A x \in Serials(wire) \cup Serials(ready) \cup Serials(buffer) : x \in 0 .. serial /\ x < k.n
  BY <1>1 DEF SerialsAreSent
<1>5. /\ Serials(wire') = Serials(wire) \cup {k.n} /\ Increasing(wire')
  BY <1>1, <1>2, <1>3, <1>4, AppendedLine DEF QueuesInOrder
<1>6. QueuesInOrder'
  BY <1>2, <1>4, <1>5 DEF QueuesInOrder, Ahead
<1>7. SerialsAreSent'
  BY <1>1, <1>2, <1>5 DEF SerialsAreSent
<1>8. ASSUME NEW x \in Int, HandedOut(x) PROVE HandedOut(x)'
  BY <1>1, <1>2, <1>5, <1>8 DEF HandedOut
<1>9. Handled \subseteq Nat /\ cur.n \in Nat
  BY ElementOfSeq DEF Handled, Line
<1>10. HandledInOrder' /\ Handled' = Handled
  BY <1>2 DEF HandledInOrder, Handled
<1>11. HandledFirst' /\ CurIsNext' /\ NothingKept'
  BY <1>2, <1>8, <1>9, <1>10 DEF HandledFirst, CurIsNext, NothingKept
<1> QED
  BY <1>6, <1>7, <1>10, <1>11

LEMMA OrderServer == TypeInv /\ OrderInv /\ Server => OrderInv'
<1> SUFFICES ASSUME TypeInv, OrderInv, Server PROVE OrderInv'
  OBVIOUS
<1>1. ASSUME NEW kind \in Spontaneous, ServerSpeaks(kind) PROVE OrderInv'
  <2> DEFINE l == [n |-> 0, kind |-> kind, who |-> NoNick]
  <2>1. l \in Line /\ Emit(l)
    BY <1>1, IrcAssumption DEF Line, ServerSpeaks
  <2> HIDE DEF l
  <2> QED
    BY <2>1, OrderEmit
<1>2. CASE ServerAnswers
  <2>1. Head(todo) \in Line /\ Emit(Head(todo))
    BY <1>2, HeadTailProperties DEF ServerAnswers, TypeInv, TypeOK
  <2> QED
    BY <2>1, OrderEmit
<1>3. CASE ServerEnds
  <2>1. /\ wire' \in {wire, <<>>} /\ UNCHANGED <<ready, buffer, log, serial, pc, caller, cur>>
    BY <1>3 DEF ServerEnds, Socket!PeerEnd, bookVars, histVars
  <2>2. /\ Serials(wire') \subseteq Serials(wire) /\ Increasing(wire') /\ Increasing(ready')
        /\ Ahead(ready', wire')
    BY <2>1, EmptyBuffer DEF OrderInv, QueuesInOrder, Ahead
  <2> QED
    BY <2>1, <2>2, OrderKept
<1> QED
  BY <1>1, <1>2, <1>3 DEF Server

\* proceed() takes what whois() kept: only a line that is alone is handled.
LEMMA OrderProceed ==
  ASSUME TypeInv, OrderInv, Proceed
  PROVE  OrderInv'
<1> USE DEF TypeInv, TypeOK, OrderInv
<1>1. /\ UNCHANGED <<wire, ready, log, serial>> /\ caller' = "proceed"
      /\ HandledInOrder' /\ Handled' = Handled
  BY DEF Proceed, sockVars, bookVars, histVars, HandledInOrder, Handled
<1>2. \A x : HandedOut(x)' <=> HandedOut(x)
  BY <1>1 DEF HandedOut
<1>3. /\ Serials(wire) \cup Serials(ready) \subseteq 1 .. serial
      /\ Serials(buffer) \subseteq 0 .. serial
  BY DEF SerialsAreSent
<1>4. ASSUME buffer' = <<Empty>>
      PROVE  QueuesInOrder' /\ SerialsAreSent' /\ HandledFirst' /\ NothingKept'
  BY <1>1, <1>2, <1>3, <1>4, EmptyBuffer
     DEF QueuesInOrder, SerialsAreSent, HandledFirst, NothingKept, Ahead
<1>5. CASE Len(buffer) = 1
  <2>1. /\ buffer' = <<Empty>> /\ cur' = buffer[1]
        /\ pc' = IF IsEmpty(buffer[1]) THEN "poll" ELSE "dispatch"
    BY <1>5 DEF Proceed
  <2>2. buffer[1].n \in Serials(buffer)
    BY <1>5 DEF Serials
  <2>3. ASSUME ~IsEmpty(buffer[1])
        PROVE  HandedOut(buffer[1].n) /\ \A x \in Handled : x < buffer[1].n
    <3>1. buffer[1].n # 0
      BY <1>5, <2>3 DEF SerialsAreSent
    <3> QED
      BY <1>3, <2>2, <3>1 DEF HandledFirst, HandedOut, QueuesInOrder, Ahead
  <2>4. CurIsNext'
    BY <1>1, <1>2, <2>1, <2>3 DEF CurIsNext
  <2> QED
    BY <1>1, <1>4, <2>1, <2>4
<1>6. CASE Len(buffer) # 1
  <2>1. buffer' = BufferRest /\ pc' = "test"
    BY <1>6 DEF Proceed
  <2>2. CurIsNext' /\ NothingKept'
    BY <2>1 DEF CurIsNext, NothingKept
  <2>3. CASE BufferRest = <<Empty>>
    BY <1>1, <1>4, <2>1, <2>2, <2>3
  <2>4. ASSUME NEW a \in 2 .. Len(buffer), BufferRest = SubSeq(buffer, a, Len(buffer))
        PROVE  OrderInv'
    <3>1. Len(buffer) \in Nat /\ a \in 1 .. Len(buffer) + 1 /\ Len(buffer) \in 0 .. Len(buffer)
      BY LenProperties
    <3>2. /\ Serials(buffer') \subseteq Serials(buffer)
          /\ Increasing(buffer')
      BY <2>1, <2>4, <3>1, PieceOfLines DEF QueuesInOrder
    <3>3. \A i \in 1 .. Len(buffer') : \E j \in 1 .. Len(buffer) : buffer'[i] = buffer[j]
      <4>1. \A i \in a .. Len(buffer) : buffer[i] \in Line
        BY <3>1, ElementOfSeq
      <4>2. /\ Len(buffer') = Len(buffer) - a + 1
            /\ \A i \in 1 .. Len(buffer) - a + 1 : buffer'[i] = buffer[a + i - 1]
        BY <2>1, <2>4, <3>1, <4>1, SubSeqProperties
      <4>3. \A i \in 1 .. Len(buffer) - a + 1 : a + i - 1 \in 1 .. Len(buffer)
        BY <3>1
      <4> QED
        BY <4>2, <4>3
    <3>4. QueuesInOrder' /\ SerialsAreSent'
      BY <1>1, <3>2, <3>3 DEF QueuesInOrder, SerialsAreSent, Ahead
    <3>5. HandledFirst'
      BY <1>1, <1>2, <3>2 DEF HandledFirst
    <3> QED
      BY <1>1, <2>2, <3>4, <3>5
  <2> QED
    BY <1>6, <2>3, <2>4, RestOfBuffer
<1> QED
  BY <1>5, <1>6

\* A line that is read goes to proceed(), which has nothing else, to the end of the
\* buffer, or nowhere.
LEMMA OrderTakeLine ==
  ASSUME TypeInv, OrderInv, TakeLine
  PROVE  OrderInv'
<1> USE DEF TypeInv, TypeOK, OrderInv
<1> DEFINE l == Head(ready)
<1>1. /\ Socket!LineTypeOK' /\ l \in Line /\ l.n \in Serials(ready)
      /\ Serials(wire') \subseteq Serials(wire)
      /\ Serials(ready') \subseteq Serials(ready) \cup Serials(wire)
      /\ Increasing(wire') /\ Increasing(ready') /\ Ahead(ready', wire')
      /\ \A y \in Serials(ready') \cup Serials(wire') : l.n < y
  BY LineTaken DEF TakeLine, LineIsThere, QueuesInOrder
<1>2. /\ UNCHANGED <<log, serial, caller>> /\ HandledInOrder' /\ Handled' = Handled
  BY DEF TakeLine, bookVars, HandledInOrder, Handled
<1>3. l.n \in 1 .. serial
  BY <1>1 DEF SerialsAreSent
<1> HIDE DEF l
<1>4. CASE caller = "proceed" /\ cur' = l /\ pc' = "dispatch" /\ buffer' = buffer
  <2>1. buffer = <<Empty>>
    BY <1>4 DEF TakeLine, NothingKept
  <2>2. QueuesInOrder' /\ SerialsAreSent' /\ NothingKept'
    BY <1>1, <1>2, <1>4, <2>1 DEF QueuesInOrder, SerialsAreSent, NothingKept, Ahead
  <2>3. HandledFirst'
    BY <1>1, <1>2, <1>4 DEF HandledFirst, HandedOut
  <2>4. CurIsNext'
    BY <1>1, <1>2, <1>3, <1>4 DEF CurIsNext, HandledFirst, HandedOut
  <2> QED
    BY <1>2, <2>2, <2>3, <2>4
<1>5. CASE caller = "whois" /\ WhoisLine(l)
  <2>1. pc' # "dispatch" /\ caller' # "proceed"
    BY <1>2, <1>5 DEF WhoisLine
  <2>2. CASE buffer' = buffer
    BY <1>1, <1>2, <2>1, <2>2, OrderKept
  <2>3. CASE buffer' = Append(buffer, l)
    <3>1. \A x \in Serials(buffer) : x < l.n
      BY <1>1 DEF QueuesInOrder, Ahead
    <3>2. Serials(buffer') = Serials(buffer) \cup {l.n} /\ Increasing(buffer')
      BY <1>1, <2>3, <3>1, AppendedLine DEF QueuesInOrder
    <3>3. \A i \in 1 .. Len(buffer') : \/ i \in 1 .. Len(buffer) /\ buffer'[i] = buffer[i]
                                       \/ buffer'[i] = l
      <4>1. /\ Len(buffer) \in Nat /\ Len(buffer') = Len(buffer) + 1
            /\ \A i \in 1 .. Len(buffer) : buffer'[i] = buffer[i]
            /\ buffer'[Len(buffer) + 1] = l
        BY <1>1, <2>3, AppendProperties, LenProperties
      <4> QED
        BY <4>1
    <3>4. SerialsAreSent'
      <4>1. Serials(wire') \cup Serials(ready') \subseteq 1 .. serial'
        BY <1>1, <1>2 DEF SerialsAreSent
      <4>2. Serials(buffer') \subseteq 0 .. serial'
        BY <1>2, <1>3, <3>2 DEF SerialsAreSent
      <4>3. \A i \in 1 .. Len(buffer') : buffer'[i].n = 0 => IsEmpty(buffer'[i])
        <5> SUFFICES ASSUME NEW i \in 1 .. Len(buffer'), buffer'[i].n = 0
                     PROVE  IsEmpty(buffer'[i])
          OBVIOUS
        <5>1. l.n # 0
          BY <1>3
        <5>2. i \in 1 .. Len(buffer) /\ buffer'[i] = buffer[i]
          BY <3>3, <5>1
        <5> QED
          BY <5>2 DEF SerialsAreSent
      <4> QED
        BY <4>1, <4>2, <4>3 DEF SerialsAreSent
    <3>5. QueuesInOrder'
      BY <1>1, <3>2 DEF QueuesInOrder, Ahead
    <3>6. HandledFirst'
      BY <1>1, <1>2, <3>2 DEF HandledFirst, HandedOut
    <3> QED
      BY <1>2, <2>1, <3>4, <3>5, <3>6 DEF CurIsNext, NothingKept
  <2> QED
    BY <1>5, <2>2, <2>3 DEF WhoisLine
<1> QED
  BY <1>4, <1>5 DEF TakeLine, l

LEMMA OrderDispatch ==
  ASSUME TypeInv, OrderInv, Dispatch
  PROVE  OrderInv'
<1> USE DEF TypeInv, TypeOK, OrderInv
<1>1. /\ UNCHANGED <<wire, ready, buffer, serial, caller, cur>> /\ pc' \notin {"poll", "take", "dispatch"}
      /\ buffer = <<Empty>> /\ HandedOut(cur.n) /\ \A x \in Handled : x < cur.n
  BY DEF Dispatch, sockVars, bookVars, CurIsNext, NothingKept
<1>2. QueuesInOrder' /\ SerialsAreSent' /\ CurIsNext' /\ NothingKept'
  BY <1>1 DEF QueuesInOrder, SerialsAreSent, CurIsNext, NothingKept
<1>3. \A x : HandedOut(x)' <=> HandedOut(x)
  BY <1>1 DEF HandedOut
<1>4. CASE log' = log
  <2>1. HandledInOrder' /\ Handled' = Handled
    BY <1>4 DEF HandledInOrder, Handled
  <2> QED
    BY <1>1, <1>2, <1>3, <2>1 DEF HandledFirst
<1>5. CASE log' = Append(log, cur.n)
  <2>1. cur.n \in Nat /\ Len(log) \in Nat
    BY LenProperties DEF Line
  <2>2. /\ Len(log') = Len(log) + 1
        /\ \A i \in 1 .. Len(log) : log'[i] = log[i]
        /\ log'[Len(log) + 1] = cur.n
    BY <1>5, <2>1, AppendProperties
  <2>3. \A i \in 1 .. Len(log') : i \in 1 .. Len(log) \/ i = Len(log) + 1
    BY <2>1, <2>2
  <2>4. \A x \in Handled' : x \in Handled \/ x = cur.n
    BY <2>2, <2>3 DEF Handled
  <2>5. \A i \in 1 .. Len(log) : log[i] < cur.n
    BY <1>1 DEF Handled
  <2>6. HandledInOrder'
    <3> SUFFICES ASSUME NEW i \in 1 .. Len(log'), NEW j \in 1 .. Len(log'), i < j
                 PROVE  log'[i] < log'[j]
      BY DEF HandledInOrder
    <3>1. i \in 1 .. Len(log) /\ log'[i] = log[i]
      BY <2>1, <2>2
    <3>2. CASE j \in 1 .. Len(log)
      BY <2>2, <3>1, <3>2 DEF HandledInOrder
    <3>3. CASE j = Len(log) + 1
      BY <2>2, <2>5, <3>1, <3>3
    <3> QED
      BY <2>3, <3>2, <3>3
  <2>7. HandledFirst'
    BY <1>1, <1>3, <2>4, EmptyBuffer DEF HandledFirst
  <2> QED
    BY <1>2, <2>6, <2>7
<1> QED
  BY <1>4, <1>5 DEF Dispatch

LEMMA OrderScript == TypeInv /\ OrderInv /\ Script => OrderInv'
<1> SUFFICES ASSUME TypeInv, OrderInv, Script PROVE OrderInv'
  OBVIOUS
<1>1. Increasing(wire) /\ Increasing(ready) /\ Ahead(ready, wire)
  BY DEF OrderInv, QueuesInOrder
<1>2. CASE New \/ ConnectServer \/ Test \/ Raw
  <2>1. UNCHANGED <<wire, ready, buffer, log, serial>> /\ pc' \notin {"poll", "take", "dispatch"}
    BY <1>2 DEF New, ConnectServer, Test, Raw, Socket!Create, Socket!Connect, sockVars, bookVars,
       histVars
  <2> QED
    BY <1>1, <2>1, OrderKept
<1>3. ASSUME NEW from, NEW to \in {"user", "test", "raw"}, SendThen(from, to) PROVE OrderInv'
  <2>1. UNCHANGED <<wire, ready, buffer, log, serial>> /\ pc' \notin {"poll", "take", "dispatch"}
    BY <1>3, SendMoves DEF SendThen, bookVars, histVars, TypeInv, TypeOK
  <2> QED
    BY <1>1, <2>1, OrderKept
<1>4. CASE HandlerReturns
  <2>1. UNCHANGED <<wire, ready, buffer, log, serial>> /\ pc' \notin {"poll", "take", "dispatch"}
    BY <1>4 DEF HandlerReturns, sockVars, bookVars, histVars, TypeInv, TypeOK
  <2> QED
    BY <1>1, <2>1, OrderKept
<1>5. ASSUME NEW nick \in Nick, CallWhois(nick) PROVE OrderInv'
  <2>1. UNCHANGED <<wire, ready, buffer, log, serial>> /\ pc' = "poll" /\ caller' = "whois"
    BY <1>5, SendMoves DEF CallWhois, histVars, TypeInv, TypeOK
  <2> QED
    BY <1>1, <2>1, OrderKept
<1>6. CASE CanGetLine
  <2>1. PICK n \in Socket!Chunk : Socket!Bufferize(n) /\ ready' = Socket!Buffered(n)
    BY <1>6 DEF CanGetLine, Socket!CanGetLine
  <2>2. /\ Serials(wire') \cup Serials(ready') \subseteq Serials(wire) \cup Serials(ready)
        /\ Increasing(wire') /\ Increasing(ready') /\ Ahead(ready', wire')
    BY <1>1, <2>1, ReadMoves DEF TypeInv, TypeOK
  <2>3. /\ UNCHANGED <<buffer, log, serial, caller>> /\ pc = "poll" /\ pc' # "dispatch"
    BY <1>6 DEF CanGetLine, bookVars, histVars
  <2> QED
    BY <2>2, <2>3, OrderKept
<1> QED
  BY <1>2, <1>3, <1>4, <1>5, <1>6, OrderProceed, OrderTakeLine, OrderDispatch
     DEF Script, TypeInv, TypeOK

LEMMA OrderStep == TypeInv /\ OrderInv /\ [Next]_vars => OrderInv'
<1>1. ASSUME OrderInv, UNCHANGED vars PROVE OrderInv'
  <2>1. UNCHANGED <<wire, ready, buffer, log, serial, pc, caller, cur>>
    BY <1>1 DEF vars, sockVars, bookVars, histVars
  <2>2. Increasing(wire') /\ Increasing(ready') /\ Ahead(ready', wire')
    BY <1>1, <2>1 DEF OrderInv, QueuesInOrder
  <2> QED
    BY <1>1, <2>1, <2>2, OrderKept
<1> QED
  BY <1>1, OrderServer, OrderScript DEF Next

\* However far whois() reads ahead, and whatever it hands back, proceed() handles the
\* lines in the order the server sent them and none twice.
THEOREM LinesInOrder == Spec => []HandledInOrder
<1>1. Init => TypeInv /\ OrderInv
  BY TypeInitial, OrderInitial
<1>2. TypeInv /\ OrderInv /\ [Next]_vars => (TypeInv /\ OrderInv)'
  BY TypeStep, OrderStep
<1>3. OrderInv => HandledInOrder
  BY DEF OrderInv
<1> QED
  BY <1>1, <1>2, <1>3, PTL DEF Spec

---------------------------------------------------------------------------
(* Answers to whois(). *)

\* What is still to be read, in the order in which getLine() will hand it out: what the
\* server owes counts as long as it can be sent.
Owed == IF link = "up" THEN todo ELSE <<>>
Awaited == (ready \o wire) \o Owed

\* whois() is in its loop.
Asking == caller = "whois" /\ pc \in {"poll", "take"}

NoEnd(q) == \A p \in 1 .. Len(q) : q[p].kind # "318"

\* When the line at p is reached the table describes nick: the loop has ended at a 401
\* before, or the last 311 read by then is nick's.
EndsRight(q, p, nick, table) ==
  \/ \E i \in 1 .. p - 1 : q[i].kind = "401"
  \/ \E i \in 1 .. p - 1 :
       /\ q[i].kind = "311" /\ q[i].who = nick
       /\ \A j \in i + 1 .. p - 1 : q[j].kind # "311"
  \/ table = nick /\ \A i \in 1 .. p - 1 : q[i].kind # "311"

\* A queue holds one 318 at most, and a right one.
Promised(q, nick, table) ==
  \A p \in 1 .. Len(q) :
    q[p].kind = "318" =>
      /\ \A r \in 1 .. Len(q) : q[r].kind = "318" => r = p
      /\ EndsRight(q, p, nick, table)

LEMMA ReadPromised ==
  ASSUME NEW q \in Seq(Line), q # <<>>, NEW nick, NEW table
  PROVE  /\ NoEnd(q) => NoEnd(Tail(q))
         /\ Promised(q, nick, table) =>
              /\ Head(q).kind = "318" => table = nick /\ NoEnd(Tail(q))
              /\ Head(q).kind \notin {"318", "401"} =>
                   Promised(Tail(q), nick, IF Head(q).kind = "311" THEN Head(q).who ELSE table)
<1> DEFINE t == Tail(q)
           read == IF q[1].kind = "311" THEN q[1].who ELSE table
<1>1. /\ Len(q) \in Nat /\ Len(q) >= 1 /\ Head(q) = q[1]
      /\ Len(t) = Len(q) - 1 /\ \A i \in 1 .. Len(t) : t[i] = q[i + 1]
  BY EmptySeq, HeadTailProperties
<1> HIDE DEF t
<1>2. \A i \in 1 .. Len(t) : i + 1 \in 1 .. Len(q)
  BY <1>1
<1>3. NoEnd(q) => NoEnd(t)
  BY <1>1, <1>2 DEF NoEnd
<1>4. ASSUME Promised(q, nick, table), q[1].kind = "318"
      PROVE  table = nick /\ NoEnd(t)
  <2>1. 1 \in 1 .. Len(q)
    BY <1>1
  <2>2. EndsRight(q, 1, nick, table) /\ \A r \in 1 .. Len(q) : q[r].kind = "318" => r = 1
    BY <1>4, <2>1 DEF Promised
  <2>3. table = nick
    BY <2>2 DEF EndsRight
  <2>4. \A i \in 1 .. Len(t) : i + 1 # 1
    BY <1>1
  <2> QED
    BY <1>1, <1>2, <2>2, <2>3, <2>4 DEF NoEnd
<1>5. ASSUME Promised(q, nick, table), q[1].kind \notin {"318", "401"}
      PROVE  Promised(t, nick, read)
  <2> SUFFICES ASSUME NEW p \in 1 .. Len(t), t[p].kind = "318"
               PROVE  /\ \A r \in 1 .. Len(t) : t[r].kind = "318" => r = p
                      /\ EndsRight(t, p, nick, read)
    BY DEF Promised
  <2>1. p + 1 \in 1 .. Len(q) /\ q[p + 1].kind = "318"
    BY <1>1, <1>2
  <2>2. /\ \A r \in 1 .. Len(q) : q[r].kind = "318" => r = p + 1
        /\ EndsRight(q, p + 1, nick, table)
    BY <1>5, <2>1 DEF Promised
  <2>3. \A r \in 1 .. Len(t) : t[r].kind = "318" => r = p
    <3> SUFFICES ASSUME NEW r \in 1 .. Len(t), t[r].kind = "318" PROVE r = p
      OBVIOUS
    <3>1. r + 1 = p + 1
      BY <1>1, <1>2, <2>2
    <3> QED
      BY <3>1
  <2>4. \A i \in 1 .. p - 1 : t[i] = q[i + 1] /\ i + 1 \in 2 .. p
    BY <1>1
  <2>5. \A i \in 2 .. p : i - 1 \in 1 .. p - 1 /\ q[i] = t[i - 1]
    <3> SUFFICES ASSUME NEW i \in 2 .. p PROVE i - 1 \in 1 .. p - 1 /\ q[i] = t[i - 1]
      OBVIOUS
    <3>1. i - 1 \in 1 .. p - 1 /\ (i - 1) + 1 = i
      OBVIOUS
    <3> QED
      BY <2>4, <3>1
  <2>6. (p + 1) - 1 = p /\ 1 \in 1 .. p /\ \A i \in 1 .. p : i = 1 \/ i \in 2 .. p
    BY <1>1
  <2>7. CASE \E i \in 1 .. p : q[i].kind = "401"
    <3>1. PICK i \in 2 .. p : q[i].kind = "401"
      BY <1>5, <2>6, <2>7
    <3> QED
      BY <2>3, <2>5, <3>1 DEF EndsRight
  <2>8. ASSUME NEW i \in 1 .. p, q[i].kind = "311", q[i].who = nick,
               \A j \in i + 1 .. p : q[j].kind # "311"
        PROVE  EndsRight(t, p, nick, read)
    <3>1. CASE i = 1
      <4>1. \A j \in 1 .. p - 1 : t[j].kind # "311"
        BY <2>4, <2>8, <3>1
      <4> QED
        BY <2>8, <3>1, <4>1 DEF EndsRight
    <3>2. CASE i \in 2 .. p
      <4>1. i - 1 \in 1 .. p - 1 /\ t[i - 1].kind = "311" /\ t[i - 1].who = nick
        BY <2>5, <2>8, <3>2
      <4>2. \A j \in (i - 1) + 1 .. p - 1 : j + 1 \in i + 1 .. p /\ j \in 1 .. p - 1
        BY <3>2
      <4>3. \A j \in (i - 1) + 1 .. p - 1 : t[j].kind # "311"
        BY <2>4, <2>8, <4>2
      <4> QED
        BY <4>1, <4>3 DEF EndsRight
    <3> QED
      BY <2>6, <3>1, <3>2
  <2>9. CASE table = nick /\ \A i \in 1 .. p : q[i].kind # "311"
    <3>1. read = nick
      BY <2>6, <2>9
    <3>2. \A i \in 1 .. p - 1 : t[i].kind # "311"
      <4>1. \A i \in 1 .. p - 1 : i + 1 \in 1 .. p
        OBVIOUS
      <4> QED
        BY <2>4, <2>9, <4>1
    <3> HIDE DEF read
    <3>3. read = nick /\ \A i \in 1 .. p - 1 : t[i].kind # "311"
      BY <3>1, <3>2
    <3> QED
      BY <2>3, <3>3 DEF EndsRight
  <2>10. \/ \E i \in 1 .. p : q[i].kind = "401"
         \/ \E i \in 1 .. p : /\ q[i].kind = "311" /\ q[i].who = nick
                              /\ \A j \in i + 1 .. p : q[j].kind # "311"
         \/ table = nick /\ \A i \in 1 .. p : q[i].kind # "311"
    BY <2>2, <2>6 DEF EndsRight
  <2>11. EndsRight(t, p, nick, read)
    BY <2>7, <2>8, <2>9, <2>10 DEF EndsRight
  <2> QED
    BY <2>3, <2>11
<1> QED
  BY <1>1, <1>3, <1>4, <1>5 DEF t

\* A queue of the same lines, or of the first of them.
LEMMA CutPromised ==
  ASSUME NEW q \in Seq(Line), NEW r \in Seq(Line), NEW nick, NEW table, Len(r) <= Len(q),
         \A i \in 1 .. Len(r) : r[i].kind = q[i].kind /\ r[i].who = q[i].who
  PROVE  /\ NoEnd(q) => NoEnd(r)
         /\ Promised(q, nick, table) => Promised(r, nick, table)
<1>1. Len(q) \in Nat /\ Len(r) \in Nat /\ 1 .. Len(r) \subseteq 1 .. Len(q)
  BY LenProperties
<1>2. NoEnd(q) => NoEnd(r)
  BY <1>1 DEF NoEnd
<1>3. ASSUME Promised(q, nick, table), NEW p \in 1 .. Len(r), r[p].kind = "318"
      PROVE  /\ \A x \in 1 .. Len(r) : r[x].kind = "318" => x = p
             /\ EndsRight(r, p, nick, table)
  <2>1. /\ \A x \in 1 .. Len(q) : q[x].kind = "318" => x = p
        /\ EndsRight(q, p, nick, table)
    BY <1>1, <1>3 DEF Promised
  <2>2. \A i \in 1 .. p - 1 : i \in 1 .. Len(r)
    BY <1>1
  <2>3. \A i \in 1 .. p - 1 : \A j \in i + 1 .. p - 1 : j \in 1 .. Len(r)
    BY <1>1
  <2>4. EndsRight(r, p, nick, table)
    BY <2>1, <2>2, <2>3 DEF EndsRight
  <2> QED
    BY <1>1, <2>1, <2>4
<1> QED
  BY <1>2, <1>3 DEF Promised

\* A line that the server sends of itself comes in before what it owes.
LEMMA SpokenPromised ==
  ASSUME NEW a \in Seq(Line), NEW b \in Seq(Line), NEW l \in Line, NEW nick, NEW table,
         l.kind \notin {"311", "318"}
  PROVE  /\ NoEnd(a \o b) => NoEnd(Append(a, l) \o b)
         /\ Promised(a \o b, nick, table) => Promised(Append(a, l) \o b, nick, table)
<1> DEFINE q == a \o b
           r == Append(a, l) \o b
           n == Len(a)
<1>1. n \in Nat /\ Len(b) \in Nat /\ Append(a, l) \in Seq(Line) /\ Len(Append(a, l)) = n + 1
  BY AppendProperties, LenProperties
<1>2. /\ Len(q) = n + Len(b)
      /\ \A i \in 1 .. Len(q) : q[i] = IF i <= n THEN a[i] ELSE b[i - n]
  BY ConcatProperties
<1>3. /\ Len(r) = (n + 1) + Len(b)
      /\ \A i \in 1 .. Len(r) : r[i] = IF i <= n + 1 THEN Append(a, l)[i] ELSE b[i - (n + 1)]
  BY <1>1, ConcatProperties
<1>4. (\A i \in 1 .. n : Append(a, l)[i] = a[i]) /\ Append(a, l)[n + 1] = l
  BY AppendProperties
<1> HIDE DEF q, r, n
<1>5. \A i \in 1 .. n : i \in 1 .. Len(q) /\ i \in 1 .. Len(r) /\ r[i] = q[i]
  BY <1>1, <1>2, <1>3, <1>4
<1>6. n + 1 \in 1 .. Len(r) /\ r[n + 1] = l
  BY <1>1, <1>3, <1>4
<1>7. \A i \in n + 1 .. Len(q) : i + 1 \in 1 .. Len(r) /\ r[i + 1] = q[i] /\ i \in 1 .. Len(q)
  <2> SUFFICES ASSUME NEW i \in n + 1 .. Len(q)
               PROVE  i + 1 \in 1 .. Len(r) /\ r[i + 1] = q[i] /\ i \in 1 .. Len(q)
    OBVIOUS
  <2>1. /\ i + 1 \in 1 .. Len(r) /\ i \in 1 .. Len(q) /\ ~(i <= n) /\ ~(i + 1 <= n + 1)
        /\ (i + 1) - (n + 1) = i - n
    BY <1>1, <1>2, <1>3
  <2> QED
    BY <1>2, <1>3, <2>1
<1>8. \A i \in 1 .. Len(r) : \/ i \in 1 .. n
                             \/ i = n + 1
                             \/ i - 1 \in n + 1 .. Len(q) /\ r[i] = q[i - 1]
  <2> SUFFICES ASSUME NEW i \in 1 .. Len(r), i \notin 1 .. n, i # n + 1
               PROVE  i - 1 \in n + 1 .. Len(q) /\ r[i] = q[i - 1]
    OBVIOUS
  <2>1. i - 1 \in n + 1 .. Len(q) /\ (i - 1) + 1 = i
    BY <1>1, <1>2, <1>3
  <2> QED
    BY <1>7, <2>1
<1>9. NoEnd(q) => NoEnd(r)
  BY <1>5, <1>6, <1>7, <1>8, ZenonT(30) DEF NoEnd
<1>10. ASSUME Promised(q, nick, table), NEW p \in 1 .. Len(r), r[p].kind = "318"
       PROVE  /\ \A x \in 1 .. Len(r) : r[x].kind = "318" => x = p
              /\ EndsRight(r, p, nick, table)
  <2>1. CASE p \in 1 .. n
    <3>1. /\ \A x \in 1 .. Len(q) : q[x].kind = "318" => x = p
          /\ EndsRight(q, p, nick, table)
      BY <1>5, <1>10, <2>1 DEF Promised
    <3>2. \A x \in 1 .. Len(r) : r[x].kind = "318" => x = p
      <4> SUFFICES ASSUME NEW x \in 1 .. Len(r), r[x].kind = "318" PROVE x = p
        OBVIOUS
      <4>1. CASE x \in 1 .. n
        BY <1>5, <3>1, <4>1
      <4>2. CASE x - 1 \in n + 1 .. Len(q) /\ r[x] = q[x - 1]
        <5>1. x - 1 = p
          BY <1>7, <3>1, <4>2
        <5> QED
          BY <1>1, <2>1, <4>2, <5>1
      <4> QED
        BY <1>6, <1>8, <4>1, <4>2
    <3>3. \A i \in 1 .. p - 1 : i \in 1 .. n
      BY <1>1, <2>1
    <3>4. \A i \in 1 .. p - 1 : \A j \in i + 1 .. p - 1 : j \in 1 .. n
      BY <1>1, <2>1
    <3>5. \A i \in 1 .. p - 1 : r[i] = q[i] /\ \A j \in i + 1 .. p - 1 : r[j] = q[j]
      BY <1>5, <3>3, <3>4
    <3>6. EndsRight(r, p, nick, table)
      BY <3>1, <3>5 DEF EndsRight
    <3> QED
      BY <3>2, <3>6
  <2>2. CASE p - 1 \in n + 1 .. Len(q) /\ r[p] = q[p - 1]
    <3> DEFINE o == p - 1
    <3>1. o \in 1 .. Len(q) /\ q[o].kind = "318" /\ o \in Int /\ p = o + 1 /\ o >= n + 1
      BY <1>1, <1>7, <1>10, <2>2
    <3> HIDE DEF o
    <3>2. /\ \A x \in 1 .. Len(q) : q[x].kind = "318" => x = o
          /\ EndsRight(q, o, nick, table)
      BY <1>10, <3>1 DEF Promised
    <3>3. \A x \in 1 .. Len(r) : r[x].kind = "318" => x = p
      <4> SUFFICES ASSUME NEW x \in 1 .. Len(r), r[x].kind = "318" PROVE x = p
        OBVIOUS
      <4>1. CASE x \in 1 .. n
        <5>1. x = o
          BY <1>5, <3>2, <4>1
        <5> QED
          BY <1>1, <3>1, <4>1, <5>1
      <4>2. CASE x - 1 \in n + 1 .. Len(q) /\ r[x] = q[x - 1]
        <5>1. x - 1 = o
          BY <1>7, <3>2, <4>2
        <5> QED
          BY <3>1, <5>1
      <4> QED
        BY <1>6, <1>8, <4>1, <4>2
    <3>4. CASE \E i \in 1 .. o - 1 : q[i].kind = "401"
      <4>1. PICK i \in 1 .. o - 1 : q[i].kind = "401"
        BY <3>4
      <4>2. \E x \in 1 .. p - 1 : r[x].kind = "401"
        <5>1. CASE i \in 1 .. n
          BY <1>5, <3>1, <4>1, <5>1
        <5>2. CASE i \notin 1 .. n
          <6>1. i \in n + 1 .. Len(q) /\ i + 1 \in 1 .. p - 1
            BY <1>1, <3>1, <4>1, <5>2
          <6> QED
            BY <1>7, <4>1, <6>1
        <5> QED
          BY <5>1, <5>2
      <4> QED
        BY <3>3, <4>2 DEF EndsRight
    <3>5. ASSUME NEW i \in 1 .. o - 1, q[i].kind = "311", q[i].who = nick,
                 \A j \in i + 1 .. o - 1 : q[j].kind # "311"
          PROVE  EndsRight(r, p, nick, table)
      <4> DEFINE m == IF i \in 1 .. n THEN i ELSE i + 1
      <4>1. m \in 1 .. p - 1 /\ r[m] = q[i]
        <5>1. CASE i \in 1 .. n
          BY <1>5, <3>1, <5>1
        <5>2. CASE i \notin 1 .. n
          <6>1. i \in n + 1 .. Len(q) /\ i + 1 \in 1 .. p - 1
            BY <1>1, <3>1, <5>2
          <6> QED
            BY <1>7, <5>2, <6>1
        <5> QED
          BY <5>1, <5>2
      <4>2. ASSUME NEW j \in m + 1 .. p - 1 PROVE r[j].kind # "311"
        <5>1. j \in 1 .. Len(r) /\ j \in Int /\ p \in Int /\ i \in Int
          BY <1>10, <3>1, <4>1
        <5>2. CASE j \in 1 .. n
          <6>1. i \in 1 .. n /\ j \in i + 1 .. o - 1
            BY <1>1, <3>1, <4>2, <5>1, <5>2
          <6> QED
            BY <1>5, <3>5, <5>2, <6>1
        <5>3. CASE j = n + 1
          BY <1>6, <5>3
        <5>4. CASE j - 1 \in n + 1 .. Len(q) /\ r[j] = q[j - 1]
          <6>1. j - 1 \in i + 1 .. o - 1
            BY <1>1, <3>1, <4>2, <5>1, <5>4
          <6> QED
            BY <3>5, <5>4, <6>1
        <5> QED
          BY <1>8, <5>1, <5>2, <5>3, <5>4
      <4> QED
        <5> HIDE DEF m
        <5> QED
          BY <3>5, <4>1, <4>2 DEF EndsRight
    <3>6. CASE table = nick /\ \A i \in 1 .. o - 1 : q[i].kind # "311"
      <4>1. ASSUME NEW j \in 1 .. p - 1 PROVE r[j].kind # "311"
        <5>1. j \in 1 .. Len(r) /\ j \in Int
          BY <1>10, <3>1
        <5>2. CASE j \in 1 .. n
          <6>1. j \in 1 .. o - 1
            BY <1>1, <3>1, <5>2
          <6> QED
            BY <1>5, <3>6, <5>2, <6>1
        <5>3. CASE j = n + 1
          BY <1>6, <5>3
        <5>4. CASE j - 1 \in n + 1 .. Len(q) /\ r[j] = q[j - 1]
          <6>1. j - 1 \in 1 .. o - 1
            BY <1>1, <3>1, <5>4
          <6> QED
            BY <3>6, <5>4, <6>1
        <5> QED
          BY <1>8, <5>1, <5>2, <5>3, <5>4
      <4>2. table = nick /\ \A j \in 1 .. p - 1 : r[j].kind # "311"
        BY <3>6, <4>1
      <4> QED
        BY <3>3, <4>2 DEF EndsRight
    <3>7. EndsRight(r, p, nick, table)
      BY <3>2, <3>4, <3>5, <3>6 DEF EndsRight
    <3> QED
      BY <3>3, <3>7
  <2> QED
    BY <1>6, <1>8, <1>10, <2>1, <2>2
<1> QED
  BY <1>9, <1>10 DEF Promised, q, r

\* What the server says of a nick: a 318 only behind the 311 of the nick, or behind a 401.
LEMMA AnswerType ==
  ASSUME NEW nick \in Nick, NEW answer \in AnswersTo(nick)
  PROVE  /\ answer \in Seq(Line) /\ Len(answer) \in {1, 2}
         /\ \A i \in 1 .. Len(answer) : answer[i].kind = "318" => i = 2
         /\ \/ answer[1].kind = "311" /\ answer[1].who = nick
            \/ answer[1].kind = "401"
<1>1. \A k \in {"311", "318", "401"} :
         /\ Reply(k, nick) \in Line /\ Reply(k, nick).kind = k /\ Reply(k, nick).who = nick
  BY DEF Reply, Line, Kind
<1>2. \/ answer = <<Reply("311", nick), Reply("318", nick)>>
      \/ answer = <<Reply("401", nick)>>
      \/ answer = <<Reply("401", nick), Reply("318", nick)>>
  BY DEF AnswersTo
<1> HIDE DEF Reply
<1>3. CASE answer = <<Reply("311", nick), Reply("318", nick)>>
  BY <1>1, <1>3
<1>4. CASE answer = <<Reply("401", nick)>>
  BY <1>1, <1>4
<1>5. CASE answer = <<Reply("401", nick), Reply("318", nick)>>
  BY <1>1, <1>5
<1> QED
  BY <1>2, <1>3, <1>4, <1>5

\* The answer to a question that follows no unread 318.
LEMMA AnswerPromised ==
  ASSUME NEW q \in Seq(Line), NEW nick \in Nick, NEW answer \in AnswersTo(nick), NoEnd(q)
  PROVE  Promised(q \o answer, nick, NoNick)
<1> DEFINE r == q \o answer
           n == Len(q)
<1>1. n \in Nat
  BY LenProperties
<1>2. /\ answer \in Seq(Line) /\ Len(answer) \in {1, 2}
      /\ \A i \in 1 .. Len(answer) : answer[i].kind = "318" => i = 2
      /\ \/ answer[1].kind = "311" /\ answer[1].who = nick
         \/ answer[1].kind = "401"
  BY AnswerType
<1>3. /\ Len(r) = n + Len(answer)
      /\ \A i \in 1 .. Len(r) : r[i] = IF i <= n THEN q[i] ELSE answer[i - n]
  BY <1>2, ConcatProperties
<1> HIDE DEF r, n
<1>4. n + 1 \in 1 .. Len(r) /\ r[n + 1] = answer[1]
  <2>1. n + 1 \in 1 .. Len(r) /\ ~(n + 1 <= n) /\ (n + 1) - n = 1
    BY <1>1, <1>2, <1>3
  <2> QED
    BY <1>3, <2>1
<1>5. \A x \in 1 .. Len(r) : r[x].kind = "318" => x = n + 2
  <2> SUFFICES ASSUME NEW x \in 1 .. Len(r), r[x].kind = "318" PROVE x = n + 2
    OBVIOUS
  <2>1. CASE x <= n
    <3>1. x \in 1 .. n /\ r[x] = q[x]
      BY <1>1, <1>3, <2>1
    <3> QED
      BY <3>1 DEF NoEnd, n
  <2>2. CASE ~(x <= n)
    <3>1. x - n \in 1 .. Len(answer) /\ r[x] = answer[x - n]
      BY <1>1, <1>2, <1>3, <2>2
    <3>2. x - n = 2
      BY <1>2, <3>1
    <3> QED
      BY <1>1, <3>2
  <2> QED
    BY <2>1, <2>2
<1>6. EndsRight(r, n + 2, nick, NoNick)
  <2>1. (n + 2) - 1 = n + 1 /\ n + 1 \in 1 .. n + 1 /\ (n + 1) + 1 .. n + 1 = {}
    BY <1>1
  <2> QED
    BY <1>2, <1>4, <2>1 DEF EndsRight
<1>7. Promised(r, nick, NoNick)
  BY <1>5, <1>6 DEF Promised
<1> QED
  BY <1>7 DEF r

\* While whois() asks, what is to be read answers it; when it does not, nothing that would
\* end it is left.
WhoisInv ==
  /\ WhoisMatches
  /\ link = "down" => todo = <<>>
  /\ ~missed => IF Asking THEN Promised(Awaited, asked, user) ELSE NoEnd(Awaited)

\* A step that leaves whois() as it is and lets no new 318 into the queue.
LEMMA WhoisKept ==
  ASSUME WhoisInv, UNCHANGED <<answers, missed>>,
         link' = "down" => todo' = <<>>,
         Asking => Asking' /\ UNCHANGED <<asked, user>>,
         ~missed => /\ NoEnd(Awaited) => NoEnd(Awaited')
                    /\ Promised(Awaited, asked, user) => Promised(Awaited', asked, user),
         Asking' => Asking
  PROVE  WhoisInv'
<1>1. WhoisMatches'
  BY DEF WhoisInv, WhoisMatches
<1>2. CASE Asking
  <2>1. Asking' /\ asked' = asked /\ user' = user
    BY <1>2
  <2>2. ~missed => Promised(Awaited', asked', user')
    BY <1>2, <2>1 DEF WhoisInv
  <2> QED
    BY <1>1, <2>1, <2>2 DEF WhoisInv
<1>3. CASE ~Asking
  <2>1. ~Asking' /\ (~missed => NoEnd(Awaited'))
    BY <1>3 DEF WhoisInv
  <2> QED
    BY <1>1, <2>1 DEF WhoisInv
<1> QED
  BY <1>2, <1>3

LEMMA FirstOfJoined ==
  ASSUME NEW s \in Seq(Line), NEW t \in Seq(Line), s # <<>>
  PROVE  Head(s \o t) = Head(s) /\ Tail(s \o t) = Tail(s) \o t /\ s \o t # <<>>
<1> DEFINE c == s \o t
           a == Tail(c)
           b == Tail(s) \o t
<1>1. /\ Len(s) \in Nat /\ Len(s) >= 1 /\ Len(t) \in Nat
      /\ c \in Seq(Line) /\ Len(c) = Len(s) + Len(t)
      /\ \A i \in 1 .. Len(c) : c[i] = IF i <= Len(s) THEN s[i] ELSE t[i - Len(s)]
  BY EmptySeq, LenProperties, ConcatProperties
<1>2. /\ Tail(s) \in Seq(Line) /\ Len(Tail(s)) = Len(s) - 1
      /\ \A i \in 1 .. Len(Tail(s)) : Tail(s)[i] = s[i + 1]
  BY HeadTailProperties
<1>3. c # <<>>
  BY <1>1, EmptySeq
<1>4. /\ a \in Seq(Line) /\ Len(a) = Len(c) - 1 /\ \A i \in 1 .. Len(a) : a[i] = c[i + 1]
  <2> HIDE DEF c
  <2> QED
    BY <1>1, <1>3, HeadTailProperties
<1>5. /\ b \in Seq(Line) /\ Len(b) = Len(Tail(s)) + Len(t)
      /\ \A i \in 1 .. Len(b) :
           b[i] = IF i <= Len(Tail(s)) THEN Tail(s)[i] ELSE t[i - Len(Tail(s))]
  BY <1>2, ConcatProperties
<1> HIDE DEF a, b, c
<1>6. \A i \in 1 .. Len(a) : a[i] = b[i]
  <2> SUFFICES ASSUME NEW i \in 1 .. Len(a) PROVE a[i] = b[i]
    OBVIOUS
  <2>1. i \in 1 .. Len(b) /\ i + 1 \in 1 .. Len(c) /\ a[i] = c[i + 1]
    BY <1>1, <1>2, <1>4, <1>5
  <2>2. CASE i <= Len(s) - 1
    <3>1. i + 1 <= Len(s) /\ i \in 1 .. Len(Tail(s))
      BY <1>1, <1>2, <2>1, <2>2
    <3> QED
      BY <1>1, <1>2, <1>5, <2>1, <2>2, <3>1
  <2>3. CASE ~(i <= Len(s) - 1)
    <3>1. ~(i + 1 <= Len(s)) /\ (i + 1) - Len(s) = i - (Len(s) - 1)
      BY <1>1, <2>1, <2>3
    <3>2. c[i + 1] = t[(i + 1) - Len(s)]
      BY <1>1, <2>1, <3>1
    <3>3. b[i] = t[i - (Len(s) - 1)]
      BY <1>2, <1>5, <2>1, <2>3
    <3> QED
      BY <2>1, <3>1, <3>2, <3>3
  <2> QED
    BY <2>2, <2>3
<1>7. a = b
  BY <1>1, <1>2, <1>4, <1>5, <1>6, SeqEqual
<1>8. Head(c) = Head(s)
  <2>1. 1 \in 1 .. Len(c) /\ 1 <= Len(s)
    BY <1>1
  <2> QED
    BY <1>1, <1>3, <2>1
<1> QED
  BY <1>3, <1>7, <1>8 DEF a, b, c

\* Reading from the wire leaves the order of what is to be read.
LEMMA QueueRead ==
  ASSUME Socket!LineTypeOK, NEW n \in Socket!Chunk, Socket!Bufferize(n)
  PROVE  /\ Socket!Buffered(n) \o wire' = ready \o wire
         /\ link' = "up" <=> link = "up"
         /\ link' = "down" <=> link = "down"
<1> DEFINE first == SubSeq(wire, 1, n)
           rest == SubSeq(wire, n + 1, Len(wire))
<1>1. wire \in Seq(Line) /\ ready \in Seq(Line) /\ Len(wire) \in Nat
  BY LenProperties DEF Socket!LineTypeOK
<1>2. n \in 0 .. Len(wire)
  BY <1>1 DEF Socket!Chunk
<1>3. /\ 1 \in 1 .. Len(wire) + 1 /\ n \in 1 - 1 .. Len(wire) /\ Len(wire) \in n .. Len(wire)
      /\ n + 1 \in 1 .. Len(wire) + 1 /\ Len(wire) \in 0 .. Len(wire)
  BY <1>1, <1>2
<1>4. first \in Seq(Line) /\ rest \in Seq(Line)
  BY <1>1, <1>2, <1>3, PieceOfLines
<1>5. first \o rest = wire
  BY <1>1, <1>3, ConcatAdjacentSubSeq, SubSeqFull
<1>6. wire' = rest /\ Socket!Buffered(n) = ready \o first
  BY DEF Socket!Bufferize, Socket!Buffered
<1> HIDE DEF first, rest
<1>7. (ready \o first) \o rest = ready \o (first \o rest)
  BY <1>1, <1>4, ConcatAssociative, SMTT(30)
<1>8. (link' = "up" <=> link = "up") /\ (link' = "down" <=> link = "down")
  BY DEF Socket!Bufferize
<1> QED
  BY <1>5, <1>6, <1>7, <1>8

LEMMA AwaitedType == TypeInv => Owed \in Seq(Line) /\ ready \o wire \in Seq(Line) /\ Awaited \in Seq(Line)
<1> SUFFICES ASSUME TypeInv PROVE Owed \in Seq(Line) /\ ready \o wire \in Seq(Line) /\ Awaited \in Seq(Line)
  OBVIOUS
<1>1. ready \in Seq(Line) /\ wire \in Seq(Line) /\ Owed \in Seq(Line)
  BY EmptySeq DEF TypeInv, TypeOK, Socket!LineTypeOK, Owed
<1>2. ready \o wire \in Seq(Line)
  BY <1>1, ConcatProperties
<1> QED
  BY <1>1, <1>2, ConcatProperties DEF Awaited

\* getLine() takes the first of what is to be read.
LEMMA AwaitedTaken ==
  ASSUME TypeInv, ready # <<>>, Socket!GetLine, todo' = todo
  PROVE  /\ Awaited # <<>> /\ Head(Awaited) = Head(ready) /\ Awaited' = Tail(Awaited)
         /\ link' = "down" <=> link = "down"
<1> USE DEF TypeInv, TypeOK
<1>1. PICK n \in Socket!Chunk :
        /\ Socket!Bufferize(n)
        /\ ready' = IF Socket!Buffered(n) = <<>> THEN <<>> ELSE Tail(Socket!Buffered(n))
  BY DEF Socket!GetLine
<1> DEFINE b == Socket!Buffered(n)
           first == SubSeq(wire, 1, n)
<1>2. ready \in Seq(Line) /\ wire \in Seq(Line) /\ Owed \in Seq(Line) /\ ready \o wire \in Seq(Line)
  BY AwaitedType DEF Socket!LineTypeOK
<1>3. b \in Seq(Line) /\ wire' \in Seq(Line)
  BY <1>1, ReadMoves
<1>4. b \o wire' = ready \o wire /\ (link' = "up" <=> link = "up") /\ (link' = "down" <=> link = "down")
  BY <1>1, QueueRead
<1>5. b # <<>> /\ Head(b) = Head(ready)
  <2>1. n \in 0 .. Len(wire) /\ 1 \in 1 .. Len(wire) + 1
    BY <1>2, LenProperties DEF Socket!Chunk
  <2>2. first \in Seq(Line)
    BY <1>2, <2>1, PieceOfLines
  <2>3. b = ready \o first
    BY DEF Socket!Buffered
  <2> HIDE DEF first, b
  <2> QED
    BY <1>2, <2>2, <2>3, FirstOfJoined
<1>6. ready' = Tail(b)
  BY <1>1, <1>5
<1> HIDE DEF b
<1>7. Owed' = Owed
  BY <1>4 DEF Owed
<1>8. Tail(b) \o wire' = Tail(ready \o wire) /\ Head(ready \o wire) = Head(ready) /\ ready \o wire # <<>>
  <2>1. Head(b \o wire') = Head(b) /\ Tail(b \o wire') = Tail(b) \o wire' /\ b \o wire' # <<>>
    BY <1>3, <1>5, FirstOfJoined
  <2> QED
    BY <1>4, <1>5, <2>1
<1>9. /\ Head(Awaited) = Head(ready \o wire) /\ Tail(Awaited) = Tail(ready \o wire) \o Owed
      /\ Awaited # <<>>
  BY <1>2, <1>8, FirstOfJoined DEF Awaited
<1>10. Awaited' = Tail(ready \o wire) \o Owed
  BY <1>6, <1>7, <1>8 DEF Awaited
<1> QED
  BY <1>4, <1>8, <1>9, <1>10

LEMMA AppendedBehind ==
  ASSUME NEW s \in Seq(Line), NEW t \in Seq(Line), NEW l \in Line
  PROVE  s \o Append(t, l) = Append(s \o t, l)
<1>1. <<l>> \in Seq(Line) /\ s \o t \in Seq(Line)
  BY ConcatProperties
<1>2. Append(t, l) = t \o <<l>> /\ Append(s \o t, l) = (s \o t) \o <<l>>
  BY <1>1, AppendIsConcat
<1>3. (s \o t) \o <<l>> = s \o (t \o <<l>>)
  BY <1>1, ConcatAssociative
<1> QED
  BY <1>2, <1>3

Begins(r, q) == Len(r) <= Len(q) /\ \A i \in 1 .. Len(r) : r[i] = q[i]

LEMMA JoinedBegins ==
  ASSUME NEW s \in Seq(Line), NEW t \in Seq(Line)
  PROVE  Begins(s, s \o t)
<1> DEFINE c == s \o t
<1>1. /\ Len(s) \in Nat /\ Len(t) \in Nat /\ Len(c) = Len(s) + Len(t)
      /\ \A i \in 1 .. Len(c) : c[i] = IF i <= Len(s) THEN s[i] ELSE t[i - Len(s)]
  BY LenProperties, ConcatProperties
<1> HIDE DEF c
<1>2. Begins(s, c)
  BY <1>1 DEF Begins
<1> QED
  BY <1>2 DEF c

LEMMA JoinedInAnyOrder ==
  ASSUME NEW s \in Seq(Line), NEW t \in Seq(Line), NEW u \in Seq(Line)
  PROVE  (s \o t) \o u = s \o (t \o u)
  BY ConcatAssociative

LEMMA WhoisInitial == Init => WhoisInv
<1> SUFFICES ASSUME Init PROVE WhoisInv
  OBVIOUS
<1>1. answers = {} /\ todo = <<>> /\ wire = <<>> /\ ready = <<>> /\ caller = "proceed"
  BY DEF Init, Socket!LineInit
<1>2. Awaited = <<>>
  <2>1. Owed = <<>> /\ (<<>> \o <<>>) \o <<>> = <<>>
    BY <1>1, ConcatEmptySeq, EmptySeq DEF Owed
  <2> QED
    BY <1>1, <2>1 DEF Awaited
<1>3. NoEnd(<<>>)
  BY DEF NoEnd
<1> QED
  BY <1>1, <1>2, <1>3 DEF WhoisInv, WhoisMatches, Asking

\* A line of the server's own comes before what it owes.
LEMMA WhoisSpoken ==
  ASSUME TypeInv, WhoisInv, NEW kind \in Spontaneous, kind \notin {"311", "318"},
         ServerSpeaks(kind)
  PROVE  WhoisInv'
<1> USE DEF TypeInv, TypeOK
<1> DEFINE l == [n |-> 0, kind |-> kind, who |-> NoNick]
           k == Numbered(l)
<1>1. l \in Line /\ l.kind = kind
  BY IrcAssumption DEF Line
<1>2. k \in Line /\ k.kind = kind
  BY <1>1, NumberedLine DEF Numbered, Line
<1>3. /\ wire' = Append(wire, k) /\ link = "up"
      /\ UNCHANGED <<ready, link, todo, pc, caller, asked, user, answers, missed>>
  BY DEF ServerSpeaks, Emit, Socket!PeerLine, histVars
<1> HIDE DEF l, k
<1>4. ready \in Seq(Line) /\ wire \in Seq(Line) /\ Owed \in Seq(Line) /\ ready \o wire \in Seq(Line)
  BY AwaitedType DEF Socket!LineTypeOK
<1>5. ready \o Append(wire, k) = Append(ready \o wire, k)
  BY <1>2, <1>4, AppendedBehind
<1>6. Awaited' = Append(ready \o wire, k) \o Owed
  BY <1>3, <1>5 DEF Awaited, Owed
<1>7. /\ NoEnd(Awaited) => NoEnd(Awaited')
      /\ Promised(Awaited, asked, user) => Promised(Awaited', asked, user)
  BY <1>2, <1>4, <1>6, SpokenPromised DEF Awaited
<1>8. Asking' <=> Asking
  BY <1>3 DEF Asking
<1>9. link' = "down" => todo' = <<>>
  BY <1>3
<1> QED
  BY <1>3, <1>7, <1>8, <1>9, WhoisKept

\* What the server owed is on the wire.
LEMMA WhoisAnswered ==
  ASSUME TypeInv, WhoisInv, ServerAnswers
  PROVE  WhoisInv'
<1> USE DEF TypeInv, TypeOK
<1> DEFINE h == Head(todo)
           t == Tail(todo)
           k == Numbered(h)
           a == ready \o wire
<1>1. todo \in Seq(Line) /\ todo # <<>> /\ h \in Line /\ t \in Seq(Line) /\ h = todo[1]
  BY HeadTailProperties DEF ServerAnswers
<1>2. k \in Line /\ k.kind = h.kind /\ k.who = h.who
  BY <1>1, NumberedLine DEF Numbered, Line
<1>3. /\ wire' = Append(wire, k) /\ link = "up" /\ todo' = t
      /\ UNCHANGED <<ready, link, pc, caller, asked, user, answers, missed>>
  BY DEF ServerAnswers, Emit, Socket!PeerLine, histVars
<1>4. ready \in Seq(Line) /\ wire \in Seq(Line) /\ a \in Seq(Line)
  BY AwaitedType DEF Socket!LineTypeOK
<1>5. /\ Len(todo) \in Nat /\ Len(todo) >= 1 /\ Len(t) = Len(todo) - 1
      /\ \A i \in 1 .. Len(t) : t[i] = todo[i + 1]
  BY <1>1, HeadTailProperties, EmptySeq
<1> HIDE DEF h, t, k
<1>6. ready \o Append(wire, k) = Append(a, k)
  BY <1>2, <1>4, AppendedBehind
<1>7. Awaited = a \o todo /\ Awaited' = Append(a, k) \o t
  BY <1>3, <1>6 DEF Awaited, Owed
<1> HIDE DEF a
<1>8. /\ Append(a, k) \in Seq(Line) /\ Len(a) \in Nat /\ Len(Append(a, k)) = Len(a) + 1
      /\ \A i \in 1 .. Len(a) : Append(a, k)[i] = a[i]
      /\ Append(a, k)[Len(a) + 1] = k
  BY <1>2, <1>4, AppendProperties, LenProperties
<1>9. /\ Awaited \in Seq(Line) /\ Len(Awaited) = Len(a) + Len(todo)
      /\ \A i \in 1 .. Len(Awaited) : Awaited[i] = IF i <= Len(a) THEN a[i] ELSE todo[i - Len(a)]
  BY <1>1, <1>4, <1>7, ConcatProperties
<1> DEFINE r == Append(a, k) \o t
<1>10. /\ r \in Seq(Line) /\ Len(r) = Len(a) + 1 + Len(t)
       /\ \A i \in 1 .. Len(r) : r[i] = IF i <= Len(a) + 1 THEN Append(a, k)[i]
                                        ELSE t[i - (Len(a) + 1)]
  <2>1. /\ r \in Seq(Line) /\ Len(r) = Len(Append(a, k)) + Len(t)
        /\ \A i \in 1 .. Len(Append(a, k)) + Len(t) :
             r[i] = IF i <= Len(Append(a, k)) THEN Append(a, k)[i] ELSE t[i - Len(Append(a, k))]
    BY <1>1, <1>8, ConcatProperties
  <2> HIDE DEF r
  <2> QED
    BY <1>8, <2>1
<1> HIDE DEF r
<1>11. Len(r) = Len(Awaited)
  BY <1>5, <1>8, <1>9, <1>10
<1>12. ASSUME NEW i \in 1 .. Len(r) PROVE r[i].kind = Awaited[i].kind /\ r[i].who = Awaited[i].who
  <2>1. i \in 1 .. Len(Awaited)
    BY <1>11
  <2>2. CASE i <= Len(a)
    <3>1. i \in 1 .. Len(a) /\ i <= Len(a) + 1
      BY <1>8, <2>2
    <3>2. r[i] = a[i] /\ Awaited[i] = a[i]
      BY <1>8, <1>9, <1>10, <2>1, <2>2, <3>1
    <3> QED
      BY <3>2
  <2>3. CASE i = Len(a) + 1
    <3>1. ~(i <= Len(a)) /\ i - Len(a) = 1 /\ i <= Len(a) + 1
      BY <1>8, <2>3
    <3>2. r[i] = k /\ Awaited[i] = h
      BY <1>1, <1>8, <1>9, <1>10, <2>1, <2>3, <3>1
    <3> QED
      BY <1>2, <3>2
  <2>4. CASE i > Len(a) + 1
    <3> DEFINE j == i - (Len(a) + 1)
    <3>1. /\ ~(i <= Len(a)) /\ ~(i <= Len(a) + 1) /\ j \in 1 .. Len(t) /\ i - Len(a) = j + 1
      BY <1>8, <1>10, <2>4, <1>5
    <3>2. r[i] = t[j] /\ Awaited[i] = todo[j + 1]
      BY <1>9, <1>10, <2>1, <3>1
    <3> HIDE DEF j
    <3> QED
      BY <1>5, <3>1, <3>2
  <2>5. i <= Len(a) \/ i = Len(a) + 1 \/ i > Len(a) + 1
    BY <1>8
  <2> QED
    BY <2>2, <2>3, <2>4, <2>5
<1>13. Len(r) <= Len(Awaited)
  BY <1>8, <1>9, <1>5, <1>11
<1>14. /\ NoEnd(Awaited) => NoEnd(Awaited')
       /\ Promised(Awaited, asked, user) => Promised(Awaited', asked, user)
  <2>1. Awaited' = r
    BY <1>7 DEF r
  <2> QED
    BY <1>9, <1>10, <1>12, <1>13, <2>1, CutPromised
<1>15. (Asking' <=> Asking) /\ link' # "down"
  BY <1>3 DEF Asking
<1> QED
  BY <1>3, <1>14, <1>15, WhoisKept

\* The end of the connection cuts the queue off.
LEMMA WhoisEnded ==
  ASSUME TypeInv, WhoisInv, ServerEnds
  PROVE  WhoisInv'
<1> USE DEF TypeInv, TypeOK
<1>1. /\ wire' \in {wire, <<>>} /\ link' \notin {"up", "down"}
      /\ UNCHANGED <<ready, todo, pc, caller, asked, user, answers, missed>>
  BY DEF ServerEnds, Socket!PeerEnd, bookVars, histVars
<1>2. ready \in Seq(Line) /\ wire \in Seq(Line) /\ Owed \in Seq(Line) /\ ready \o wire \in Seq(Line)
      /\ Awaited \in Seq(Line)
  BY AwaitedType DEF Socket!LineTypeOK
<1>3. Awaited' = ready \o wire'
  <2>1. Owed' = <<>> /\ ready \o wire' \in Seq(Line)
    BY <1>1, <1>2, ConcatEmptySeq DEF Owed
  <2>2. (ready \o wire') \o <<>> = ready \o wire'
    BY <2>1, ConcatEmptySeq
  <2> QED
    BY <1>1, <2>1, <2>2 DEF Awaited
<1>4. Begins(ready \o wire, Awaited)
  BY <1>2, JoinedBegins DEF Awaited
<1>5. Begins(ready, ready \o wire)
  BY <1>2, JoinedBegins
<1>6. Awaited' \in Seq(Line) /\ Begins(Awaited', Awaited)
  <2>1. CASE wire' = wire
    BY <1>2, <1>3, <1>4, <2>1
  <2>2. CASE wire' = <<>>
    <3>1. Awaited' = ready
      BY <1>2, <1>3, <2>2, ConcatEmptySeq
    <3>2. Len(ready) \in Nat /\ Len(ready \o wire) \in Nat /\ Len(Awaited) \in Nat
      BY <1>2, LenProperties
    <3>3. Begins(ready, Awaited)
      BY <1>4, <1>5, <3>2, SMTT(30) DEF Begins
    <3> QED
      BY <1>2, <3>1, <3>3
  <2> QED
    BY <1>1, <2>1, <2>2
<1>7. /\ NoEnd(Awaited) => NoEnd(Awaited')
      /\ Promised(Awaited, asked, user) => Promised(Awaited', asked, user)
  BY <1>2, <1>6, CutPromised DEF Begins
<1>8. Asking' <=> Asking
  BY <1>1 DEF Asking
<1> QED
  BY <1>1, <1>7, <1>8, WhoisKept

LEMMA JoinedNoEnd ==
  ASSUME NEW s \in Seq(Line), NEW t \in Seq(Line), NoEnd(s), NoEnd(t)
  PROVE  NoEnd(s \o t)
<1> DEFINE c == s \o t
<1>1. /\ Len(s) \in Nat /\ Len(t) \in Nat /\ Len(c) = Len(s) + Len(t)
      /\ \A i \in 1 .. Len(c) : c[i] = IF i <= Len(s) THEN s[i] ELSE t[i - Len(s)]
  BY LenProperties, ConcatProperties
<1> HIDE DEF c
<1>2. ASSUME NEW i \in 1 .. Len(c) PROVE c[i].kind # "318"
  <2>1. CASE i <= Len(s)
    <3>1. i \in 1 .. Len(s) /\ c[i] = s[i]
      BY <1>1, <2>1
    <3> QED
      BY <3>1 DEF NoEnd
  <2>2. CASE ~(i <= Len(s))
    <3>1. i - Len(s) \in 1 .. Len(t) /\ c[i] = t[i - Len(s)]
      BY <1>1, <2>2
    <3> QED
      BY <3>1 DEF NoEnd
  <2> QED
    BY <2>1, <2>2
<1>3. NoEnd(c)
  BY <1>2 DEF NoEnd
<1> QED
  BY <1>3 DEF c

\* The line that whois() reads, in each of its cases.
LEMMA WhoisTakes ==
  ASSUME TypeInv, WhoisInv, TakeLine
  PROVE  WhoisInv'
<1> USE DEF TypeInv, TypeOK
<1> DEFINE h == Head(ready)
<1>1. /\ Awaited \in Seq(Line) /\ Awaited # <<>> /\ Head(Awaited) = h
      /\ Awaited' = Tail(Awaited) /\ (link' = "down" <=> link = "down") /\ todo' = todo
      /\ UNCHANGED <<caller, asked>> /\ pc = "take"
  BY AwaitedType, AwaitedTaken DEF TakeLine, LineIsThere, bookVars
<1> DEFINE Q == Awaited
           T == Tail(Awaited)
<1>2. /\ NoEnd(Q) => NoEnd(T)
      /\ Promised(Q, asked, user) =>
           /\ h.kind = "318" => user = asked /\ NoEnd(T)
           /\ h.kind \notin {"318", "401"} =>
                Promised(T, asked, IF h.kind = "311" THEN h.who ELSE user)
  BY <1>1, ReadPromised
<1>3. link' = "down" => todo' = <<>>
  BY <1>1 DEF WhoisInv
<1>4. Awaited' = T
  BY <1>1
<1> HIDE DEF h, Q, T
<1>5. CASE caller = "proceed" /\ UNCHANGED <<buffer, user, answers, missed>>
  <2>1. ~Asking /\ ~Asking'
    BY <1>1, <1>5 DEF Asking
  <2> QED
    BY <1>2, <1>3, <1>4, <1>5, <2>1 DEF WhoisInv, WhoisMatches, Q
<1>6. CASE caller = "whois" /\ WhoisLine(h)
  <2>1. Asking
    BY <1>1, <1>6 DEF Asking
  <2>2. CASE missed
    <3>1. missed'
      BY <1>6, <2>2 DEF WhoisLine
    <3> QED
      BY <1>3, <3>1 DEF WhoisInv, WhoisMatches
  <2>3. CASE ~missed /\ h.kind = "318"
    <3>1. user = asked /\ NoEnd(T)
      BY <1>2, <2>1, <2>3 DEF WhoisInv, Q
    <3>2. answers' = answers \cup {<<asked, user>>} /\ pc' = "handler"
      BY <1>6, <2>3 DEF WhoisLine, EndsWhois
    <3>3. \A a \in answers : a[1] = a[2]
      BY <2>3 DEF WhoisInv, WhoisMatches
    <3>4. \A a \in answers' : a[1] = a[2]
      BY <3>1, <3>2, <3>3
    <3>5. ~Asking'
      BY <3>2 DEF Asking
    <3> QED
      BY <1>3, <1>4, <3>1, <3>4, <3>5 DEF WhoisInv, WhoisMatches
  <2>4. CASE ~missed /\ h.kind = "401"
    <3>1. /\ answers' = answers /\ pc' = "handler" /\ (missed' <=> EndIsToCome)
      BY <1>6, <2>4 DEF WhoisLine, EndsWhois
    <3>2. ~Asking' /\ WhoisMatches'
      BY <2>4, <3>1 DEF Asking, WhoisInv, WhoisMatches
    <3>3. CASE EndIsToCome
      BY <1>3, <3>1, <3>2, <3>3 DEF WhoisInv
    <3>4. CASE ~EndIsToCome
      <4>1. NoEnd(ready) /\ NoEnd(wire) /\ NoEnd(todo)
        BY <3>4 DEF EndIsToCome, NoEnd
      <4>2. NoEnd(Owed)
        BY <4>1 DEF Owed, NoEnd
      <4>3. NoEnd(ready \o wire)
        BY <4>1, JoinedNoEnd DEF Socket!LineTypeOK
      <4>4. NoEnd(Q)
        BY <4>2, <4>3, AwaitedType, JoinedNoEnd DEF Awaited, Q
      <4> QED
        BY <1>2, <1>3, <1>4, <3>2, <4>4 DEF WhoisInv
    <3> QED
      BY <3>3, <3>4
  <2>5. CASE ~missed /\ h.kind \notin {"318", "401"}
    <3>1. /\ answers' = answers /\ pc' = "poll" /\ missed' = FALSE
          /\ user' = IF h.kind = "311" THEN h.who ELSE user
      BY <1>6, <2>5 DEF WhoisLine, EndsWhois
    <3>2. Promised(T, asked, user')
      BY <1>2, <2>1, <2>5, <3>1 DEF WhoisInv, Q
    <3>3. Asking' /\ asked' = asked
      BY <1>1, <1>6, <3>1 DEF Asking
    <3>4. WhoisMatches'
      BY <2>5, <3>1 DEF WhoisInv, WhoisMatches
    <3> QED
      BY <1>3, <1>4, <3>2, <3>3, <3>4 DEF WhoisInv
  <2> QED
    BY <2>2, <2>3, <2>4, <2>5
<1> QED
  BY <1>5, <1>6 DEF TakeLine, h

\* The question: its answer comes behind everything else.
LEMMA WhoisCalled ==
  ASSUME TypeInv, WhoisInv, NEW nick \in Nick, CallWhois(nick)
  PROVE  WhoisInv'
<1> USE DEF TypeInv, TypeOK
<1>1. /\ UNCHANGED <<wire, ready, link>> /\ pc = "handler" /\ pc' = "poll" /\ caller' = "whois"
      /\ asked' = nick /\ user' = NoNick /\ UNCHANGED <<answers, missed>>
  BY SendMoves DEF CallWhois, histVars
<1>2. PICK answer \in AnswersTo(nick) :
        todo' = IF link = "up" /\ flag' THEN todo \o answer ELSE todo
  BY DEF CallWhois
<1>3. Asking' /\ ~Asking /\ WhoisMatches'
  BY <1>1 DEF Asking, WhoisInv, WhoisMatches
<1>4. link' = "down" => todo' = <<>>
  BY <1>1, <1>2 DEF WhoisInv
<1>5. ASSUME ~missed PROVE Promised(Awaited', nick, NoNick)
  <2>1. NoEnd(Awaited)
    BY <1>3, <1>5 DEF WhoisInv
  <2>2. CASE link = "up" /\ flag'
    <3>1. Awaited = (ready \o wire) \o todo /\ Awaited' = (ready \o wire) \o (todo \o answer)
      BY <1>1, <1>2, <2>2 DEF Awaited, Owed
    <3>2. answer \in Seq(Line)
      BY AnswerType
    <3>3. todo \in Seq(Line) /\ ready \o wire \in Seq(Line)
      BY AwaitedType
    <3>4. ((ready \o wire) \o todo) \o answer = (ready \o wire) \o (todo \o answer)
      BY <3>2, <3>3, JoinedInAnyOrder, Zenon
    <3>5. Awaited' = Awaited \o answer
      BY <3>1, <3>4
    <3> QED
      BY <2>1, <3>5, AwaitedType, AnswerPromised
  <2>3. CASE ~(link = "up" /\ flag')
    <3>1. Awaited' = Awaited
      BY <1>1, <1>2, <2>3 DEF Awaited, Owed
    <3> QED
      BY <2>1, <3>1 DEF NoEnd, Promised
  <2> QED
    BY <2>2, <2>3
<1> QED
  BY <1>1, <1>3, <1>4, <1>5 DEF WhoisInv

LEMMA WhoisScript == TypeInv /\ WhoisInv /\ Script => WhoisInv'
<1> SUFFICES ASSUME TypeInv, WhoisInv, Script PROVE WhoisInv'
  OBVIOUS
<1> USE DEF TypeInv, TypeOK
<1>1. ASSUME UNCHANGED <<wire, ready, todo, answers, missed>>,
             link' = "down" => link = "down",
             link' = link \/ link = "down",
             ~Asking, ~Asking'
      PROVE  WhoisInv'
  <2>1. Awaited' = Awaited
    BY <1>1 DEF WhoisInv, Awaited, Owed
  <2> QED
    BY <1>1, <2>1, WhoisKept DEF WhoisInv
<1>2. CASE New \/ ConnectServer \/ Test \/ Proceed \/ Dispatch \/ Raw
  BY <1>1, <1>2 DEF New, ConnectServer, Test, Proceed, Dispatch, Raw, Socket!Create,
     Socket!Connect, sockVars, bookVars, histVars, Asking
<1>3. ASSUME NEW from \in {"nick", "user", "handler"}, NEW to \in {"user", "test", "raw"},
             SendThen(from, to)
      PROVE  WhoisInv'
  BY <1>1, <1>3, SendMoves DEF SendThen, bookVars, histVars, Asking
<1>4. CASE HandlerReturns
  BY <1>1, <1>4 DEF HandlerReturns, sockVars, bookVars, histVars, Asking
<1>5. CASE CanGetLine
  <2>1. PICK n \in Socket!Chunk : Socket!Bufferize(n) /\ ready' = Socket!Buffered(n)
    BY <1>5 DEF CanGetLine, Socket!CanGetLine
  <2>2. /\ ready' \o wire' = ready \o wire /\ (link' = "up" <=> link = "up")
        /\ (link' = "down" <=> link = "down")
    BY <2>1, QueueRead
  <2>3. /\ UNCHANGED <<todo, caller, asked, user, answers, missed>>
        /\ pc = "poll" /\ pc' = IF ready' # <<>> THEN "take"
                                ELSE IF caller = "proceed" THEN "test" ELSE "poll"
    BY <1>5 DEF CanGetLine, bookVars, histVars
  <2>4. Awaited' = Awaited
    BY <2>2, <2>3 DEF Awaited, Owed
  <2>5. Asking' <=> Asking
    BY <2>3 DEF Asking
  <2> QED
    BY <2>2, <2>3, <2>4, <2>5, WhoisKept DEF WhoisInv
<1> QED
  BY <1>2, <1>3, <1>4, <1>5, WhoisTakes, WhoisCalled DEF Script

LEMMA WhoisStep ==
  ASSUME Spontaneous \cap {"311", "318"} = {}
  PROVE  TypeInv /\ WhoisInv /\ [Next]_vars => WhoisInv'
<1> SUFFICES ASSUME TypeInv, WhoisInv, [Next]_vars PROVE WhoisInv'
  OBVIOUS
<1>1. CASE Server
  BY <1>1, WhoisSpoken, WhoisAnswered, WhoisEnded DEF Server
<1>2. CASE UNCHANGED vars
  <2>1. UNCHANGED <<wire, ready, link, todo, pc, caller, asked, user, answers, missed>>
    BY <1>2 DEF vars, sockVars, bookVars, histVars
  <2>2. Awaited' = Awaited /\ (Asking' <=> Asking)
    BY <2>1 DEF Awaited, Owed, Asking
  <2> QED
    BY <2>1, <2>2, WhoisKept DEF WhoisInv
<1> QED
  BY <1>1, <1>2, WhoisScript DEF Next

\* As long as the server sends 311 and 318 in answer to WHOIS alone, whatever else it
\* sends, a spurious 401 included, and wherever the connection ends, the table whois()
\* returns is that of the nick it was asked for, unless it has left a 318 unread.
THEOREM WhoisIsOfTheNick ==
  ASSUME Spontaneous \cap {"311", "318"} = {}
  PROVE  Spec => []WhoisMatches
<1>1. Init => TypeInv /\ WhoisInv
  BY TypeInitial, WhoisInitial
<1>2. TypeInv /\ WhoisInv /\ [Next]_vars => (TypeInv /\ WhoisInv)'
  BY TypeStep, WhoisStep
<1>3. WhoisInv => WhoisMatches
  BY DEF WhoisInv
<1> QED
  BY <1>1, <1>2, <1>3, PTL DEF Spec
===========================================================================
