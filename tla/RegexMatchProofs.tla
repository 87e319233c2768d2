--------------------------- MODULE RegexMatchProofs ---------------------------
(***************************************************************************)
(* The bytecode of GNU regex, proved for every pattern, syntax and text:   *)
(* regex_compile writes whole instructions whose jumps lead to             *)
(* instructions, and re_match_2 stays on them and leaves them whole.       *)
(*                                                                         *)
(* The first half takes every step of the compiler, from the intervals and *)
(* lists to the call, on the invariant of RegexBytecodeProofs.  The second *)
(* is about the matcher: p and every place on the failure stack is one of  *)
(* an instruction, and what the matcher stores into the bytecode (counters,*)
(* and the jumps it rewrites) leaves the instructions whole.               *)
(***************************************************************************)
EXTENDS RegexBytecodeProofs

-------------------------------------------------------------------------------
-----------------------------------------------------------------------------
(***************************************************************************)
(* The intervals.                                                          *)
(***************************************************************************)
\* What is appended leaves the jumps before it alone.
LEMMA DestStays ==
  ASSUME NEW code, NEW at, Shape(code, at), NEW i \in at, i # Len(code) + 1,
         code[i] \in Linking, NEW code2, \A k \in 1..Len(code) : code2[k] = code[k]
  PROVE  code2[i] = code[i] /\ Dest(code2, i) = Dest(code, i)
<1>1. /\ i \in 1..Len(code) /\ i + 2 <= Len(code) /\ Len(code) \in Nat
  BY Instruction
<1>2. i + 1 \in 1..Len(code) /\ i + 2 \in 1..Len(code) /\ (i + 1) + 1 = i + 2
  BY <1>1
<1>3. code2[i] = code[i] /\ code2[i + 1] = code[i + 1] /\ code2[i + 2] = code[i + 2]
  BY <1>1, <1>2
<1>4. Number(code2, i + 1) = Number(code, i + 1)
  BY <1>2, <1>3 DEF Number
<1>5. QED BY <1>3, <1>4 DEF Dest

\* A counting jump put in: where the others are then.
Counter(code, at, F, Q, q, o, d, code2) ==
  /\ Good(code2, Shifted(q, 5, at), Shifted(q, 5, F), Q)
  /\ code2[q] = o /\ Number(code2, q + 1) = d /\ Len(code2) = Len(code) + 5
  /\ \A k \in 1..(q - 1) : code2[k] = code[k]
  /\ q \in Shifted(q, 5, at) /\ q + 5 \in Shifted(q, 5, at)
  /\ Len(code2) + 1 \in Shifted(q, 5, at)
  /\ \A i \in at : i # Len(code) + 1 /\ q <= i =>
       /\ i + 5 \in Shifted(q, 5, at) /\ code2[i + 5] = code[i]
       /\ code[i] \in Linking => Dest(code2, i + 5) = Dest(code, i) + 5

LEMMA CounterInserted ==
  ASSUME NEW code, NEW at, NEW F, NEW Q, Good(code, at, F, Q),
         NEW q \in Q, UpTo(Q, q), NEW o \in Jumps2 \cup {op.set_number_at},
         NEW d \in Int, -32768 <= d, d <= 32767, NEW n \in Int
  PROVE  Counter(code, at, F, Q, q, o, d, Insert(code, q, Op2(o, d, n)))
<1> DEFINE mid == Op2(o, d, n)
           code2 == Insert(code, q, mid)
           at2 == Shifted(q, 5, at)
<1>1. /\ Len(code) \in Nat /\ Shape(code, at) /\ at \subseteq 1..(Len(code) + 1) /\ q \in at
  <2>1. Q \subseteq at
    BY GoodNumbers
  <2>2. q \in at
    BY <2>1
  <2>3. QED BY <2>2, GoodNumbers
<1>2. /\ Len(mid) = 5 /\ Insertion(code, at, q, mid, code2)
      /\ Good(code2, at2, Shifted(q, 5, F), Q)
      /\ code2[q] = o /\ Number(code2, q + 1) = d
      /\ \A k \in 1..(q - 1) : code2[k] = code[k]
      /\ Len(code2) = Len(code) + 5
      /\ q \in at2 /\ q + 5 \in at2 /\ Len(code2) + 1 \in at2
  BY Jump2Inserted
<1> HIDE DEF mid, code2, at2
<1>3. ASSUME NEW i \in at, i # Len(code) + 1, q <= i
      PROVE  /\ i + 5 \in at2 /\ code2[i + 5] = code[i]
             /\ code[i] \in Linking => Dest(code2, i + 5) = Dest(code, i) + 5
  <2>1. i \in Int /\ q \in Int
    BY <1>1
  <2>2. Shift(q, 5, i) = i + 5
    <3>1. ~(i < q)
      BY <1>3, <2>1
    <3>2. QED BY <3>1 DEF Shift
  <2>3. Alike(code, i, code2, i + 5)
    <3>1. Alike(code, i, code2, Shift(q, Len(mid), i))
      <4>1. Insertion(code, at, q, mid, code2)
        BY <1>2
      <4>2. QED BY <1>3, <4>1, OldCarried
    <3>2. QED BY <1>2, <2>2, <3>1
  <2>4. i + 5 \in at2
    <3>1. Shift(q, 5, i) \in at2
      BY ShiftIn DEF at2
    <3>2. QED BY <2>2, <3>1
  <2>5. ASSUME code[i] \in Linking
        PROVE  Dest(code2, i + 5) = Dest(code, i) + 5
    <3> DEFINE x == Dest(code, i)
    <3>1. x \in Int
      BY <1>1, <1>3, <2>5, Instruction
    <3>2. Dest(code2, i + 5) = x + (i + 5) - i
      BY <2>3, <2>5 DEF Alike
    <3> HIDE DEF x
    <3>3. x + (i + 5) - i = x + 5
      BY <2>1, <3>1
    <3>4. QED BY <3>2, <3>3 DEF x
  <2>6. QED BY <2>3, <2>4, <2>5 DEF Alike
<1>4. Counter(code, at, F, Q, q, o, d, code2)
  BY <1>2, <1>3 DEF Counter, at2
<1>5. QED BY <1>4 DEF code2, mid

LEMMA CounterPut ==
  ASSUME NEW code, NEW at, NEW F, NEW Q, Good(code, at, F, Q),
         NEW q \in Q, UpTo(Q, q), NEW o \in Jumps2 \cup {op.set_number_at},
         NEW d \in Int, -32768 <= d, d <= 32767, NEW n \in Int,
         NEW code2, code2 = Insert(code, q, Op2(o, d, n))
  PROVE  Counter(code, at, F, Q, q, o, d, code2)
<1>1. Counter(code, at, F, Q, q, o, d, Insert(code, q, Op2(o, d, n)))
  BY CounterInserted
<1>2. QED BY <1>1

\* succeed_n, which leads to where the code ends when all is written.
SucceedCode(code, q, x, n) == InsertJump2(op.succeed_n, code, q, End(code) + 5 + x, n)
Succeeding(code, at, F, Q, q, x, code2) ==
  /\ Counter(code, at, F, Q, q, op.succeed_n, Len(code) + 3 + x - q, code2)
  /\ Dest(code2, q) = Len(code) + 6 + x

LEMMA SucceedInserted ==
  ASSUME NEW code, NEW at, NEW F, NEW Q, Good(code, at, F, Q), NEW q \in Q, UpTo(Q, q),
         NEW x \in {0, 5}, NEW n \in Int, Len(code) + 10 <= 32767
  PROVE  Succeeding(code, at, F, Q, q, x, SucceedCode(code, q, x, n))
<1> DEFINE e == Len(code) + 1
           d == Len(code) + 3 + x - q
           o == op.succeed_n
           code2 == InsertJump2(o, code, q, End(code) + 5 + x, n)
<1>1. Len(code) \in Nat /\ q \in 1..(Len(code) + 1)
  <2>1. Q \subseteq at /\ at \subseteq 1..(Len(code) + 1) /\ Len(code) \in Nat
    BY GoodNumbers
  <2>2. q \in at
    BY <2>1
  <2>3. QED BY <2>1, <2>2
<1>2. d \in Int /\ -32768 <= d /\ d <= 32767
  BY <1>1
<1>3. o \in Jumps2 /\ o # op.set_number_at
  BY OpValues DEF Jumps2
<1>4. code2 = Insert(code, q, Op2(o, d, n))
  <2>1. (End(code) + 5 + x) - q - 3 = d
    BY <1>1 DEF End
  <2> HIDE DEF d
  <2>2. QED BY <2>1 DEF InsertJump2
<1> HIDE DEF code2, o
<1>5. Counter(code, at, F, Q, q, o, d, code2)
  <2> HIDE DEF d
  <2>1. Counter(code, at, F, Q, q, o, d, Insert(code, q, Op2(o, d, n)))
    <3>1. o \in Jumps2 \cup {op.set_number_at}
      BY <1>3
    <3>2. QED BY <1>2, <3>1, CounterInserted
  <2>2. QED BY <1>4, <2>1
<1>6. Dest(code2, q) = Len(code) + 6 + x
  <2>1. code2[q] = o /\ Number(code2, q + 1) = d
    BY <1>5 DEF Counter
  <2>2. Dest(code2, q) = q + d + 3
    BY <1>3, <2>1 DEF Dest
  <2>3. QED BY <1>1, <2>2
<1>7. QED BY <1>5, <1>6 DEF Succeeding, SucceedCode, code2, o

\* What is known of a jump that can be taken off the exempt ones.
Behind(code, at, Q, h) ==
  /\ h \in at /\ code[h] \in Linking /\ UpTo(Q, h) /\ UpTo(Q, Dest(code, h))
  /\ Dest(code, h) \in at /\ code[h] # op.jump_n
  /\ code[h] = op.set_number_at =>
       Dest(code, h) # Len(code) + 1 /\ code[Dest(code, h)] \in Jumps2

LEMMA BehindLinked ==
  ASSUME NEW code, NEW at, NEW F, NEW Q, Good(code, at, F, Q), NEW h, Behind(code, at, Q, h),
         NEW G, F \ {h} = G
  PROVE  Good(code, at, G, Q)
<1>1. Good(code, at, F \ {h}, Q)
  <2>1. /\ h \in at /\ code[h] \in Linking /\ UpTo(Q, h) /\ UpTo(Q, Dest(code, h))
        /\ Dest(code, h) \in at /\ code[h] # op.jump_n
        /\ code[h] = op.set_number_at =>
             Dest(code, h) # Len(code) + 1 /\ code[Dest(code, h)] \in Jumps2
    BY DEF Behind
  <2>2. QED BY <2>1, LinkedBehind
<1> DEFINE A == F \ {h}
<1>2. A = G /\ Good(code, at, A, Q)
  BY <1>1
<1> HIDE DEF A
<1>3. QED BY <1>2

LEMMA InsertedLinked ==
  ASSUME NEW code, NEW at, NEW F, NEW Q, NEW q \in Int, NEW n \in Nat, Below(F, q),
         Good(code, at, Shifted(q, n, F), Q), Behind(code, at, Q, q)
  PROVE  Good(code, at, F, Q)
<1> DEFINE A == Shifted(q, n, F)
<1>1. A \ {q} = F
  <2>1. A = F \cup {q} /\ (F \cup {q}) \ {q} = F
    BY ShiftedBefore
  <2> HIDE DEF A
  <2>2. QED BY <2>1
<1>2. Good(code, at, A, Q)
  OBVIOUS
<1> HIDE DEF A
<1>3. QED BY <1>1, <1>2, BehindLinked

\* {lower,1}: the succeed_n, and the set_number_at before it.
OnceParts(code, q, lower, try, from) ==
  /\ try = SucceedCode(code, q, 0, lower)
  /\ from = Insert(try, q, Op2(op.set_number_at, 5, lower))

LEMMA CountedOnce ==
  ASSUME NEW code, NEW at, NEW begalt, NEW fixup, NEW stack, NEW regnum, NEW laststart,
         NEW pending, Written(code, at, begalt, fixup, stack, regnum, laststart, pending),
         laststart # 0, Len(code) + 10 <= 32767, NEW lower \in Int,
         NEW try, NEW from, OnceParts(code, laststart, lower, try, from)
  PROVE  /\ \E at2 : Written(from, at2, begalt, fixup, stack, regnum, laststart, 0)
         /\ Len(from) = Len(code) + 10 /\ Len(code) \in Nat
<1> DEFINE F == Fixups(fixup, stack)
           Q == Marks(begalt, laststart, stack)
           q == laststart
           at1 == Shifted(q, 5, at)
           at2 == Shifted(q, 5, at1)
<1>1. /\ q \in Q /\ UpTo(Q, q) /\ Below(F, q)
      /\ q \in at /\ at \subseteq 1..(Len(code) + 1) /\ Len(code) \in Nat
      /\ begalt \in Int /\ begalt <= q /\ Good(code, at, F, Q)
  BY LastPlace
<1> HIDE DEF F, Q, at1, at2
<1>2. q \in 1..(Len(code) + 1)
  BY <1>1
<1> HIDE DEF q
<1> DEFINE x == 0
           d == Len(code) + 3 + x - q
<1>3. /\ Counter(code, at, F, Q, q, op.succeed_n, d, try)
      /\ Dest(try, q) = Len(code) + 6
  <2>1. Good(code, at, F, Q) /\ q \in Q /\ UpTo(Q, q) /\ x \in {0, 5}
    BY <1>1
  <2>2. try = SucceedCode(code, q, x, lower)
    BY DEF OnceParts, q
  <2>3. Len(code) + 6 + x = Len(code) + 6
    BY <1>1
  <2> HIDE DEF x
  <2>4. Succeeding(code, at, F, Q, q, x, SucceedCode(code, q, x, lower))
    BY <2>1, SucceedInserted
  <2>5. QED BY <2>2, <2>3, <2>4 DEF Succeeding
<1>4. /\ Good(try, at1, Shifted(q, 5, F), Q)
      /\ try[q] = op.succeed_n /\ Len(try) = Len(code) + 5
      /\ \A k \in 1..(q - 1) : try[k] = code[k]
      /\ q \in at1 /\ Len(try) + 1 \in at1
  BY <1>3 DEF Counter, at1
<1>5. UpTo(Q, Len(code) + 6)
  <2>1. q \in Int /\ Len(code) + 6 \in Int /\ q <= Len(code) + 6
    BY <1>1, <1>2
  <2>2. QED BY <1>1, <2>1, UpToMore
<1>6. Behind(try, at1, Q, q)
  <2>1. op.succeed_n \in Linking /\ op.succeed_n # op.jump_n /\ op.succeed_n # op.set_number_at
    BY OpValues DEF Linking, Jumps2
  <2>2. Len(code) + 6 = Len(try) + 1
    BY <1>1, <1>4
  <2>3. QED BY <1>1, <1>3, <1>4, <1>5, <2>1, <2>2 DEF Behind
<1>7. Good(try, at1, F, Q)
  <2>1. q \in Int /\ 5 \in Nat /\ Below(F, q) /\ Good(try, at1, Shifted(q, 5, F), Q)
    BY <1>1, <1>2, <1>4
  <2>2. QED BY <1>6, <2>1, InsertedLinked
<1>8. Counter(try, at1, F, Q, q, op.set_number_at, 5, from)
  <2> DEFINE o == op.set_number_at
             y == 5
  <2>1. /\ Good(try, at1, F, Q) /\ q \in Q /\ UpTo(Q, q) /\ o \in Jumps2 \cup {op.set_number_at}
        /\ y \in Int /\ -32768 <= y /\ y <= 32767
    BY <1>1, <1>7
  <2>2. from = Insert(try, q, Op2(o, y, lower))
    BY DEF OnceParts, q
  <2> HIDE DEF o, y
  <2>3. Counter(try, at1, F, Q, q, o, y, from)
    BY <2>1, <2>2, CounterPut
  <2>4. QED BY <2>3 DEF o, y
<1>9. /\ Good(from, at2, Shifted(q, 5, F), Q)
      /\ from[q] = op.set_number_at /\ Number(from, q + 1) = 5
      /\ Len(from) = Len(code) + 10
      /\ \A k \in 1..(q - 1) : from[k] = try[k]
      /\ q \in at2 /\ q + 5 \in at2 /\ from[q + 5] = op.succeed_n
  <2>1. q # Len(try) + 1 /\ q <= q
    BY <1>1, <1>2, <1>4
  <2>2. q + 5 \in at2 /\ from[q + 5] = try[q]
    BY <1>4, <1>8, <2>1 DEF Counter, at2
  <2>3. Len(from) = Len(try) + 5
    BY <1>8 DEF Counter
  <2>4. Len(from) = Len(code) + 10
    BY <1>1, <1>4, <2>3
  <2>5. QED BY <1>4, <1>8, <2>2, <2>4 DEF Counter, at2
<1>10. Dest(from, q) = q + 5
  <2>1. Dest(from, q) = q + 5 + 0
    BY <1>9 DEF Dest
  <2>2. QED BY <1>2, <2>1
<1>11. Behind(from, at2, Q, q)
  <2>1. op.set_number_at \in Linking /\ op.set_number_at # op.jump_n
        /\ op.succeed_n \in Jumps2
    BY OpValues DEF Linking, Jumps2
  <2>2. UpTo(Q, q + 5)
    <3>1. q \in Int /\ q + 5 \in Int /\ q <= q + 5
      BY <1>2
    <3>2. QED BY <1>1, <3>1, UpToMore
  <2>3. q + 5 # Len(from) + 1
    BY <1>1, <1>2, <1>9
  <2>4. QED BY <1>1, <1>9, <1>10, <2>1, <2>2, <2>3 DEF Behind
<1>12. Good(from, at2, F, Q)
  <2>1. q \in Int /\ 5 \in Nat /\ Below(F, q) /\ Good(from, at2, Shifted(q, 5, F), Q)
    BY <1>1, <1>2, <1>9
  <2>2. QED BY <1>11, <2>1, InsertedLinked
<1>13. \A k \in 1..(begalt - 1) : from[k] = code[k]
  <2>1. \A k \in 1..(begalt - 1) : k \in 1..(q - 1)
    BY <1>1, <1>2
  <2>2. QED BY <1>4, <1>9, <2>1
<1>14. Len(from) \in Nat /\ Len(code) <= Len(from)
  BY <1>1, <1>9
<1>15. Written(from, at2, begalt, fixup, stack, regnum, q, 0)
  BY <1>12, <1>13, <1>14, WrittenAgain DEF F, Q, q
<1>16. QED BY <1>1, <1>9, <1>15 DEF q

\* {lower,upper}: the same, with the succeed_n led behind a jump_n to come.
Fronted(code, F, Q, q, from, at2) ==
  /\ Good(from, at2, F \cup {q + 5}, Q) /\ Len(from) = Len(code) + 10
  /\ from[q + 5] = op.succeed_n /\ Dest(from, q + 5) = Len(code) + 16
  /\ \A k \in 1..(q - 1) : from[k] = code[k]
  /\ q \in at2 /\ q + 5 \in at2

LEMMA CountersFronted ==
  ASSUME NEW code, NEW at, NEW F, NEW Q, Good(code, at, F, Q), NEW q \in Q, UpTo(Q, q),
         Below(F, q), Len(code) + 20 <= 32767, NEW lower \in Int,
         NEW try, NEW from, try = SucceedCode(code, q, 5, lower),
         from = Insert(try, q, Op2(op.set_number_at, 5, lower))
  PROVE  \E at2 : Fronted(code, F, Q, q, from, at2)
<1> DEFINE at1 == Shifted(q, 5, at)
           at2 == Shifted(q, 5, at1)
           x == 5
           d == Len(code) + 3 + x - q
           F1 == F \cup {q}
<1>1. /\ Len(code) \in Nat /\ q \in 1..(Len(code) + 1)
  <2>1. Q \subseteq at /\ at \subseteq 1..(Len(code) + 1) /\ Len(code) \in Nat
    BY GoodNumbers
  <2>2. q \in at
    BY <2>1
  <2>3. QED BY <2>1, <2>2
<1> HIDE DEF at1, at2
<1>2. /\ Counter(code, at, F, Q, q, op.succeed_n, d, try)
      /\ Dest(try, q) = Len(code) + 11
  <2>1. x \in {0, 5} /\ Len(code) + 10 <= 32767
    BY <1>1
  <2>2. try = SucceedCode(code, q, x, lower)
    OBVIOUS
  <2>3. Len(code) + 6 + x = Len(code) + 11
    BY <1>1
  <2> HIDE DEF x
  <2>4. Succeeding(code, at, F, Q, q, x, SucceedCode(code, q, x, lower))
    BY <2>1, SucceedInserted
  <2>5. QED BY <2>2, <2>3, <2>4 DEF Succeeding
<1>3. /\ Good(try, at1, Shifted(q, 5, F), Q)
      /\ try[q] = op.succeed_n /\ Len(try) = Len(code) + 5
      /\ \A k \in 1..(q - 1) : try[k] = code[k]
      /\ q \in at1
  BY <1>2 DEF Counter, at1
<1>4. /\ Shifted(q, 5, F) = F1 /\ q \notin F /\ Shifted(q, 5, F1) = F \cup {q, q + 5}
  <2>1. q \in Int /\ 5 \in Nat /\ q <= q /\ Below(F, q)
    BY <1>1
  <2> HIDE DEF F1
  <2>2. QED BY <2>1, ShiftedBehind DEF F1
<1>5. Good(try, at1, F1, Q)
  <2> DEFINE A == Shifted(q, 5, F)
  <2>1. A = F1 /\ Good(try, at1, A, Q)
    BY <1>3, <1>4
  <2> HIDE DEF A, F1
  <2>2. QED BY <2>1
<1> HIDE DEF F1
<1>6. Counter(try, at1, F1, Q, q, op.set_number_at, 5, from)
  <2> DEFINE o == op.set_number_at
             y == 5
  <2>1. /\ Good(try, at1, F1, Q) /\ o \in Jumps2 \cup {op.set_number_at}
        /\ y \in Int /\ -32768 <= y /\ y <= 32767
    BY <1>5
  <2>2. from = Insert(try, q, Op2(o, y, lower))
    OBVIOUS
  <2> HIDE DEF o, y
  <2>3. Counter(try, at1, F1, Q, q, o, y, from)
    BY <2>1, <2>2, CounterPut
  <2>4. QED BY <2>3 DEF o, y
<1>7. /\ Good(from, at2, Shifted(q, 5, F1), Q)
      /\ from[q] = op.set_number_at /\ Number(from, q + 1) = 5
      /\ Len(from) = Len(try) + 5
      /\ \A k \in 1..(q - 1) : from[k] = try[k]
      /\ q \in at2 /\ q + 5 \in at2
  BY <1>6 DEF Counter, at2
<1>8. from[q + 5] = op.succeed_n /\ Dest(from, q + 5) = Len(code) + 16
  <2>1. q # Len(try) + 1 /\ q <= q
    BY <1>1, <1>3
  <2>2. op.succeed_n \in Linking
    BY DEF Linking, Jumps2
  <2>3. from[q + 5] = try[q] /\ Dest(from, q + 5) = Dest(try, q) + 5
    BY <1>3, <1>6, <2>1, <2>2 DEF Counter
  <2>4. Len(code) + 11 + 5 = Len(code) + 16
    BY <1>1
  <2>5. QED BY <1>2, <1>3, <2>3, <2>4
<1>9. Dest(from, q) = q + 5
  <2>1. Dest(from, q) = q + 5 + 0
    BY <1>7 DEF Dest
  <2>2. QED BY <1>1, <2>1
<1>10. Len(from) = Len(code) + 10
  BY <1>1, <1>3, <1>7
<1>11. Behind(from, at2, Q, q)
  <2>1. op.set_number_at \in Linking /\ op.set_number_at # op.jump_n
        /\ op.succeed_n \in Jumps2
    BY OpValues DEF Linking, Jumps2
  <2>2. UpTo(Q, q + 5)
    <3>1. q \in Int /\ q + 5 \in Int /\ q <= q + 5
      BY <1>1
    <3>2. QED BY <3>1, UpToMore
  <2>3. q + 5 # Len(from) + 1
    BY <1>1, <1>10
  <2>4. QED BY <1>7, <1>8, <1>9, <2>1, <2>2, <2>3 DEF Behind
<1>12. Good(from, at2, F \cup {q + 5}, Q)
  <2> DEFINE A == Shifted(q, 5, F1)
             B == F \cup {q + 5}
  <2>1. q # q + 5
    BY <1>1
  <2>2. A \ {q} = B
    BY <1>4, <2>1
  <2>3. Good(from, at2, A, Q)
    BY <1>7
  <2> HIDE DEF A, B
  <2>4. Good(from, at2, B, Q)
    BY <1>11, <2>2, <2>3, BehindLinked
  <2>5. QED BY <2>4 DEF B
<1>13. \A k \in 1..(q - 1) : from[k] = code[k]
  BY <1>3, <1>7
<1>14. Fronted(code, F, Q, q, from, at2)
  BY <1>7, <1>8, <1>10, <1>12, <1>13 DEF Fronted
<1>15. QED BY <1>14

\* The jump_n behind.
Backed(code, F, Q, q, back, at3) ==
  /\ Good(back, at3, F, Q) /\ Len(back) = Len(code) + 15
  /\ back[Len(code) + 11] = op.jump_n /\ Len(code) + 11 \in at3
  /\ \A k \in 1..(q - 1) : back[k] = code[k]

LEMMA JumpNBehind ==
  ASSUME NEW code, NEW at, NEW F, NEW Q, Good(code, at, F, Q), NEW q \in Q, UpTo(Q, q),
         Below(F, q), Len(code) + 20 <= 32767, NEW n \in Int,
         NEW from, NEW at2, Fronted(code, F, Q, q, from, at2),
         NEW back, back = StoreJump2(op.jump_n, from, End(from), q + 5, n)
  PROVE  \E at3 : Backed(code, F, Q, q, back, at3)
<1> DEFINE e == Len(code) + 11
           to == q + 5
           at3 == at2 \cup {e + 5}
           F2 == F \cup {to}
<1>1. /\ Len(code) \in Nat /\ q \in 1..(Len(code) + 1) /\ F \subseteq 1..(Len(code) + 1)
  <2>1. Q \subseteq at /\ at \subseteq 1..(Len(code) + 1) /\ Len(code) \in Nat /\ F \subseteq at
    BY GoodNumbers
  <2>2. q \in at
    BY <2>1
  <2>3. QED BY <2>1, <2>2
<1>2. /\ Good(from, at2, F2, Q) /\ Len(from) = Len(code) + 10
      /\ from[to] = op.succeed_n /\ Dest(from, to) = Len(code) + 16
      /\ \A k \in 1..(q - 1) : from[k] = code[k]
      /\ q \in at2 /\ to \in at2
  BY DEF Fronted
<1>3. e \in Nat /\ e = Len(from) + 1 /\ Near(e, to) /\ to \in Int /\ q \in Int /\ to < e
      /\ e \in Int /\ q <= to /\ q <= e /\ e + 5 \in Int /\ q <= e + 5 /\ e + 5 = Len(code) + 16
  BY <1>1, <1>2 DEF Near
<1>4. op.jump_n \in Jumps2 /\ op.jump_n \in Linking /\ op.succeed_n \in Linking
      /\ op.jump_n # Hole /\ op.succeed_n # op.jump_n /\ op.succeed_n # op.set_number_at
      /\ op.jump_n # op.set_number_at
  BY OpValues DEF Jumps2, Linking, Hole
<1> HIDE DEF e, to, F2, at3
<1>5. AtTheEnd(from, at2, F2, Q, e, 5, op.jump_n, to, back)
  <2>1. back = StoreJump2(op.jump_n, from, End(from), to, n)
    BY DEF to
  <2>2. AtTheEnd(from, at2, F2, Q, e, 5, op.jump_n, to,
                 StoreJump2(op.jump_n, from, End(from), to, n))
    BY <1>2, <1>3, <1>4, Jump2Appended
  <2>3. QED BY <2>1, <2>2
<1> DEFINE F3 == F2 \cup {e}
           S == Q \cup {e}
<1>6. /\ Good(back, at3, F3, S)
      /\ back[e] = op.jump_n /\ Dest(back, e) = to /\ Len(back) = Len(from) + 5
      /\ \A k \in 1..Len(from) : back[k] = from[k]
  BY <1>5 DEF AtTheEnd, at3
<1>7. Good(back, at3, F3, Q)
  <2>1. Q \subseteq S \cup {Len(back) + 1}
    OBVIOUS
  <2> HIDE DEF F3, S
  <2>2. QED BY <1>6, <2>1, OtherPlaces
<1>8. to # Len(from) + 1 /\ Len(back) = Len(code) + 15 /\ Len(back) + 1 = e + 5
  BY <1>1, <1>2, <1>3, <1>6
<1>9. back[to] = op.succeed_n /\ Dest(back, to) = e + 5
  <2>1. Shape(from, at2)
    BY <1>2, GoodNumbers
  <2>2. back[to] = from[to] /\ Dest(back, to) = Dest(from, to)
    BY <1>2, <1>4, <1>6, <1>8, <2>1, DestStays
  <2>3. QED BY <1>2, <1>3, <2>2
<1>10. to \in at3 /\ e + 5 \in at3 /\ e \in at3
  <2>1. Len(from) + 1 \in at2
    BY <1>2, GoodNumbers
  <2>2. QED BY <1>2, <1>3, <2>1 DEF at3
<1>11. UpTo(Q, to) /\ UpTo(Q, e) /\ UpTo(Q, e + 5)
  <2>1. UpTo(Q, to)
    BY <1>3, UpToMore
  <2>2. UpTo(Q, e)
    BY <1>3, UpToMore
  <2>3. UpTo(Q, e + 5)
    BY <1>3, UpToMore
  <2>4. QED BY <2>1, <2>2, <2>3
<1>12. Behind(back, at3, Q, to)
  BY <1>4, <1>9, <1>10, <1>11 DEF Behind
<1> DEFINE F4 == F \cup {e}
<1>13. Good(back, at3, F4, Q)
  <2>1. to \notin F /\ to # e
    <3>1. Below(F, q) => to \notin F
      <4>1. ~(to < q)
        BY <1>3
      <4>2. QED BY <4>1 DEF Below
    <3>2. to # e
      BY <1>3
    <3>3. QED BY <3>1, <3>2
  <2>2. F3 \ {to} = F4
    BY <2>1 DEF F2
  <2> HIDE DEF F3, F4
  <2>3. QED BY <1>7, <1>12, <2>2, BehindLinked
<1>14. Good(back, at3, F4 \ {e}, Q)
  <2>1. Link(back, at3, e)
    <3>1. /\ Dest(back, e) = to /\ to \in at3 /\ to < e /\ back[to] = op.succeed_n
          /\ back[e] = op.jump_n
      BY <1>3, <1>6, <1>9, <1>10
    <3>2. QED BY <1>4, <3>1 DEF Link
  <2>2. ASSUME NEW y \in Q
        PROVE  Cut(back, e, y)
    <3>1. y \in Int /\ y <= e /\ y <= to
      BY <1>11 DEF UpTo
    <3>2. ~(e < y) /\ to >= y
      BY <1>3, <3>1
    <3>3. QED BY <1>6, <3>2 DEF Cut
  <2>3. back[e] # Hole
    BY <1>4, <1>6
  <2> HIDE DEF F4
  <2>4. QED BY <1>13, <2>1, <2>2, <2>3, NowLinked
<1>15. Good(back, at3, F, Q)
  <2>1. e \notin F
    <3>1. e \notin 1..(Len(code) + 1)
      BY <1>1 DEF e
    <3>2. F \subseteq 1..(Len(code) + 1)
      BY <1>1
    <3>3. ASSUME e \in F
          PROVE  FALSE
      <4>1. e \in 1..(Len(code) + 1)
        BY <3>2, <3>3
      <4>2. QED BY <3>1, <4>1
    <3>4. QED BY <3>3
  <2> DEFINE A == F4 \ {e}
  <2>2. A = F /\ Good(back, at3, A, Q)
    BY <1>14, <2>1
  <2> HIDE DEF A
  <2>3. QED BY <2>2
<1>16. ASSUME NEW k \in 1..(q - 1)
       PROVE  back[k] = code[k]
  <2>1. k \in 1..Len(from)
    BY <1>1, <1>2
  <2>2. QED BY <1>2, <1>6, <2>1
<1>17. Backed(code, F, Q, q, back, at3)
  BY <1>6, <1>8, <1>10, <1>15, <1>16 DEF Backed, e
<1>18. QED BY <1>17

MoreParts(code, q, lower, n, try, from, back, upto) ==
  /\ try = SucceedCode(code, q, 5, lower)
  /\ from = Insert(try, q, Op2(op.set_number_at, 5, lower))
  /\ back = StoreJump2(op.jump_n, from, End(from), q + 5, n)
  /\ upto = Insert(back, q, Op2(op.set_number_at, End(back) - q, n))

\* The number of a counter set at a place of Q.
LEMMA SettingInserted ==
  ASSUME NEW code, NEW at, NEW F, NEW Q, Good(code, at, F, Q),
         NEW q \in Q, UpTo(Q, q), NEW d \in Int, -32768 <= d, d <= 32767, NEW n \in Int,
         NEW code2, code2 = Insert(code, q, Op2(op.set_number_at, d, n))
  PROVE  Counter(code, at, F, Q, q, op.set_number_at, d, code2)
<1> DEFINE o == op.set_number_at
<1>1. o \in Jumps2 \cup {op.set_number_at}
  OBVIOUS
<1>2. code2 = Insert(code, q, Op2(o, d, n))
  OBVIOUS
<1> HIDE DEF o
<1>3. Counter(code, at, F, Q, q, o, d, Insert(code, q, Op2(o, d, n)))
  BY <1>1, CounterInserted
<1>4. Counter(code, at, F, Q, q, o, d, code2)
  BY <1>2, <1>3
<1>5. QED BY <1>4 DEF o

LEMMA CountedMore ==
  ASSUME NEW code, NEW at, NEW begalt, NEW fixup, NEW stack, NEW regnum, NEW laststart,
         NEW pending, Written(code, at, begalt, fixup, stack, regnum, laststart, pending),
         laststart # 0, Len(code) + 20 <= 32767, NEW lower \in Int, NEW n \in Int,
         NEW try, NEW from, NEW back, NEW upto,
         MoreParts(code, laststart, lower, n, try, from, back, upto)
  PROVE  /\ \E at2 : Written(upto, at2, begalt, fixup, stack, regnum, laststart, 0)
         /\ Len(upto) = Len(code) + 20 /\ Len(code) \in Nat
<1> DEFINE F == Fixups(fixup, stack)
           Q == Marks(begalt, laststart, stack)
           q == laststart
<1>1. /\ q \in Q /\ UpTo(Q, q) /\ Below(F, q)
      /\ q \in at /\ at \subseteq 1..(Len(code) + 1) /\ Len(code) \in Nat
      /\ begalt \in Int /\ begalt <= q /\ Good(code, at, F, Q)
  BY LastPlace
<1> HIDE DEF F, Q
<1>2. q \in 1..(Len(code) + 1)
  BY <1>1
<1> HIDE DEF q
<1>3. /\ try = SucceedCode(code, q, 5, lower)
      /\ from = Insert(try, q, Op2(op.set_number_at, 5, lower))
      /\ back = StoreJump2(op.jump_n, from, End(from), q + 5, n)
      /\ upto = Insert(back, q, Op2(op.set_number_at, End(back) - q, n))
  BY DEF MoreParts, q
<1>4. \E at2 : Fronted(code, F, Q, q, from, at2)
  <2>1. Good(code, at, F, Q) /\ q \in Q /\ UpTo(Q, q) /\ Below(F, q)
    BY <1>1
  <2>2. QED BY <1>3, <2>1, CountersFronted
<1>5. PICK at2 : Fronted(code, F, Q, q, from, at2)
  BY <1>4
<1>6. \E at3 : Backed(code, F, Q, q, back, at3)
  <2>1. Good(code, at, F, Q) /\ q \in Q /\ UpTo(Q, q) /\ Below(F, q)
    BY <1>1
  <2>2. QED BY <1>3, <1>5, <2>1, JumpNBehind
<1>7. PICK at3 : Backed(code, F, Q, q, back, at3)
  BY <1>6
<1> DEFINE e == Len(code) + 11
           d == e + 5 - q
           at4 == Shifted(q, 5, at3)
<1>8. /\ Good(back, at3, F, Q) /\ Len(back) = Len(code) + 15
      /\ back[e] = op.jump_n /\ e \in at3
      /\ \A k \in 1..(q - 1) : back[k] = code[k]
  BY <1>7 DEF Backed
<1>9. /\ d \in Int /\ -32768 <= d /\ d <= 32767 /\ End(back) - q = d /\ q <= e
      /\ e # Len(back) + 1 /\ e \in Int /\ e + 5 # Len(back) + 5 + 1
  BY <1>1, <1>2, <1>8 DEF End
<1>10. q + d + 0 = e + 5
  BY <1>1, <1>2
<1> HIDE DEF d, e, at4
<1>11. Counter(back, at3, F, Q, q, op.set_number_at, d, upto)
  <2>1. /\ Good(back, at3, F, Q) /\ q \in Q /\ UpTo(Q, q) /\ d \in Int
        /\ -32768 <= d /\ d <= 32767 /\ op.set_number_at \in Jumps2 \cup {op.set_number_at}
    BY <1>1, <1>8, <1>9
  <2>2. upto = Insert(back, q, Op2(op.set_number_at, d, n))
    BY <1>3, <1>9
  <2>3. QED BY <2>1, <2>2, SettingInserted
<1>12. /\ Good(upto, at4, Shifted(q, 5, F), Q)
       /\ upto[q] = op.set_number_at /\ Number(upto, q + 1) = d
       /\ Len(upto) = Len(back) + 5
       /\ \A k \in 1..(q - 1) : upto[k] = back[k]
       /\ q \in at4 /\ e + 5 \in at4 /\ upto[e + 5] = op.jump_n
  <2>1. e + 5 \in at4 /\ upto[e + 5] = back[e]
    BY <1>8, <1>9, <1>11 DEF Counter, at4
  <2>2. QED BY <1>8, <1>11, <2>1 DEF Counter, at4
<1>13. Dest(upto, q) = e + 5
  <2>1. Dest(upto, q) = q + d + 0
    BY <1>12 DEF Dest
  <2>2. QED BY <1>10, <2>1
<1>14. Behind(upto, at4, Q, q)
  <2>1. op.set_number_at \in Linking /\ op.set_number_at # op.jump_n /\ op.jump_n \in Jumps2
    BY OpValues DEF Linking, Jumps2
  <2>2. UpTo(Q, e + 5)
    <3>1. q \in Int /\ e + 5 \in Int /\ q <= e + 5
      BY <1>2, <1>9
    <3>2. QED BY <1>1, <3>1, UpToMore
  <2>3. e + 5 # Len(upto) + 1
    BY <1>9, <1>12
  <2>4. QED BY <1>1, <1>12, <1>13, <2>1, <2>2, <2>3 DEF Behind
<1>15. Good(upto, at4, F, Q)
  <2>1. q \in Int /\ 5 \in Nat /\ Below(F, q) /\ Good(upto, at4, Shifted(q, 5, F), Q)
    BY <1>1, <1>2, <1>12
  <2>2. QED BY <1>14, <2>1, InsertedLinked
<1>16. \A k \in 1..(begalt - 1) : upto[k] = code[k]
  <2>1. \A k \in 1..(begalt - 1) : k \in 1..(q - 1)
    BY <1>1, <1>2
  <2>2. QED BY <1>8, <1>12, <2>1
<1>17. Len(upto) \in Nat /\ Len(code) <= Len(upto) /\ Len(upto) = Len(code) + 20
  BY <1>1, <1>8, <1>12
<1>18. Written(upto, at4, begalt, fixup, stack, regnum, q, 0)
  BY <1>15, <1>16, <1>17, WrittenAgain DEF F, Q, q
<1>19. QED BY <1>1, <1>17, <1>18 DEF q

\* An interval where nothing can repeat is around nothing, at the end.
LEMMA StartedAtEnd ==
  ASSUME NEW code, NEW at, NEW begalt, NEW fixup, NEW stack, NEW regnum, NEW laststart,
         NEW pending, Written(code, at, begalt, fixup, stack, regnum, laststart, pending),
         NEW last, last = IF laststart = 0 THEN End(code) ELSE laststart
  PROVE  /\ Written(code, at, begalt, fixup, stack, regnum, last, 0)
         /\ last # 0 /\ last \in at
<1> DEFINE F == Fixups(fixup, stack)
           Q == Marks(begalt, laststart, stack)
           Q2 == Marks(begalt, last, stack)
           e == Len(code) + 1
<1>1. /\ Len(code) \in Nat /\ at \subseteq 1..e /\ e \in at /\ Good(code, at, F, Q)
      /\ begalt \in at /\ (laststart # 0 => laststart \in at)
  BY WrittenNumbers
<1>2. begalt \in 1..e
  BY <1>1
<1>3. last = laststart \/ last = e
  BY DEF End
<1>4. Q2 \subseteq Q \cup {e}
  BY <1>3 DEF Marks
<1>5. last # 0 /\ last \in at
  BY <1>1 DEF End
<1>6. Good(code, at, F, Q2)
  <2> HIDE DEF F, Q, Q2
  <2>1. QED BY <1>1, <1>4, OtherPlaces
<1>7. NestedIn(stack, begalt, fixup, last)
  <2>1. Level(begalt, fixup, last)
    <3>1. Level(begalt, fixup, laststart)
      BY DEF Written, NestedIn
    <3>2. begalt <= e
      BY <1>2
    <3> HIDE DEF e
    <3>3. QED BY <1>3, <1>5, <3>1, <3>2 DEF Level
  <2>2. QED BY <2>1 DEF Written, NestedIn
<1>8. Pending(code, at, 0, F, Q2)
  BY DEF Pending
<1>9. Written(code, at, begalt, fixup, stack, regnum, last, 0)
  BY <1>6, <1>7, <1>8 DEF Written
<1>10. QED BY <1>5, <1>9

-----------------------------------------------------------------------------
(***************************************************************************)
(* The repetitions.                                                        *)
(***************************************************************************)
\* Nothing may be repeated: a jump over the expression.
LEMMA JumpedOver ==
  ASSUME NEW code, NEW at, NEW begalt, NEW fixup, NEW stack, NEW regnum, NEW laststart,
         NEW pending, Written(code, at, begalt, fixup, stack, regnum, laststart, pending),
         laststart # 0, NEW o \in Jumps, Len(code) + 3 <= 32767,
         NEW code2, code2 = InsertJump(o, code, laststart, End(code) + 3)
  PROVE  /\ \E at2 : /\ Written(code2, at2, begalt, fixup, stack, regnum, laststart, 0)
                     /\ laststart + 3 \in at2
         /\ Len(code2) = Len(code) + 3 /\ Len(code) \in Nat
<1> DEFINE to == End(code) + 3
<1>1. /\ Len(code) \in Nat /\ Len(code) + 1 \in at /\ at \subseteq 1..(Len(code) + 1)
      /\ laststart \in at
  BY WrittenNumbers
<1>2. laststart \in 1..(Len(code) + 1)
  BY <1>1
<1>3. to \in Int /\ to - 3 = Len(code) + 1 /\ laststart <= to - 3
  BY <1>1, <1>2 DEF End
<1>4. to - 3 \in at
  BY <1>1, <1>3
<1> HIDE DEF to
<1>5. /\ Written(InsertJump(o, code, laststart, to), Shifted(laststart, 3, at), begalt, fixup,
                 stack, regnum, laststart, 0)
      /\ laststart + 3 \in Shifted(laststart, 3, at)
      /\ Len(InsertJump(o, code, laststart, to)) = Len(code) + 3
  BY <1>3, <1>4, Wrapped
<1>6. QED BY <1>1, <1>5 DEF to

\* What the bytecode of an interval is made of.
LEMMA RepeatedIs ==
  ASSUME NEW code, NEW last, NEW lower, NEW upper
  PROVE  LET x == IF upper > 1 THEN 5 ELSE 0
             n == upper - 1
             try  == InsertJump2(op.succeed_n, code, last, End(code) + 5 + x, lower)
             from == Insert(try, last, Op2(op.set_number_at, 5, lower))
             back == StoreJump2(op.jump_n, from, End(from), last + 5, n)
             upto == Insert(back, last, Op2(op.set_number_at, End(back) - last, n))
             none == InsertJump(op.jump, code, last, End(code) + 3)
         IN Repeated(code, last, lower, upper) =
              IF upper = 0 THEN none ELSE IF upper > 1 THEN upto ELSE from
BY Zenon DEF Repeated

\* The bytecode of an interval.
LEMMA RepeatedWritten ==
  ASSUME NEW code, NEW at, NEW begalt, NEW fixup, NEW stack, NEW regnum, NEW last,
         NEW pending, Written(code, at, begalt, fixup, stack, regnum, last, pending),
         last # 0, NEW lower \in Int, NEW upper \in Nat,
         NEW code2, code2 = Repeated(code, last, lower, upper), Len(code2) <= 32767
  PROVE  /\ \E at2 : Written(code2, at2, begalt, fixup, stack, regnum, last, 0)
         /\ Len(code2) \in Nat /\ Len(code) <= Len(code2)
<1> DEFINE x == IF upper > 1 THEN 5 ELSE 0
           n == upper - 1
           try  == InsertJump2(op.succeed_n, code, last, End(code) + 5 + x, lower)
           from == Insert(try, last, Op2(op.set_number_at, 5, lower))
           back == StoreJump2(op.jump_n, from, End(from), last + 5, n)
           upto == Insert(back, last, Op2(op.set_number_at, End(back) - last, n))
           none == InsertJump(op.jump, code, last, End(code) + 3)
<1>1. code2 = IF upper = 0 THEN none ELSE IF upper > 1 THEN upto ELSE from
  <2>1. Repeated(code, last, lower, upper) =
          IF upper = 0 THEN none ELSE IF upper > 1 THEN upto ELSE from
    BY RepeatedIs
  <2> HIDE DEF none, upto, from, back, try
  <2>2. QED BY <2>1
<1>2. /\ Len(code) \in Nat /\ at \subseteq 1..(Len(code) + 1) /\ last \in at
      /\ code \in Seq(Cell)
  BY WrittenNumbers
<1>3. last \in 1..(Len(code) + 1) /\ IsSeq(code)
  BY <1>2 DEF IsSeq
<1>4. Len(code2) = Len(code) + (IF upper = 0 THEN 3 ELSE IF upper > 1 THEN 20 ELSE 10)
  BY <1>3, RepeatedLen
<1>5. CASE upper = 0
  <2>1. Len(code) + 3 <= 32767 /\ code2 = none
    BY <1>1, <1>4, <1>5
  <2>2. op.jump \in Jumps
    BY DEF Jumps
  <2>3. \E at2 : /\ Written(code2, at2, begalt, fixup, stack, regnum, last, 0)
                 /\ last + 3 \in at2
    BY <2>1, <2>2, JumpedOver
  <2>4. QED BY <1>2, <1>4, <1>5, <2>3
<1>6. CASE upper = 1
  <2>1. Len(code) + 10 <= 32767 /\ code2 = from /\ Len(code2) = Len(code) + 10
    BY <1>1, <1>4, <1>6
  <2>2. x = 0
    BY <1>6
  <2>3. try = SucceedCode(code, last, 0, lower)
    BY <2>2 DEF SucceedCode
  <2> HIDE DEF try
  <2>4. OnceParts(code, last, lower, try, code2)
    BY <2>1, <2>3 DEF OnceParts
  <2>5. \E at2 : Written(code2, at2, begalt, fixup, stack, regnum, last, 0)
    BY <2>1, <2>4, CountedOnce
  <2>6. QED BY <1>2, <2>1, <2>5
<1>7. CASE upper > 1
  <2>1. Len(code) + 20 <= 32767 /\ code2 = upto /\ Len(code2) = Len(code) + 20
    BY <1>1, <1>4, <1>7
  <2>2. x = 5 /\ n \in Int
    BY <1>7
  <2>3. try = SucceedCode(code, last, 5, lower)
    BY <2>2 DEF SucceedCode
  <2> HIDE DEF try, n
  <2>4. MoreParts(code, last, lower, n, try, from, back, code2)
    BY <2>1, <2>3 DEF MoreParts
  <2> HIDE DEF from, back
  <2>5. \E at2 : Written(code2, at2, begalt, fixup, stack, regnum, last, 0)
    BY <2>1, <2>2, <2>4, CountedMore
  <2>6. QED BY <1>2, <2>1, <2>5
<1>8. upper = 0 \/ upper = 1 \/ upper > 1
  OBVIOUS
<1>9. QED BY <1>5, <1>6, <1>7, <1>8

\* The bytecode of a run of * + ?.
LoopBody(code, last, many, keep) ==
  IF ~many THEN code
  ELSE IF keep THEN StoreJump(op.jump, code, End(code), last)
  ELSE StoreJump(op.maybe_pop_jump, code, End(code), last - 3)
LoopTry(code, last, many, keep) ==
  InsertJump(IF many /\ keep THEN op.on_failure_keep_string_jump ELSE op.on_failure_jump,
             code, last, End(code) + 3)
LoopCode(code, last, many, zero, keep) ==
  LET loop == LoopTry(LoopBody(code, last, many, keep), last, many, keep)
  IN IF zero THEN loop ELSE InsertJump(op.dummy_failure_jump, loop, last, last + 6)

LEMMA LoopTried ==
  ASSUME NEW code, NEW at, NEW begalt, NEW fixup, NEW stack, NEW regnum, NEW last,
         NEW pending, Written(code, at, begalt, fixup, stack, regnum, last, pending),
         last # 0, NEW many \in BOOLEAN, NEW keep \in BOOLEAN,
         Len(code) + (IF many THEN 6 ELSE 3) <= 32767,
         NEW loop, loop = LoopTry(LoopBody(code, last, many, keep), last, many, keep)
  PROVE  /\ \E at2 : /\ Written(loop, at2, begalt, fixup, stack, regnum, last, 0)
                     /\ last + 3 \in at2
         /\ Len(loop) = Len(code) + (IF many THEN 6 ELSE 3) /\ Len(code) \in Nat
<1> DEFINE o == IF many /\ keep THEN op.on_failure_keep_string_jump ELSE op.on_failure_jump
           back == IF keep THEN op.jump ELSE op.maybe_pop_jump
           to == IF keep THEN last ELSE last - 3
<1>1. o \in Jumps /\ back \in Jumps /\ to \in {last, last - 3}
  BY DEF Jumps
<1>2. Len(code) \in Nat
  BY WrittenNumbers
<1>3. CASE ~many
  <2>1. loop = InsertJump(o, code, last, End(code) + 3)
    BY <1>3 DEF LoopTry, LoopBody
  <2> HIDE DEF o
  <2>2. Len(code) + 3 <= 32767
    BY <1>3
  <2>3. /\ \E at2 : /\ Written(loop, at2, begalt, fixup, stack, regnum, last, 0)
                    /\ last + 3 \in at2
        /\ Len(loop) = Len(code) + 3
    BY <1>1, <2>1, <2>2, JumpedOver
  <2>4. QED BY <1>2, <1>3, <2>3
<1>4. CASE many
  <2>1. loop = LoopMade(code, last, o, back, to)
    <3>1. CASE keep
      BY <1>4, <3>1 DEF LoopTry, LoopBody, LoopMade
    <3>2. CASE ~keep
      BY <1>4, <3>2 DEF LoopTry, LoopBody, LoopMade
    <3>3. QED BY <3>1, <3>2
  <2> HIDE DEF o, back, to
  <2>2. Len(code) + 6 <= 32767
    BY <1>4
  <2>3. /\ \E at2 : /\ Written(LoopMade(code, last, o, back, to), at2, begalt, fixup, stack,
                              regnum, last, 0)
                    /\ last + 3 \in at2
        /\ Len(LoopMade(code, last, o, back, to)) = Len(code) + 6
    BY <1>1, <2>2, LoopedBack
  <2> DEFINE made == LoopMade(code, last, o, back, to)
  <2>4. PICK at2 : /\ Written(made, at2, begalt, fixup, stack, regnum, last, 0)
                   /\ last + 3 \in at2
    BY <2>3
  <2>5. loop = made /\ Len(made) = Len(code) + 6
    BY <2>1, <2>3
  <2> HIDE DEF made
  <2>6. Written(loop, at2, begalt, fixup, stack, regnum, last, 0)
    BY <2>4, <2>5
  <2>7. Len(loop) = Len(code) + (IF many THEN 6 ELSE 3)
    <3>1. many = TRUE
      BY <1>4
    <3>2. QED BY <2>5, <3>1
  <2>8. QED BY <1>2, <2>4, <2>6, <2>7
<1>5. QED BY <1>3, <1>4

LEMMA LoopWritten ==
  ASSUME NEW code, NEW at, NEW begalt, NEW fixup, NEW stack, NEW regnum, NEW last,
         NEW pending, Written(code, at, begalt, fixup, stack, regnum, last, pending),
         last # 0, NEW many \in BOOLEAN, NEW zero \in BOOLEAN, NEW keep \in BOOLEAN,
         NEW n \in Nat, n = (IF many THEN 6 ELSE 3) + (IF zero THEN 0 ELSE 3),
         Len(code) + n <= 32767, NEW code2, code2 = LoopCode(code, last, many, zero, keep)
  PROVE  /\ \E at2 : Written(code2, at2, begalt, fixup, stack, regnum, last, 0)
         /\ Len(code2) = Len(code) + n /\ Len(code) \in Nat
<1> DEFINE k == IF many THEN 6 ELSE 3
           loop == LoopTry(LoopBody(code, last, many, keep), last, many, keep)
<1>1. Len(code) \in Nat
  BY WrittenNumbers
<1>2. Len(code) + k <= 32767 /\ k \in Nat
  BY <1>1
<1>3. /\ \E at2 : /\ Written(loop, at2, begalt, fixup, stack, regnum, last, 0)
                  /\ last + 3 \in at2
      /\ Len(loop) = Len(code) + k
  <2>1. Len(code) + (IF many THEN 6 ELSE 3) <= 32767
    BY <1>2
  <2>2. QED BY <2>1, LoopTried
<1>4. code2 = IF zero THEN loop ELSE InsertJump(op.dummy_failure_jump, loop, last, last + 6)
  BY DEF LoopCode
<1> HIDE DEF loop
<1>5. CASE zero
  BY <1>1, <1>3, <1>4, <1>5
<1>6. CASE ~zero
  <2> DEFINE to == last + 6
             o == op.dummy_failure_jump
  <2>1. PICK at1 : /\ Written(loop, at1, begalt, fixup, stack, regnum, last, 0)
                   /\ last + 3 \in at1
    BY <1>3
  <2>2. at1 \subseteq 1..(Len(loop) + 1) /\ last \in at1 /\ Len(loop) \in Nat
    BY <2>1, WrittenNumbers
  <2>3. last \in Int
    BY <2>2
  <2>4. to \in Int /\ to - 3 = last + 3 /\ last <= to - 3 /\ o \in Jumps
    BY <2>3 DEF Jumps
  <2>5. to - 3 \in at1 /\ Len(loop) + 3 <= 32767
    BY <1>1, <1>2, <1>3, <1>6, <2>1, <2>4
  <2> HIDE DEF to, o
  <2>6. /\ Written(InsertJump(o, loop, last, to), Shifted(last, 3, at1), begalt, fixup, stack,
                   regnum, last, 0)
        /\ Len(InsertJump(o, loop, last, to)) = Len(loop) + 3
    BY <2>1, <2>4, <2>5, Wrapped
  <2>7. code2 = InsertJump(o, loop, last, to)
    BY <1>4, <1>6 DEF to, o
  <2>8. n = k + 3
    BY <1>6
  <2>9. QED BY <1>1, <1>2, <1>3, <2>6, <2>7, <2>8
<1>7. QED BY <1>5, <1>6

-----------------------------------------------------------------------------
(***************************************************************************)
(* The characters.                                                         *)
(***************************************************************************)
CharBegun(code, c) == [Append(code \o <<op.exactn, 0>>, c) EXCEPT ![Len(code) + 2] = @ + 1]
CharAdded(code, k, c) == [Append(code, c) EXCEPT ![k] = @ + 1]

LEMMA CharBegunIs ==
  ASSUME NEW code \in Seq(Cell), NEW c \in 0..255
  PROVE  CharBegun(code, c) = code \o <<op.exactn, 1, c>>
<1> DEFINE n == Len(code)
           two == <<op.exactn, 0>>
           mid == <<op.exactn, 1, c>>
           start == code \o two
           a == Append(start, c)
           whole == CharBegun(code, c)
           code2 == code \o mid
<1>1. n \in Nat /\ op.exactn = 1 /\ c \in Cell /\ 1 \in Cell /\ 0 \in Cell
  <2>1. c \in Cell /\ 1 \in Cell /\ 0 \in Cell
    BY DEF Cell
  <2>2. QED BY <2>1, OpValues
<1>2. two \in Seq(Cell) /\ Len(two) = 2 /\ two[1] = 1 /\ two[2] = 0
  BY <1>1
<1>3. mid \in Seq(Cell) /\ Len(mid) = 3 /\ mid[1] = 1 /\ mid[2] = 1 /\ mid[3] = c
  BY <1>1
<1> HIDE DEF two, mid
<1>4. /\ start \in Seq(Cell) /\ Len(start) = n + 2
      /\ start[n + 1] = 1 /\ start[n + 2] = 0
      /\ \A k \in 1..n : start[k] = code[k]
  <2>1. /\ start \in Seq(Cell) /\ Len(start) = n + 2
        /\ \A k \in 1..(n + 2) : start[k] = IF k <= n THEN code[k] ELSE two[k - n]
    <3>1. /\ start \in Seq(Cell) /\ Len(start) = Len(code) + Len(two)
          /\ \A k \in 1..(Len(code) + Len(two)) :
               start[k] = IF k <= Len(code) THEN code[k] ELSE two[k - Len(code)]
      BY <1>2, ConcatProperties
    <3>2. Len(code) + Len(two) = n + 2
      BY <1>2
    <3> HIDE DEF start
    <3>3. QED BY <3>1, <3>2
  <2>2. n + 1 \in 1..(n + 2) /\ n + 2 \in 1..(n + 2) /\ ~(n + 1 <= n) /\ ~(n + 2 <= n)
        /\ (n + 1) - n = 1 /\ (n + 2) - n = 2
    BY <1>1
  <2>3. start[n + 1] = two[1] /\ start[n + 2] = two[2]
    BY <2>1, <2>2
  <2>4. ASSUME NEW k \in 1..n PROVE start[k] = code[k]
    <3>1. k \in 1..(n + 2) /\ k <= n
      BY <1>1
    <3>2. QED BY <2>1, <3>1
  <2>5. QED BY <1>2, <2>1, <2>3, <2>4
<1>5. /\ code2 \in Seq(Cell) /\ Len(code2) = n + 3
      /\ code2[n + 1] = 1 /\ code2[n + 2] = 1 /\ code2[n + 3] = c
      /\ \A k \in 1..n : code2[k] = code[k]
  <2>1. /\ code2 \in Seq(Cell) /\ Len(code2) = n + 3
        /\ \A k \in 1..(n + 3) : code2[k] = IF k <= n THEN code[k] ELSE mid[k - n]
    <3>1. /\ code2 \in Seq(Cell) /\ Len(code2) = Len(code) + Len(mid)
          /\ \A k \in 1..(Len(code) + Len(mid)) :
               code2[k] = IF k <= Len(code) THEN code[k] ELSE mid[k - Len(code)]
      BY <1>3, ConcatProperties
    <3>2. Len(code) + Len(mid) = n + 3
      BY <1>3
    <3> HIDE DEF code2
    <3>3. QED BY <3>1, <3>2
  <2>2. /\ n + 1 \in 1..(n + 3) /\ n + 2 \in 1..(n + 3) /\ n + 3 \in 1..(n + 3)
        /\ ~(n + 1 <= n) /\ ~(n + 2 <= n) /\ ~(n + 3 <= n)
        /\ (n + 1) - n = 1 /\ (n + 2) - n = 2 /\ (n + 3) - n = 3
    BY <1>1
  <2>3. code2[n + 1] = mid[1] /\ code2[n + 2] = mid[2] /\ code2[n + 3] = mid[3]
    BY <2>1, <2>2
  <2>4. ASSUME NEW k \in 1..n PROVE code2[k] = code[k]
    <3>1. k \in 1..(n + 3) /\ k <= n
      BY <1>1
    <3>2. QED BY <2>1, <3>1
  <2>5. QED BY <1>3, <2>1, <2>3, <2>4
<1> HIDE DEF start, code2
<1>6. /\ a \in Seq(Cell) /\ Len(a) = n + 3 /\ a[n + 3] = c
      /\ \A k \in 1..(n + 2) : a[k] = start[k]
  <2>1. /\ a \in Seq(Cell) /\ Len(a) = Len(start) + 1 /\ a[Len(start) + 1] = c
        /\ \A k \in 1..Len(start) : a[k] = start[k]
    BY <1>1, <1>4, AppendProperties
  <2> HIDE DEF a
  <2>2. Len(start) + 1 = n + 3
    BY <1>1, <1>4
  <2>3. QED BY <1>4, <2>1, <2>2
<1>7. whole = [a EXCEPT ![n + 2] = a[n + 2] + 1]
  BY DEF CharBegun, start, two
<1> HIDE DEF a, whole
<1>8. a[n + 2] = 0
  BY <1>1, <1>4, <1>6
<1>9. whole = [a EXCEPT ![n + 2] = 1]
  BY <1>7, <1>8
<1>10. a \in [1..(n + 3) -> Cell] /\ whole \in [1..(n + 3) -> Cell]
  BY <1>1, <1>6, <1>9
<1>11. code2 \in [1..(n + 3) -> Cell]
  BY <1>5
<1>12. ASSUME NEW k \in 1..(n + 3) PROVE whole[k] = code2[k]
  <2>1. n \in Nat /\ k \in Int /\ 1 <= k /\ k <= n + 3
    BY <1>1
  <2>2. CASE k = n + 2
    BY <1>5, <1>9, <1>10, <2>2
  <2>3. CASE k # n + 2
    <3>1. whole[k] = a[k]
      BY <1>9, <1>10, <2>3
    <3>2. k \in 1..n \/ k = n + 1 \/ k = n + 3
      BY <2>1, <2>3
    <3>3. k # n + 3 => a[k] = start[k]
      BY <1>6, <2>1, <2>3
    <3>4. CASE k \in 1..n
      <4>1. k # n + 3
        BY <1>1, <3>4
      <4>2. QED BY <1>4, <1>5, <3>1, <3>3, <3>4, <4>1
    <3>5. CASE k = n + 1
      <4>1. k # n + 3
        BY <1>1, <3>5
      <4>2. QED BY <1>4, <1>5, <3>1, <3>3, <3>5, <4>1
    <3>6. CASE k = n + 3
      BY <1>5, <1>6, <3>1, <3>6
    <3>7. QED BY <3>2, <3>4, <3>5, <3>6
  <2>4. QED BY <2>2, <2>3
<1>13. whole = code2
  BY <1>10, <1>11, <1>12
<1>14. QED BY <1>13 DEF whole, code2, mid

CharStarts(code, begalt, fixup, stack, regnum, code2) ==
  \E at2 : Written(code2, at2, begalt, fixup, stack, regnum, Len(code) + 1, Len(code) + 2)

LEMMA BegunWritten ==
  ASSUME NEW code, NEW at, NEW begalt, NEW fixup, NEW stack, NEW regnum, NEW laststart,
         NEW pending, Written(code, at, begalt, fixup, stack, regnum, laststart, pending),
         NEW c \in 0..255, NEW code2, code2 = CharBegun(code, c)
  PROVE  /\ CharStarts(code, begalt, fixup, stack, regnum, code2)
         /\ Len(code2) = Len(code) + 3 /\ Len(code) \in Nat
<1> DEFINE mid == <<op.exactn, 1, c>>
           e == Len(code) + 1
           p == Len(code) + 2
<1>1. code \in Seq(Cell) /\ Len(code) \in Nat
  BY WrittenNumbers
<1>2. code2 = code \o mid
  BY <1>1, CharBegunIs
<1>3. OneInstruction(mid) /\ mid[1] \notin Linking /\ mid[1] # Hole /\ mid[1] = op.exactn
  BY ExactInstruction
<1>4. Len(mid) = 3 /\ IsSeq(mid) /\ IsSeq(code)
  BY <1>1, SeqTuple DEF IsSeq
<1> HIDE DEF mid
<1>5. Len(code \o mid) = Len(code) + 3
  BY <1>1, <1>4, SeqConcat
<1>6. Extended(code, mid, begalt, fixup, stack, regnum, e, p)
  <2>1. e \in {laststart, Len(code) + 1} /\ p = Len(code) + 2
    OBVIOUS
  <2> HIDE DEF e, p
  <2>2. QED BY <1>3, <2>1, Appended
<1>7. CharStarts(code, begalt, fixup, stack, regnum, code2)
  BY <1>2, <1>6 DEF CharStarts, Extended, e, p
<1>8. QED BY <1>1, <1>2, <1>5, <1>7

\* Another character of an exactn.
CharAdds(begalt, fixup, stack, regnum, laststart, k, code2) ==
  \E at2 : Written(code2, at2, begalt, fixup, stack, regnum, laststart, k)

LEMMA AddedWritten ==
  ASSUME NEW code, NEW at, NEW begalt, NEW fixup, NEW stack, NEW regnum, NEW laststart,
         NEW k, Written(code, at, begalt, fixup, stack, regnum, laststart, k),
         k # 0, k + code[k] = Len(code), code[k] # 255,
         NEW c \in 0..255, NEW code2, code2 = CharAdded(code, k, c)
  PROVE  /\ CharAdds(begalt, fixup, stack, regnum, laststart, k, code2)
         /\ Len(code2) = Len(code) + 1 /\ Len(code) \in Nat
<1>1. code \in Seq(Cell) /\ Len(code) \in Nat /\ Shape(code, at) /\ at \subseteq 1..(Len(code) + 1)
  BY WrittenNumbers
<1>2. k \in Nat /\ k - 1 \in at /\ k <= Len(code) /\ code[k - 1] = op.exactn
  BY DEF Written, Pending
<1>3. k \in 1..Len(code) /\ k - 1 # Len(code) + 1
  BY <1>1, <1>2
<1>4. code[k] \in 0..255
  <2> DEFINE i == k - 1
  <2>1. code[i] \in Counting /\ i \in at /\ i # Len(code) + 1 /\ i + 1 = k
    BY <1>2, <1>3 DEF Counting
  <2> HIDE DEF i
  <2>2. Fitting(code, at, i)
    BY <1>1, <2>1 DEF Shape
  <2>3. code[i + 1] \in 0..255
    BY <2>1, <2>2 DEF Fitting
  <2>4. QED BY <2>1, <2>3
<1>5. code[k] \in 0..254
  BY <1>4
<1>6. Grew(code, k, code2)
  <2>1. Grew(code, k, [Append(code, c) EXCEPT ![k] = @ + 1])
    BY <1>1, <1>3, <1>5, GrewBytes
  <2>2. QED BY <2>1 DEF CharAdded
<1> DEFINE at2 == (at \ {Len(code) + 1}) \cup {Len(code) + 2}
<1>7. Written(code2, at2, begalt, fixup, stack, regnum, laststart, k)
  BY <1>6, ExactGrows
<1>8. Len(code2) = Len(code) + 1
  BY <1>6 DEF Grew
<1>9. QED BY <1>1, <1>7, <1>8 DEF CharAdds

-----------------------------------------------------------------------------
(***************************************************************************)
(* The bracket expressions.                                                *)
(***************************************************************************)
LEMMA EightBits ==
  ASSUME NEW a \in {0, 1}, NEW b \in {0, 2}, NEW c \in {0, 4}, NEW d \in {0, 8},
         NEW e \in {0, 16}, NEW f \in {0, 32}, NEW g \in {0, 64}, NEW h \in {0, 128}
  PROVE  a + b + c + d + e + f + g + h \in 0..255
<1> DEFINE x == a + b + c + d
           y == e + f + g + h
<1>1. x \in 0..15
  OBVIOUS
<1>2. y \in 0..240
  OBVIOUS
<1>3. /\ a \in Int /\ b \in Int /\ c \in Int /\ d \in Int
      /\ e \in Int /\ f \in Int /\ g \in Int /\ h \in Int
  OBVIOUS
<1>4. a + b + c + d + e + f + g + h = x + y
  BY <1>3
<1> HIDE DEF x, y
<1>5. QED BY <1>1, <1>2, <1>4

LEMMA BitmapBytes ==
  ASSUME NEW S \in SUBSET (0..255)
  PROVE  Bitmap(S) \in Seq(0..255)
<1> DEFINE n == IF S = {} THEN 0 ELSE Max(S) \div 8 + 1
           bit(i, k) == IF 8 * (i - 1) + k \in S THEN 2^k ELSE 0
           f(i) == bit(i, 0) + bit(i, 1) + bit(i, 2) + bit(i, 3)
                     + bit(i, 4) + bit(i, 5) + bit(i, 6) + bit(i, 7)
           map == Bitmap(S)
<1>1. map = [i \in 1..n |-> f(i)]
  BY DEF Bitmap
<1>2. n \in Nat
  <2>1. IsSeq(map)
    BY BitmapLen
  <2> DEFINE x == Max(S)
  <2>2. CASE S = {}
    BY <2>2
  <2>3. CASE S # {}
    <3>1. x \in 0..255
      BY <2>3, MaxOf
    <3>2. n = x \div 8 + 1
      BY <2>3
    <3> HIDE DEF x
    <3>3. x \div 8 \in 0..31
      BY <3>1
    <3>4. QED BY <3>2, <3>3
  <2>4. QED BY <2>2, <2>3
<1>3. ASSUME NEW i \in 1..n
      PROVE  f(i) \in 0..255
  <2>1. /\ bit(i, 0) \in {0, 1} /\ bit(i, 1) \in {0, 2} /\ bit(i, 2) \in {0, 4}
        /\ bit(i, 3) \in {0, 8} /\ bit(i, 4) \in {0, 16} /\ bit(i, 5) \in {0, 32}
        /\ bit(i, 6) \in {0, 64} /\ bit(i, 7) \in {0, 128}
    <3>1. /\ 2^0 = 1 /\ 2^1 = 2 /\ 2^2 = 4 /\ 2^3 = 8 /\ 2^4 = 16 /\ 2^5 = 32 /\ 2^6 = 64
          /\ 2^7 = 128
      OBVIOUS
    <3>2. QED BY <3>1, Zenon
  <2> HIDE DEF bit
  <2>2. QED BY <2>1, EightBits
<1> HIDE DEF n, f, map
<1>4. map \in [1..n -> 0..255]
  BY <1>1, <1>3
<1>5. map \in Seq(0..255)
  BY <1>2, <1>4
<1>6. QED BY <1>5 DEF map

LEMMA PairIs ==
  ASSUME NEW o \in Cell, NEW x \in Cell
  PROVE  <<o, x>> = <<o>> \o <<x>>
<1> DEFINE a == <<o>>
           b == <<x>>
           t == a \o b
           u == <<o, x>>
<1>1. /\ a \in Seq(Cell) /\ b \in Seq(Cell) /\ Len(a) = 1 /\ Len(b) = 1
      /\ a[1] = o /\ b[1] = x
  OBVIOUS
<1>2. u \in Seq(Cell) /\ Len(u) = 2 /\ u[1] = o /\ u[2] = x
  OBVIOUS
<1> HIDE DEF a, b, u
<1>3. /\ t \in Seq(Cell) /\ Len(t) = Len(a) + Len(b)
      /\ \A i \in 1..(Len(a) + Len(b)) : t[i] = IF i <= Len(a) THEN a[i] ELSE b[i - Len(a)]
  BY <1>1, ConcatProperties
<1> HIDE DEF t
<1>4. Len(t) = 2 /\ \A i \in 1..2 : t[i] = IF i <= 1 THEN a[i] ELSE b[i - 1]
  BY <1>1, <1>3
<1>5. t[1] = o /\ t[2] = x
  BY <1>1, <1>4
<1>6. t \in [1..2 -> Cell] /\ u \in [1..2 -> Cell]
  <2> DEFINE n == 2
  <2>1. t \in Seq(Cell) /\ Len(t) = n /\ u \in Seq(Cell) /\ Len(u) = n
    BY <1>2, <1>3, <1>4
  <2> HIDE DEF n
  <2>2. t \in [1..n -> Cell] /\ u \in [1..n -> Cell]
    BY <2>1
  <2>3. QED BY <2>2 DEF n
<1>7. \A i \in 1..2 : i = 1 \/ i = 2
  OBVIOUS
<1>8. \A i \in 1..2 : t[i] = u[i]
  BY <1>2, <1>5, <1>7
<1>9. t = u
  BY <1>6, <1>8
<1>10. QED BY <1>9 DEF t, u, a, b

LEMMA Regrouped ==
  ASSUME NEW r \in Seq(Cell), NEW s \in Seq(Cell), NEW t \in Seq(Cell)
  PROVE  (r \o s) \o t = r \o (s \o t)
BY ConcatAssociative

\* A charset, with its length byte and its bitmap.
ListBytes(o, map) == (<<o>> \o <<Len(map)>>) \o map

LEMMA ListInstruction ==
  ASSUME NEW o \in {op.charset, op.charset_not}, NEW map \in Seq(0..255), Len(map) \in 0..32
  PROVE  LET mid == ListBytes(o, map)
         IN /\ OneInstruction(mid) /\ mid[1] = o /\ mid[1] \notin Linking /\ mid[1] # Hole
            /\ Len(mid) = Len(map) + 2
<1> DEFINE n == Len(map)
           two == <<o>> \o <<n>>
           mid == two \o map
<1>1. o \in {3, 4} /\ n \in 0..32
  BY OpValues
<1>2. o \in Cell /\ n \in Cell /\ o # Hole /\ n # Hole /\ o \notin Linking /\ o \in Counting
  <2>1. o \notin Linking /\ o \in Counting
    BY <1>1, OpSets
  <2>2. QED BY <1>1, <2>1 DEF Cell, Hole
<1>3. 0..255 \subseteq Cell /\ \A v \in 0..255 : v # Hole
  BY DEF Cell, Hole
<1>4. map \in Seq(Cell) /\ \A j \in 1..n : map[j] \in 0..255
  <2>1. map \in Seq(Cell)
    BY <1>3, SeqMonotonic
  <2>2. ASSUME NEW j \in 1..Len(map)
        PROVE  map[j] \in 0..255
    BY ElementOfSeq, Zenon
  <2>3. QED BY <2>1, <2>2
<1> HIDE DEF n
<1>5. two \in Seq(Cell) /\ Len(two) = 2 /\ two[1] = o /\ two[2] = n
  <2>1. two = <<o, n>>
    BY <1>2, PairIs
  <2>2. <<o, n>> \in Seq(Cell) /\ Len(<<o, n>>) = 2 /\ <<o, n>>[1] = o /\ <<o, n>>[2] = n
    BY <1>2
  <2> HIDE DEF two
  <2>3. QED BY <2>1, <2>2
<1> HIDE DEF two
<1>6. /\ mid \in Seq(Cell) /\ Len(mid) = n + 2 /\ mid[1] = o /\ mid[2] = n
      /\ \A k \in 1..Len(mid) : mid[k] # Hole
  <2>1. /\ mid \in Seq(Cell) /\ Len(mid) = Len(two) + Len(map)
        /\ \A k \in 1..(Len(two) + Len(map)) :
             mid[k] = IF k <= Len(two) THEN two[k] ELSE map[k - Len(two)]
    <3>1. two \in Seq(Cell) /\ map \in Seq(Cell)
      BY <1>4, <1>5
    <3>2. QED BY <3>1, ConcatProperties
  <2> HIDE DEF mid
  <2>2. /\ Len(mid) = n + 2
        /\ \A k \in 1..(n + 2) : mid[k] = IF k <= 2 THEN two[k] ELSE map[k - 2]
    <3>1. Len(two) = 2 /\ Len(map) = n /\ Len(two) + Len(map) = n + 2
      BY <1>1, <1>5 DEF n
    <3>2. QED BY <2>1, <3>1
  <2>3. mid[1] = o /\ mid[2] = n
    <3>1. 1 \in 1..(n + 2) /\ 2 \in 1..(n + 2) /\ 1 <= 2 /\ 2 <= 2
      BY <1>1
    <3>2. QED BY <1>5, <2>2, <3>1
  <2>4. ASSUME NEW k \in 1..(n + 2)
        PROVE  mid[k] # Hole
    <3>1. k = 1 \/ k = 2 \/ k - 2 \in 1..n
      BY <1>1
    <3>2. CASE k - 2 \in 1..n
      <4>1. ~(k <= 2)
        BY <1>1, <3>2
      <4>2. mid[k] = map[k - 2] /\ map[k - 2] \in 0..255
        BY <1>4, <2>2, <3>2, <4>1
      <4>3. QED BY <1>3, <4>2
    <3>3. QED BY <1>2, <2>3, <3>1, <3>2
  <2>5. QED BY <2>1, <2>2, <2>3, <2>4
<1> HIDE DEF mid
<1>7. Size(mid, 1) = Len(mid)
  <2>1. mid[1] \in Cell /\ mid[1] \in Counting /\ mid[1 + 1] \in 0..255
    <3>1. 1 + 1 = 2
      OBVIOUS
    <3>2. mid[1 + 1] = n
      BY <1>6, <3>1
    <3>3. QED BY <1>1, <1>2, <1>6, <3>2
  <2>2. Size(mid, 1) = 2 + mid[1 + 1]
    BY <2>1, SizeOf
  <2>3. QED BY <1>1, <1>6, <2>2
<1>8. InstructionBytes(mid)
  <2>1. Len(mid) # 0 /\ 2 <= Len(mid) /\ mid[2] \in 0..255
    BY <1>1, <1>6
  <2>2. QED BY <1>6, <1>7, <2>1 DEF InstructionBytes
<1>9. OneInstruction(mid)
  BY <1>8, IsOneInstruction
<1>10. QED BY <1>2, <1>6, <1>9 DEF mid, two, n, ListBytes

\* What is in front of the bitmap while it is read, and what replaces it.
LEMMA FrontOfOpen ==
  ASSUME NEW before \in Seq(Cell), NEW o \in Cell, NEW x \in Cell
  PROVE  Front(before \o <<o, x>>) = before \o <<o>>
<1> DEFINE a == <<o>>
           s == before \o a
<1>1. a \in Seq(Cell) /\ Len(a) = 1 /\ <<x>> \in Seq(Cell)
  OBVIOUS
<1>2. <<o, x>> = a \o <<x>>
  BY PairIs
<1> HIDE DEF a
<1>3. s \in Seq(Cell)
  BY <1>1
<1>4. before \o <<o, x>> = s \o <<x>>
  <2>1. (before \o a) \o <<x>> = before \o (a \o <<x>>)
    BY <1>1, Regrouped
  <2>2. QED BY <1>2, <2>1
<1> HIDE DEF s
<1>5. s \o <<x>> = Append(s, x)
  BY <1>3, AppendedByteIsConcat
<1>6. Front(Append(s, x)) = s
  BY <1>3 DEF Front
<1>7. QED BY <1>4, <1>5, <1>6 DEF s, a

ListPut(before, o, map, start, code, code2) ==
  /\ o \in {op.charset, op.charset_not} /\ map \in Seq(0..255) /\ Len(map) \in 0..32
  /\ start = Len(before) + 1
  /\ code = before \o <<o, 32>>
  /\ code2 = (Front(code) \o <<Len(map)>>) \o map

LEMMA ListWritten ==
  ASSUME NEW before, NEW at, NEW begalt, NEW fixup, NEW stack, NEW regnum, NEW last,
         NEW pending, Written(before, at, begalt, fixup, stack, regnum, last, pending),
         NEW o, NEW map, NEW start, NEW code, NEW code2,
         ListPut(before, o, map, start, code, code2)
  PROVE  /\ \E at2 : Written(code2, at2, begalt, fixup, stack, regnum, start, pending)
         /\ Len(code2) \in Nat /\ Len(code) <= Len(code2)
<1> DEFINE n == Len(map)
           mid == ListBytes(o, map)
           e == Len(before) + 1
<1>0. /\ o \in {op.charset, op.charset_not} /\ map \in Seq(0..255) /\ Len(map) \in 0..32
      /\ start = Len(before) + 1
  BY DEF ListPut
<1>1. before \in Seq(Cell) /\ Len(before) \in Nat
  BY WrittenNumbers
<1>2. o \in Cell /\ 32 \in Cell /\ n \in Cell /\ n \in Nat
  <2>1. o \in {3, 4}
    BY <1>0, OpValues
  <2>2. QED BY <1>0, <2>1 DEF Cell
<1>3. Front(code) = before \o <<o>>
  BY <1>1, <1>2, FrontOfOpen DEF ListPut
<1>4. map \in Seq(Cell)
  <2>1. 0..255 \subseteq Cell
    BY DEF Cell
  <2>2. QED BY <1>0, <2>1, SeqMonotonic
<1>5. code2 = before \o mid
  <2> DEFINE a == <<o>>
             b == <<n>>
  <2>1. a \in Seq(Cell) /\ b \in Seq(Cell)
    BY <1>2
  <2>2. code2 = ((before \o a) \o b) \o map
    BY <1>3 DEF ListPut
  <2>3. mid = (a \o b) \o map
    BY DEF ListBytes
  <2> HIDE DEF a, b, mid
  <2>4. (before \o a) \o b = before \o (a \o b)
    BY <1>1, <2>1, Regrouped
  <2>5. a \o b \in Seq(Cell)
    BY <2>1
  <2>6. (before \o (a \o b)) \o map = before \o ((a \o b) \o map)
    BY <1>1, <1>4, <2>5, Regrouped
  <2>7. QED BY <2>2, <2>3, <2>4, <2>6
<1>6. OneInstruction(mid) /\ mid[1] \notin Linking /\ mid[1] # Hole /\ Len(mid) = n + 2
  BY <1>0, ListInstruction
<1>7. IsSeq(mid) /\ IsSeq(before)
  BY <1>1, <1>6 DEF IsSeq, OneInstruction, Shape
<1> HIDE DEF mid
<1>8. Len(before \o mid) = Len(before) + (n + 2)
  BY <1>6, <1>7, SeqConcat
<1>9. Extended(before, mid, begalt, fixup, stack, regnum, e, pending)
  <2>1. /\ e \in {last, Len(before) + 1}
        /\ \/ pending \in {0, pending}
           \/ pending = Len(before) + 2 /\ mid[1] = op.exactn
    OBVIOUS
  <2> HIDE DEF e
  <2>2. QED BY <1>6, <2>1, Appended
<1>10. Len(code) = Len(before) + 2
  <2> DEFINE t == <<o, 32>>
  <2>1. IsSeq(t) /\ Len(t) = 2
    BY SeqTuple
  <2> HIDE DEF t
  <2>2. Len(before \o t) = Len(before) + Len(t)
    BY <1>7, <2>1, SeqConcat
  <2>3. QED BY <2>1, <2>2 DEF t, ListPut
<1> HIDE DEF n
<1>11. \E at2 : Written(code2, at2, begalt, fixup, stack, regnum, start, pending)
  <2>1. e = start
    BY <1>0
  <2> HIDE DEF e
  <2>2. QED BY <1>5, <1>9, <2>1 DEF Extended
<1>12. Len(code2) = Len(before) + (n + 2)
  BY <1>5, <1>8
<1>13. Len(code2) \in Nat /\ Len(code) <= Len(code2)
  <2> DEFINE l == Len(before)
             x == Len(code)
             y == Len(code2)
  <2>1. l \in Nat /\ n \in Nat /\ x = l + 2 /\ y = l + (n + 2)
    BY <1>1, <1>2, <1>10, <1>12
  <2> HIDE DEF l, x, y
  <2>2. y \in Nat /\ x <= y
    BY <2>1
  <2>3. QED BY <2>2 DEF x, y
<1>14. QED BY <1>11, <1>13

-----------------------------------------------------------------------------
(***************************************************************************)
(* The steps of regex_compile, one construct at a time.                    *)
(***************************************************************************)
\* A bracket expression that is being read: what comes before it, its opcode,
\* and the length its bitmap would have if nothing were cut off.
Listing(code, l) ==
  \E before, at, last, o :
    /\ Written(before, at, l.begalt, l.fixup_alt_jump, l.stack, l.regnum, last, l.pending_exact)
    /\ o \in {op.charset, op.charset_not} /\ code = before \o <<o, 32>>
    /\ l.laststart = Len(before) + 1

Writing(code, l) ==
  /\ l.pc = "pattern" => \E at : Body(code, at, l)
  /\ l.pc = "list" => Listing(code, l)
  /\ l.pc = "returned" /\ l.ret = "REG_NOERROR" => Whole(code)

\* Displacements have 16 bits: the bytecode is followed as long as that is enough.
Short(code) == Len(code) <= 32767
WriteInv == Short(Code) => Writing(Code, cl)

\* An error leaves the bytecode alone, and nothing is asked of it.
LEMMA ReturnWrites ==
  ASSUME Sound, NEW err, Return(err), err # "REG_NOERROR"
  PROVE  WriteInv'
<1>1. cl'.pc = "returned" /\ cl'.ret # "REG_NOERROR"
  BY LocalsFields DEF Return
<1>2. QED BY <1>1 DEF WriteInv, Writing

LEMMA EmitWrites ==
  ASSUME Sound, NEW nsub, NEW request, NEW code, NEW locals,
         EmitWith(nsub, request, code, locals), Short(code) => Writing(code, locals)
  PROVE  WriteInv'
<1>1. CASE Len(Code) + request > MAX_BUF_SIZE
  <2>1. Return("REG_ESIZE") /\ "REG_ESIZE" # "REG_NOERROR"
    BY <1>1, Zenon DEF EmitWith
  <2>2. QED BY <2>1, ReturnWrites, Zenon
<1>2. CASE ~(Len(Code) + request > MAX_BUF_SIZE)
  <2> DEFINE grown == Grown(bufp.allocated, Len(Code) + request)
  <2>1. /\ bufp' = [bufp EXCEPT !.buffer = code, !.re_nsub = nsub, !.allocated = grown]
        /\ cl' = locals
    BY <1>2, Zenon DEF EmitWith
  <2> HIDE DEF grown
  <2>2. Code' = code
    BY <2>1, SoundCode DEF BufferFields, Code
  <2>3. QED BY <2>1, <2>2 DEF WriteInv
<1>3. QED BY <1>1, <1>2

LEMMA PatternWrites ==
  ASSUME Sound, NEW nsub, NEW request, NEW code, NEW locals,
         EmitWith(nsub, request, code, locals), locals.pc = "pattern",
         Short(code) => \E at : Body(code, at, locals)
  PROVE  WriteInv'
<1>1. Short(code) => Writing(code, locals)
  BY DEF Writing
<1>2. QED BY <1>1, EmitWrites, Zenon

LEMMA SoFar ==
  ASSUME Sound, WriteInv, cl.pc = "pattern", NEW code, Short(code),
         Len(code) \in Nat, Len(Code) <= Len(code)
  PROVE  \E at : Body(Code, at, cl)
<1>1. Short(Code)
  BY SoundCode DEF Short
<1>2. QED BY <1>1, Zenon DEF WriteInv, Writing

LEMMA TokenCode ==
  ASSUME Sound
  PROVE  Ord[Token.c] \in 0..255
<1>1. pattern \in Seq(DOMAIN Ord)
  BY DEF Sound, CompileInv
<1>2. Token.c \in {Fetch(cl.p), Char(pattern, cl.p + 1), Fetch(cl.p + 1)}
  BY DEF Token, Fetch
<1>3. /\ Ord[Fetch(cl.p)] \in 0..255 /\ Ord[Char(pattern, cl.p + 1)] \in 0..255
      /\ Ord[Fetch(cl.p + 1)] \in 0..255
  BY <1>1, CharHasACode
<1>4. QED BY <1>2, <1>3

LEMMA BegunHere ==
  ASSUME NEW code, NEW at, NEW l, Body(code, at, l), NEW o \in 0..255,
         NEW code2, code2 = CharBegun(code, o)
  PROVE  \E at2 : Written(code2, at2, l.begalt, l.fixup_alt_jump, l.stack, l.regnum,
                          Len(code) + 1, Len(code) + 2)
<1>1. Written(code, at, l.begalt, l.fixup_alt_jump, l.stack, l.regnum, l.laststart,
              l.pending_exact)
  BY DEF Body
<1>2. CharStarts(code, l.begalt, l.fixup_alt_jump, l.stack, l.regnum, code2)
  BY <1>1, BegunWritten
<1>3. QED BY <1>2, Zenon DEF CharStarts

LEMMA AddedHere ==
  ASSUME NEW code, NEW at, NEW l, Body(code, at, l), NEW k, k = l.pending_exact,
         k # 0, k + code[k] = Len(code), code[k] # 255, NEW o \in 0..255,
         NEW code2, code2 = CharAdded(code, k, o)
  PROVE  \E at2 : Written(code2, at2, l.begalt, l.fixup_alt_jump, l.stack, l.regnum,
                          l.laststart, k)
<1>1. Written(code, at, l.begalt, l.fixup_alt_jump, l.stack, l.regnum, l.laststart, k)
  BY DEF Body
<1> DEFINE begalt == l.begalt
           fixup == l.fixup_alt_jump
           stack == l.stack
           regnum == l.regnum
           laststart == l.laststart
<1>2. Written(code, at, begalt, fixup, stack, regnum, laststart, k)
  BY <1>1
<1> HIDE DEF begalt, fixup, stack, regnum, laststart
<1>3. CharAdds(begalt, fixup, stack, regnum, laststart, k, code2)
  BY <1>2, AddedWritten
<1>4. QED BY <1>3, Zenon DEF CharAdds, begalt, fixup, stack, regnum, laststart

LEMMA CharWrites ==
  ASSUME Sound, cl.pc = "pattern", NEW request, NEW code, NEW c, NEW i, IsSeq(code),
         Ord[c] \in 0..255, NormalCharOn(code, request, c, i),
         Short(code) => \E at : Body(code, at, cl)
  PROVE  WriteInv'
<1> DEFINE k     == cl.pending_exact
           new   == k = 0 \/ k + code[k] # Len(code) \/ code[k] = 255 \/ RepetitionFollows(i)
           two   == <<op.exactn, 0>>
           start == IF new THEN code \o two ELSE code
           count == IF new THEN Len(start) ELSE k
           more  == request + (IF new THEN 3 ELSE 1)
           whole == [Append(start, Ord[c]) EXCEPT ![count] = @ + 1]
           locals == [cl EXCEPT !.p = i, !.pending_exact = count,
                                !.laststart = IF new THEN End(code) ELSE @]
<1>1. EmitWith(bufp.re_nsub, more, whole, locals)
  BY DEF NormalCharOn, Emit
<1>2. Len(code) \in Nat
  BY SeqLen
<1>3. /\ locals.pc = "pattern" /\ locals.begalt = cl.begalt
      /\ locals.fixup_alt_jump = cl.fixup_alt_jump /\ locals.stack = cl.stack
      /\ locals.regnum = cl.regnum /\ locals.pending_exact = count
      /\ locals.laststart = IF new THEN End(code) ELSE cl.laststart
  <2> HIDE DEF new, count
  <2>1. QED BY RunningLocals DEF Fields
<1>4. ~new => k # 0 /\ k + code[k] = Len(code) /\ code[k] # 255
  OBVIOUS
<1> HIDE DEF new, locals, more
<1>5. CASE new
  <2>1. Len(code \o two) = Len(code) + 2
    <3>1. IsSeq(two) /\ Len(two) = 2
      BY SeqTuple
    <3> HIDE DEF two
    <3>2. QED BY <3>1, SeqConcat
  <2>2. whole = CharBegun(code, Ord[c]) /\ count = Len(code) + 2
    BY <1>5, <2>1 DEF CharBegun
  <2>3. locals.laststart = Len(code) + 1 /\ locals.pending_exact = Len(code) + 2
    BY <1>3, <1>5, <2>2 DEF End
  <2> HIDE DEF whole, count
  <2>4. ASSUME Short(whole)
        PROVE  \E at : Body(whole, at, locals)
    <3>1. IsSeq(whole) /\ Len(whole) = Len(code) + 3
      <4> DEFINE longer == Append(code \o two, Ord[c])
                 place == Len(code) + 2
                 byte == longer[place] + 1
      <4>1. IsSeq(two)
        BY SeqTuple
      <4>2. IsSeq(longer) /\ Len(longer) = Len(code) + 3
        <5> HIDE DEF two
        <5>1. IsSeq(code \o two)
          BY <4>1, SeqConcat
        <5>2. QED BY <1>2, <2>1, <5>1, SeqAppend
      <4>3. whole = [longer EXCEPT ![place] = byte]
        BY <2>2 DEF CharBegun
      <4> HIDE DEF longer, place, byte
      <4>4. QED BY <4>2, <4>3, SeqExcept
    <3>2. PICK at : Written(code, at, cl.begalt, cl.fixup_alt_jump, cl.stack, cl.regnum,
                            cl.laststart, cl.pending_exact)
      <4>1. Short(code)
        BY <1>2, <2>4, <3>1 DEF Short
      <4>2. QED BY <4>1, Zenon DEF Body
    <3>3. \E at2 : Written(whole, at2, cl.begalt, cl.fixup_alt_jump, cl.stack, cl.regnum,
                           Len(code) + 1, Len(code) + 2)
      <4> DEFINE o == Ord[c]
      <4>1. Body(code, at, cl) /\ o \in 0..255 /\ whole = CharBegun(code, o)
        BY <2>2, <3>2 DEF Body
      <4> HIDE DEF o
      <4>2. QED BY <4>1, BegunHere
    <3>4. QED BY <1>3, <2>3, <3>3, Zenon DEF Body
  <2>5. QED BY <1>1, <1>3, <2>4, PatternWrites, Zenon
<1>6. CASE ~new
  <2>1. whole = CharAdded(code, k, Ord[c]) /\ count = k
    BY <1>6 DEF CharAdded
  <2>2. locals.laststart = cl.laststart /\ locals.pending_exact = k
    BY <1>3, <1>6, <2>1
  <2> HIDE DEF whole, count
  <2>4. ASSUME Short(whole)
        PROVE  \E at : Body(whole, at, locals)
    <3>1. IsSeq(whole) /\ Len(whole) = Len(code) + 1
      <4> DEFINE longer == Append(code, Ord[c])
                 byte == longer[k] + 1
      <4>2. IsSeq(longer) /\ Len(longer) = Len(code) + 1
        BY SeqAppend
      <4>3. whole = [longer EXCEPT ![k] = byte]
        BY <2>1 DEF CharAdded
      <4> HIDE DEF longer, byte, k
      <4>4. QED BY <4>2, <4>3, SeqExcept
    <3>2. PICK at : Body(code, at, cl)
      <4>1. Short(code)
        BY <1>2, <2>4, <3>1 DEF Short
      <4>2. QED BY <4>1
    <3>3. k = cl.pending_exact /\ k # 0 /\ k + code[k] = Len(code) /\ code[k] # 255
      BY <1>4, <1>6
    <3> HIDE DEF k
    <3>4. \E at2 : Written(whole, at2, cl.begalt, cl.fixup_alt_jump, cl.stack, cl.regnum,
                           cl.laststart, k)
      <4> DEFINE o == Ord[c]
      <4>1. o \in 0..255 /\ whole = CharAdded(code, k, o)
        BY <2>1
      <4> HIDE DEF o
      <4>2. QED BY <3>2, <3>3, <4>1, AddedHere
    <3>5. QED BY <1>3, <2>2, <3>4, Zenon DEF Body
  <2>5. QED BY <1>1, <1>3, <2>4, PatternWrites, Zenon
<1>7. QED BY <1>5, <1>6

\* One more instruction, which is not a jump, at the end of the bytecode.
LEMMA AppendWrites ==
  ASSUME Sound, WriteInv, cl.pc = "pattern", NEW n, NEW mid, OneInstruction(mid),
         mid[1] \notin Linking, mid[1] # Hole, NEW code, code = Code \o mid,
         NEW locals, EmitWith(bufp.re_nsub, n, code, locals), locals.pc = "pattern",
         locals.begalt = cl.begalt, locals.fixup_alt_jump = cl.fixup_alt_jump,
         locals.stack = cl.stack, locals.regnum = cl.regnum,
         locals.laststart \in {cl.laststart, End(Code)},
         locals.pending_exact = cl.pending_exact
  PROVE  WriteInv'
<1>1. IsSeq(mid)
  BY DEF OneInstruction, Shape, IsSeq
<1>2. IsSeq(Code) /\ Len(Code) \in Nat
  BY SoundCode
<1>3. Len(code) \in Nat /\ Len(Code) <= Len(code)
  <2>1. Len(mid) \in Nat /\ Len(Code \o mid) = Len(Code) + Len(mid)
    BY <1>1, <1>2, SeqLen, SeqConcat
  <2>2. QED BY <1>2, <2>1
<1>4. ASSUME Short(code)
      PROVE  \E at : Body(code, at, locals)
  <2>1. PICK at : Written(Code, at, cl.begalt, cl.fixup_alt_jump, cl.stack, cl.regnum,
                          cl.laststart, cl.pending_exact)
    BY <1>3, <1>4, SoFar DEF Body
  <2> DEFINE last == locals.laststart
             pending == locals.pending_exact
  <2>2. /\ last \in {cl.laststart, Len(Code) + 1}
        /\ \/ pending \in {0, cl.pending_exact}
           \/ pending = Len(Code) + 2 /\ mid[1] = op.exactn
    BY DEF End
  <2> HIDE DEF last, pending
  <2>3. Extended(Code, mid, cl.begalt, cl.fixup_alt_jump, cl.stack, cl.regnum, last, pending)
    BY <2>1, <2>2, Appended
  <2>4. QED BY <2>3, Zenon DEF Body, Extended, last, pending
<1>5. QED BY <1>4, PatternWrites, Zenon

LEMMA ByteWrites ==
  ASSUME Sound, WriteInv, cl.pc = "pattern", NEW n,
         NEW o \in EmptyOps \cup {op.anychar, op.wordchar, op.notwordchar, op.push_dummy_failure},
         NEW locals, Emit(n, Append(Code, o), locals), locals.pc = "pattern",
         locals.begalt = cl.begalt, locals.fixup_alt_jump = cl.fixup_alt_jump,
         locals.stack = cl.stack, locals.regnum = cl.regnum,
         locals.laststart \in {cl.laststart, End(Code)},
         locals.pending_exact = cl.pending_exact
  PROVE  WriteInv'
<1> DEFINE mid == <<o>>
           code == Append(Code, o)
<1>1. OneInstruction(mid) /\ mid[1] \notin Linking /\ mid[1] # Hole
  BY ByteInstruction
<1>2. code = Code \o mid
  BY AppendedByte, Zenon
<1>3. EmitWith(bufp.re_nsub, n, code, locals)
  BY DEF Emit
<1> HIDE DEF mid, code
<1>4. QED BY <1>1, <1>2, <1>3, AppendWrites, Zenon

LEMMA TokenLabels ==
  ASSUME Sound
  PROVE  /\ Token.label = "simple" => Token.c \in DOMAIN SimpleOps
         /\ Token.label = "duplicate" => Digit(Token.c) \in 0..255
         /\ Token.label # "REG_NOERROR"
<1> DEFINE c  == Fetch(cl.p)
           c1 == Char(pattern, cl.p + 1)
<1>1. PlainLabel(c, cl.p) \notin {"simple", "duplicate", "REG_NOERROR"}
  BY DEF PlainLabel, Bare
<1>2. /\ BackslashLabel(c1) = "simple" => c1 \in DOMAIN SimpleOps
      /\ BackslashLabel(c1) = "duplicate" => Digit(c1) \in 1..cl.regnum
      /\ BackslashLabel(c1) # "REG_NOERROR"
  BY DEF BackslashLabel, Bare
<1>3. Ord[c1] \in 0..255
  BY CharHasACode DEF Sound, CompileInv
<1>4. \/ Token.label = PlainLabel(c, cl.p)
      \/ Token.label = "REG_EESCAPE"
      \/ Token.label = BackslashLabel(c1) /\ (BackslashLabel(c1) # "normal_char" => Token.c = c1)
  BY DEF Token
<1> HIDE DEF c, c1
<1>5. Digit(c1) \in 1..cl.regnum => Digit(c1) \in 0..255
  BY <1>3 DEF Digit
<1>6. QED BY <1>1, <1>2, <1>4, <1>5

LEMMA SimpleOpsAre ==
  ASSUME NEW c \in DOMAIN SimpleOps
  PROVE  SimpleOps[c] \in EmptyOps \cup {op.anychar, op.wordchar, op.notwordchar,
                                         op.push_dummy_failure}
<1>1. DOMAIN SimpleOps = {"w", "W", "b", "B", "<", ">", BACKQUOTE, "'"}
  BY DEF SimpleOps
<1>2. SimpleOps[c] \in {op.wordchar, op.notwordchar, op.wordbound, op.notwordbound,
                        op.wordbeg, op.wordend, op.begbuf, op.endbuf}
  BY DEF SimpleOps
<1>3. QED BY <1>2 DEF EmptyOps

LEMMA CharHereWrites ==
  ASSUME Sound, WriteInv, cl.pc = "pattern", NEW c, NEW i, Ord[c] \in 0..255,
         NormalCharOn(Code, 0, c, i)
  PROVE  WriteInv'
<1>1. IsSeq(Code) /\ Len(Code) \in Nat /\ Len(Code) <= Len(Code)
  BY SoundCode
<1>2. Short(Code) => \E at : Body(Code, at, cl)
  BY Zenon DEF WriteInv, Writing
<1>3. QED BY <1>1, <1>2, CharWrites, Zenon

LEMMA SimpleTokensWrite ==
  ASSUME Sound, WriteInv,
         NormalChar \/ BegLine \/ EndLine \/ AnyChar \/ SimpleOp \/ Duplicate \/ BadToken
  PROVE  WriteInv'
<1> DEFINE plain == EmptyOps \cup {op.anychar, op.wordchar, op.notwordchar,
                                   op.push_dummy_failure}
<1>1. CASE NormalChar
  <2>1. cl.pc = "pattern" /\ NormalCharOn(Code, 0, Token.c, Token.p)
    BY <1>1, Zenon DEF NormalChar, AtToken
  <2>2. Ord[Token.c] \in 0..255
    BY TokenCode
  <2>3. QED BY <2>1, <2>2, CharHereWrites, Zenon
<1>2. op.begline \in plain /\ op.endline \in plain /\ op.anychar \in plain
  BY DEF EmptyOps
<1>3. CASE BegLine
  <2> DEFINE locals == [cl EXCEPT !.p = Token.p]
  <2>1. cl.pc = "pattern" /\ Emit(1, Append(Code, op.begline), locals)
    BY <1>3, Zenon DEF BegLine, AtToken
  <2>2. /\ locals.pc = "pattern" /\ locals.begalt = cl.begalt
        /\ locals.fixup_alt_jump = cl.fixup_alt_jump /\ locals.stack = cl.stack
        /\ locals.regnum = cl.regnum /\ locals.laststart \in {cl.laststart, End(Code)}
        /\ locals.pending_exact = cl.pending_exact
    BY <2>1, RunningLocals DEF Fields
  <2> HIDE DEF locals, plain
  <2>3. QED BY <1>2, <2>1, <2>2, ByteWrites, Zenon DEF plain
<1>4. CASE EndLine
  <2> DEFINE locals == [cl EXCEPT !.p = Token.p]
  <2>1. cl.pc = "pattern" /\ Emit(1, Append(Code, op.endline), locals)
    BY <1>4, Zenon DEF EndLine, AtToken
  <2>2. /\ locals.pc = "pattern" /\ locals.begalt = cl.begalt
        /\ locals.fixup_alt_jump = cl.fixup_alt_jump /\ locals.stack = cl.stack
        /\ locals.regnum = cl.regnum /\ locals.laststart \in {cl.laststart, End(Code)}
        /\ locals.pending_exact = cl.pending_exact
    BY <2>1, RunningLocals DEF Fields
  <2> HIDE DEF locals, plain
  <2>3. QED BY <1>2, <2>1, <2>2, ByteWrites, Zenon DEF plain
<1>5. CASE AnyChar
  <2> DEFINE locals == [cl EXCEPT !.p = Token.p, !.laststart = End(Code)]
  <2>1. cl.pc = "pattern" /\ Emit(1, Append(Code, op.anychar), locals)
    BY <1>5, Zenon DEF AnyChar, AtToken
  <2>2. /\ locals.pc = "pattern" /\ locals.begalt = cl.begalt
        /\ locals.fixup_alt_jump = cl.fixup_alt_jump /\ locals.stack = cl.stack
        /\ locals.regnum = cl.regnum /\ locals.laststart \in {cl.laststart, End(Code)}
        /\ locals.pending_exact = cl.pending_exact
    BY <2>1, RunningLocals DEF Fields
  <2> HIDE DEF locals, plain
  <2>3. QED BY <1>2, <2>1, <2>2, ByteWrites, Zenon DEF plain
<1>6. CASE SimpleOp
  <2> DEFINE locals == [cl EXCEPT !.p = Token.p,
                                  !.laststart = IF Token.c \in {"w", "W"} THEN End(Code) ELSE @]
             o == SimpleOps[Token.c]
  <2>1. cl.pc = "pattern" /\ Emit(1, Append(Code, o), locals)
    BY <1>6, Zenon DEF SimpleOp, AtToken
  <2>2. /\ locals.pc = "pattern" /\ locals.begalt = cl.begalt
        /\ locals.fixup_alt_jump = cl.fixup_alt_jump /\ locals.stack = cl.stack
        /\ locals.regnum = cl.regnum /\ locals.laststart \in {cl.laststart, End(Code)}
        /\ locals.pending_exact = cl.pending_exact
    BY <2>1, RunningLocals DEF Fields
  <2>3. o \in plain
    <3>1. Token.c \in DOMAIN SimpleOps
      BY <1>6, TokenLabels DEF SimpleOp, AtToken
    <3>2. QED BY <3>1, SimpleOpsAre
  <2> HIDE DEF locals, plain, o
  <2>4. QED BY <2>1, <2>2, <2>3, ByteWrites, Zenon DEF plain
<1>7. CASE Duplicate
  <2> DEFINE locals == [cl EXCEPT !.p = Token.p, !.laststart = End(Code)]
             r == Digit(Token.c)
             mid == <<op.duplicate, r>>
             code == Code \o mid
  <2>1. cl.pc = "pattern" /\ EmitWith(bufp.re_nsub, 2, code, locals)
    BY <1>7, Zenon DEF Duplicate, AtToken, Emit
  <2>2. /\ locals.pc = "pattern" /\ locals.begalt = cl.begalt
        /\ locals.fixup_alt_jump = cl.fixup_alt_jump /\ locals.stack = cl.stack
        /\ locals.regnum = cl.regnum /\ locals.laststart \in {cl.laststart, End(Code)}
        /\ locals.pending_exact = cl.pending_exact
    BY <2>1, RunningLocals DEF Fields
  <2>3. r \in 0..255
    BY <1>7, TokenLabels DEF Duplicate, AtToken
  <2> HIDE DEF r
  <2>4. OneInstruction(mid) /\ mid[1] \notin Linking /\ mid[1] # Hole /\ code = Code \o mid
    BY <2>3, PairInstruction
  <2> HIDE DEF locals, mid, code
  <2>5. QED BY <2>1, <2>2, <2>4, AppendWrites, Zenon
<1>8. CASE BadToken
  <2>1. Token.label # "REG_NOERROR" /\ Return(Token.label)
    BY <1>8 DEF BadToken, AtToken
  <2>2. QED BY <2>1, ReturnWrites, Zenon
<1>9. QED BY <1>1, <1>3, <1>4, <1>5, <1>6, <1>7, <1>8

\* No byte is written, and the locals that point into the bytecode stay.
LEMMA NothingWrittenWrites ==
  ASSUME Sound, WriteInv, cl.pc = "pattern", NEW locals, Emit(0, Code, locals),
         locals.pc = "pattern", locals.begalt = cl.begalt,
         locals.fixup_alt_jump = cl.fixup_alt_jump, locals.stack = cl.stack,
         locals.regnum = cl.regnum, locals.laststart = cl.laststart,
         locals.pending_exact = cl.pending_exact
  PROVE  WriteInv'
<1>1. EmitWith(bufp.re_nsub, 0, Code, locals)
  BY DEF Emit
<1>2. Short(Code) => \E at : Body(Code, at, locals)
  BY Zenon DEF WriteInv, Writing, Body
<1>3. QED BY <1>1, <1>2, PatternWrites, Zenon

LEMMA LoopCodeLen ==
  ASSUME NEW code, IsSeq(code), NEW last \in 1..(Len(code) + 1), NEW many \in BOOLEAN,
         NEW zero \in BOOLEAN, NEW keep \in BOOLEAN
  PROVE  Len(LoopCode(code, last, many, zero, keep)) =
           Len(code) + ((IF many THEN 6 ELSE 3) + (IF zero THEN 0 ELSE 3))
<1> DEFINE body  == LoopBody(code, last, many, keep)
           o     == IF many /\ keep THEN op.on_failure_keep_string_jump ELSE op.on_failure_jump
           loop  == InsertJump(o, body, last, End(body) + 3)
           longer == InsertJump(op.dummy_failure_jump, loop, last, last + 6)
           whole == LoopCode(code, last, many, zero, keep)
<1>1. Len(code) \in Nat
  BY SeqLen
<1>2. whole = IF zero THEN loop ELSE longer
  BY Zenon DEF LoopCode, LoopTry
<1>3. IsSeq(body) /\ Len(body) = Len(code) + (IF many THEN 3 ELSE 0)
  <2>1. End(code) \in 1..(Len(code) + 1) /\ End(code) = Len(code) + 1
    BY <1>1 DEF End
  <2>2. \A x, to : /\ IsSeq(StoreJump(x, code, End(code), to))
                   /\ Len(StoreJump(x, code, End(code), to)) = Len(code) + 3
    BY <1>1, <2>1, StoreJumpLen
  <2>3. QED BY <1>1, <2>2 DEF LoopBody
<1> HIDE DEF body, o, whole
<1>4. Len(body) \in Nat /\ last \in 1..(Len(body) + 1)
  BY <1>1, <1>3
<1>5. IsSeq(loop) /\ Len(loop) = Len(body) + 3
  BY <1>3, <1>4, InsertJumpLen
<1> HIDE DEF loop
<1>6. Len(loop) \in Nat /\ last \in 1..(Len(loop) + 1)
  BY <1>4, <1>5
<1>7. Len(longer) = Len(loop) + 3
  BY <1>5, <1>6, InsertJumpLen
<1> HIDE DEF longer
<1>8. many = TRUE \/ many = FALSE
  OBVIOUS
<1>9. Len(whole) = Len(code) + ((IF many THEN 6 ELSE 3) + (IF zero THEN 0 ELSE 3))
  BY <1>1, <1>2, <1>3, <1>5, <1>7, <1>8
<1>10. QED BY <1>9 DEF whole

LEMMA LoopWrites ==
  ASSUME Sound, WriteInv, cl.pc = "pattern", cl.laststart # 0, NEW end, Loop(end)
  PROVE  WriteInv'
<1> DEFINE ops == {Char(pattern, i) : i \in cl.p..(end - 1)} \cap {"*", "+", "?"}
           zero == ops # {"+"}
           many == ops # {"?"}
           keep == /\ Fetch(end - 2) = "." /\ zero /\ Fetch(end) = "\n"
                   /\ ~Has("RE_DOT_NEWLINE")
           last == cl.laststart
           request == 3 + (IF many THEN 3 ELSE 0) + (IF zero THEN 0 ELSE 3)
           whole == LoopCode(Code, last, many, zero, keep)
           locals == [cl EXCEPT !.p = end, !.pending_exact = 0]
<1>1. EmitWith(bufp.re_nsub, request, whole, locals)
  BY Zenon DEF Loop, Emit, LoopCode, LoopTry, LoopBody
<1>2. many \in BOOLEAN /\ zero \in BOOLEAN /\ keep \in BOOLEAN
  BY Zenon
<1> HIDE DEF many, zero, keep
<1>3. /\ locals.pc = "pattern" /\ locals.begalt = cl.begalt
      /\ locals.fixup_alt_jump = cl.fixup_alt_jump /\ locals.stack = cl.stack
      /\ locals.regnum = cl.regnum /\ locals.laststart = last /\ locals.pending_exact = 0
  BY RunningLocals DEF Fields
<1>4. IsSeq(Code) /\ Len(Code) \in Nat /\ last \in 1..(Len(Code) + 1) /\ last # 0
  BY SoundCode, RunningLocals DEF Inside
<1> HIDE DEF locals, request, last
<1>5. ASSUME Short(whole)
      PROVE  \E at : Body(whole, at, locals)
  <2> DEFINE n == (IF many THEN 6 ELSE 3) + (IF zero THEN 0 ELSE 3)
  <2>1. n \in Nat /\ n = (IF many THEN 6 ELSE 3) + (IF zero THEN 0 ELSE 3)
    <3>1. many = TRUE \/ many = FALSE
      BY <1>2
    <3>2. zero = TRUE \/ zero = FALSE
      BY <1>2
    <3>3. QED BY <3>1, <3>2
  <2>2. Len(whole) = Len(Code) + n
    BY <1>2, <1>4, LoopCodeLen
  <2>3. whole = LoopCode(Code, last, many, zero, keep)
    OBVIOUS
  <2> HIDE DEF n, whole
  <2>4. Len(whole) \in Nat /\ Len(Code) <= Len(whole) /\ Len(Code) + n <= 32767
    BY <1>4, <1>5, <2>1, <2>2 DEF Short
  <2>5. PICK at : Written(Code, at, cl.begalt, cl.fixup_alt_jump, cl.stack, cl.regnum,
                          last, cl.pending_exact)
    BY <1>5, <2>4, SoFar DEF Body, last
  <2>6. \E at2 : Written(whole, at2, cl.begalt, cl.fixup_alt_jump, cl.stack, cl.regnum, last, 0)
    BY <1>2, <1>4, <2>1, <2>3, <2>4, <2>5, LoopWritten
  <2>7. QED BY <1>3, <2>6, Zenon DEF Body
<1>6. QED BY <1>1, <1>3, <1>5, PatternWrites, Zenon

LEMMA HandlePlusWrites ==
  ASSUME Sound, WriteInv, HandlePlus
  PROVE  WriteInv'
<1> DEFINE end == RepeatEnd(cl.p)
           locals == [cl EXCEPT !.p = end]
<1>1. cl.pc = "pattern"
  BY Zenon DEF HandlePlus, AtToken
<1>2. \/ Return("REG_BADRPT") \/ Return("REG_EESCAPE")
      \/ NormalCharOn(Code, 0, Token.c, Token.p)
      \/ Emit(0, Code, locals)
      \/ cl.laststart # 0 /\ Loop(end)
  BY Zenon DEF HandlePlus
<1>3. CASE Emit(0, Code, locals)
  <2>1. /\ locals.pc = "pattern" /\ locals.begalt = cl.begalt
        /\ locals.fixup_alt_jump = cl.fixup_alt_jump /\ locals.stack = cl.stack
        /\ locals.regnum = cl.regnum /\ locals.laststart = cl.laststart
        /\ locals.pending_exact = cl.pending_exact
    BY <1>1, RunningLocals DEF Fields
  <2> HIDE DEF locals
  <2>2. QED BY <1>1, <1>3, <2>1, NothingWrittenWrites, Zenon
<1> HIDE DEF end, locals
<1>4. "REG_BADRPT" # "REG_NOERROR" /\ "REG_EESCAPE" # "REG_NOERROR"
  OBVIOUS
<1>5. Ord[Token.c] \in 0..255
  BY TokenCode
<1>6. QED BY <1>1, <1>2, <1>3, <1>4, <1>5, ReturnWrites, CharHereWrites, LoopWrites, Zenon

LEMMA HandleOpenWrites ==
  ASSUME Sound, WriteInv, HandleOpen
  PROVE  WriteInv'
<1> DEFINE regnum == cl.regnum + 1
           kept   == regnum <= MAX_REGNUM
           saved  == [begalt |-> cl.begalt, fixup_alt_jump |-> cl.fixup_alt_jump,
                      laststart |-> End(Code), inner |-> End(Code) + 2, regnum |-> regnum]
           three  == <<op.start_memory, regnum, 0>>
           code   == IF kept THEN Code \o three ELSE Code
           room   == IF kept THEN 3 ELSE 0
           stack  == Append(cl.stack, saved)
           locals == [cl EXCEPT !.p = Token.p, !.regnum = regnum, !.stack = Append(@, saved),
                                !.fixup_alt_jump = 0, !.laststart = 0, !.begalt = End(code),
                                !.pending_exact = 0]
<1>1. cl.pc = "pattern" /\ EmitWith(bufp.re_nsub + 1, room, code, locals)
  BY Zenon DEF HandleOpen, AtToken
<1>2. IsSeq(three) /\ Len(three) = 3
  BY SeqTuple
<1>3. IsSeq(Code) /\ Len(Code) \in Nat
  BY SoundCode
<1>4. Len(code) \in Nat /\ Len(Code) <= Len(code)
  <2> HIDE DEF three
  <2>1. Len(Code \o three) = Len(Code) + 3
    BY <1>2, <1>3, SeqConcat
  <2>2. QED BY <1>3, <2>1
<1>5. /\ saved.begalt = cl.begalt /\ saved.fixup_alt_jump = cl.fixup_alt_jump
      /\ saved.laststart = Len(Code) + 1 /\ saved.inner = Len(Code) + 3
      /\ saved.regnum = cl.regnum + 1
  BY <1>3 DEF End
<1>6. /\ locals.pc = "pattern" /\ locals.begalt = Len(code) + 1 /\ locals.fixup_alt_jump = 0
      /\ locals.laststart = 0 /\ locals.stack = stack /\ locals.regnum = cl.regnum + 1
      /\ locals.pending_exact = 0
  BY <1>1, RunningLocals DEF Fields, End
<1>7. code = IF cl.regnum + 1 <= MAX_REGNUM
             THEN Code \o <<op.start_memory, cl.regnum + 1, 0>> ELSE Code
  BY Zenon
<1> HIDE DEF saved, locals, code, room
<1>8. ASSUME Short(code)
      PROVE  \E at : Body(code, at, locals)
  <2>1. PICK at : Written(Code, at, cl.begalt, cl.fixup_alt_jump, cl.stack, cl.regnum,
                          cl.laststart, cl.pending_exact)
    BY <1>1, <1>4, <1>8, SoFar DEF Body
  <2>2. GroupOpens(cl.stack, saved, cl.regnum, code)
    BY <1>5, <1>7, <2>1, OpenedGroup
  <2>3. QED BY <1>6, <2>2, Zenon DEF Body, GroupOpens
<1>9. QED BY <1>1, <1>6, <1>8, PatternWrites, Zenon

LEMMA ClosedGroupAt ==
  ASSUME NEW code, NEW at, NEW begalt, NEW fixup, NEW stack, NEW regnum, NEW laststart,
         NEW pending, Written(code, at, begalt, fixup, stack, regnum, laststart, pending),
         stack # <<>>, Roomy(code, fixup), NEW x \in 0..255
  PROVE  GroupCloses(stack, regnum, Last(stack),
                     GroupCode(GroupBody(code, fixup), Last(stack), x))
<1> DEFINE mended == GroupBody(code, fixup)
           top    == Last(stack)
           code2  == GroupCode(mended, top, x)
<1>1. mended = GroupBody(code, fixup) /\ top = Last(stack) /\ code2 = GroupCode(mended, top, x)
  OBVIOUS
<1> HIDE DEF mended, top, code2
<1>2. GroupCloses(stack, regnum, top, code2)
  BY <1>1, ClosedGroup
<1>3. QED BY <1>2 DEF mended, top, code2

\* ")" behind a group, and the locals it gives back.
LEMMA ClosedHere ==
  ASSUME NEW code, NEW at, NEW l, Body(code, at, l), l.stack # <<>>,
         Roomy(code, l.fixup_alt_jump), NEW x \in 0..255,
         NEW mended, mended = GroupBody(code, l.fixup_alt_jump),
         NEW top, top = Last(l.stack), NEW code2, code2 = GroupCode(mended, top, x)
  PROVE  GroupCloses(l.stack, l.regnum, top, code2)
<1> DEFINE fixup  == l.fixup_alt_jump
           stack  == l.stack
           regnum == l.regnum
           begalt == l.begalt
           laststart == l.laststart
           pending == l.pending_exact
<1>1. Written(code, at, begalt, fixup, stack, regnum, laststart, pending)
  BY DEF Body
<1>2. /\ stack # <<>> /\ Roomy(code, fixup)
      /\ mended = GroupBody(code, fixup) /\ top = Last(stack)
      /\ code2 = GroupCode(mended, top, x)
  OBVIOUS
<1> HIDE DEF fixup, stack, regnum, begalt, laststart, pending
<1>3. GroupCloses(stack, regnum, Last(stack),
                  GroupCode(GroupBody(code, fixup), Last(stack), x))
  BY <1>1, <1>2, ClosedGroupAt
<1>4. GroupCloses(stack, regnum, top, code2)
  BY <1>2, <1>3
<1>5. QED BY <1>4 DEF stack, regnum

\* The last alternative's jump written before a ")" that closes no group.
LEMMA ClosedNone ==
  ASSUME NEW code, NEW at, NEW l, Body(code, at, l), l.fixup_alt_jump # 0,
         NEW code2, code2 = StoreJump(op.jump_past_alt, Append(code, op.push_dummy_failure),
                                      l.fixup_alt_jump, End(code))
  PROVE  \E at2 : Body(code2, at2, l)
<1> DEFINE fixup   == l.fixup_alt_jump
           last    == l.laststart
           pending == l.pending_exact
           o       == op.push_dummy_failure
           mid     == <<o>>
           long    == code \o mid
           to      == End(code)
<1>1. Written(code, at, l.begalt, fixup, l.stack, l.regnum, last, pending)
  BY DEF Body
<1>2. Len(code) \in Nat /\ code \in Seq(Cell)
  BY <1>1, WrittenNumbers
<1>3. OneInstruction(mid) /\ mid[1] \notin Linking /\ mid[1] # Hole
  BY ByteInstruction
<1>4. Append(code, o) = long
  <2>1. o \in Cell
    BY OpValues DEF Cell
  <2>2. QED BY <1>2, <2>1, AppendedByteIsConcat
<1>5. to \in Int /\ fixup # 0 /\ last \in {last, Len(code) + 1} /\ pending \in {0, pending}
  BY <1>2 DEF End
<1>6. code2 = StoreJump(op.jump_past_alt, long, fixup, to)
  BY <1>4
<1> HIDE DEF fixup, last, pending, o, mid, to
<1>7. \/ pending \in {0, pending}
      \/ pending = Len(code) + 2 /\ mid[1] = op.exactn
  BY <1>5
<1>8. Extended(code, mid, l.begalt, fixup, l.stack, l.regnum, last, pending)
  BY <1>1, <1>3, <1>5, <1>7, Appended
<1>9. PICK at2 : Written(long, at2, l.begalt, fixup, l.stack, l.regnum, last, pending)
  BY <1>8, Zenon DEF Extended
<1> HIDE DEF long
<1>10. LET whole == StoreJump(op.jump_past_alt, long, fixup, to)
       IN Written(whole, at2, l.begalt, fixup, l.stack, l.regnum, last, pending)
  BY <1>5, <1>9, FixedAgain
<1>11. Written(code2, at2, l.begalt, fixup, l.stack, l.regnum, last, pending)
  BY <1>6, <1>10, Zenon
<1>12. QED BY <1>11, Zenon DEF Body, fixup, last, pending

\* The number of groups inside the one that ends is written as a byte.
LEMMA AsAByte ==
  ASSUME NEW a \in Nat, NEW b \in Nat
  PROVE  (a - b) % 256 \in 0..255
OBVIOUS

LEMMA GroupsWithin ==
  ASSUME NEW code, NEW at, NEW l, Body(code, at, l), l.stack # <<>>
  PROVE  (l.regnum - Last(l.stack).regnum) % 256 \in 0..255
<1> DEFINE n == Len(l.stack)
           a == l.regnum
           b == Last(l.stack).regnum
<1>1. IsSeq(l.stack) /\ a \in Nat /\ NestedIn(l.stack, l.begalt, l.fixup_alt_jump, l.laststart)
  BY DEF Body, Written
<1>2. n \in Nat /\ n # 0 /\ Last(l.stack) = l.stack[n]
  BY <1>1, FrameClosed
<1>3. n \in 1..n
  BY <1>2
<1>4. b \in Nat
  BY <1>1, <1>2, <1>3 DEF NestedIn
<1> HIDE DEF a, b
<1>5. (a - b) % 256 \in 0..255
  BY <1>1, <1>4, AsAByte
<1>6. QED BY <1>5 DEF a, b

LEMMA HandleCloseWrites ==
  ASSUME Sound, WriteInv, HandleClose
  PROVE  WriteInv'
<1> DEFINE alt   == cl.fixup_alt_jump # 0
           more  == Append(Code, op.push_dummy_failure)
           code  == IF alt THEN StoreJump(op.jump_past_alt, more, cl.fixup_alt_jump, End(Code))
                    ELSE Code
           room  == IF alt THEN 1 ELSE 0
           top   == Last(cl.stack)
           kept  == top.regnum <= MAX_REGNUM
           inner == (cl.regnum - top.regnum) % 256
           three == <<op.stop_memory, top.regnum, inner>>
           one   == <<inner>>
           whole == IF kept THEN Put(code, top.inner, one) \o three ELSE code
           asked == room + (IF kept THEN 3 ELSE 0)
           locals == [cl EXCEPT !.p = Token.p, !.stack = Front(@), !.begalt = top.begalt,
                                !.fixup_alt_jump = top.fixup_alt_jump,
                                !.laststart = top.laststart, !.pending_exact = 0]
<1>1. /\ cl.pc = "pattern"
      /\ \/ NormalCharOn(code, room, Token.c, Token.p)
         \/ Return("REG_ERPAREN")
         \/ cl.stack # <<>> /\ EmitWith(bufp.re_nsub, asked, whole, locals)
  BY Zenon DEF HandleClose, AtToken, Emit
<1>2. /\ IsSeq(Code) /\ Len(Code) \in Nat
      /\ Inside(cl.begalt, cl.fixup_alt_jump, cl.laststart, Len(Code))
  BY <1>1, SoundCode, RunningLocals
<1>3. IsSeq(more) /\ Len(more) = Len(Code) + 1
  BY <1>2, SeqAppend
<1>4. /\ IsSeq(code) /\ Len(code) = Len(Code) + room /\ room \in 0..1
      /\ cl.fixup_alt_jump # 0 => room = 1
  <2>1. CASE alt
    <3> DEFINE jumped == StoreJump(op.jump_past_alt, more, cl.fixup_alt_jump, End(Code))
    <3>1. Len(Code) <= Len(more)
      BY <1>2, <1>3
    <3>2. IsSeq(jumped) /\ Len(jumped) = Len(more)
      <4> HIDE DEF more
      <4>1. QED BY <1>2, <1>3, <2>1, <3>1, FixedUp, Zenon
    <3>3. code = jumped /\ room = 1
      BY <2>1
    <3> HIDE DEF jumped, more, room, code
    <3>4. QED BY <1>2, <1>3, <3>2, <3>3
  <2>2. CASE ~alt
    BY <1>2, <2>2
  <2>3. QED BY <2>1, <2>2
<1>5. code = GroupBody(Code, cl.fixup_alt_jump)
  BY Zenon DEF GroupBody
<1>6. alt => code = StoreJump(op.jump_past_alt, Append(Code, op.push_dummy_failure),
                              cl.fixup_alt_jump, End(Code))
  BY Zenon
<1>7. ~alt => code = Code
  BY Zenon
<1> HIDE DEF more, code, room
<1>8. Len(code) \in Nat /\ Len(Code) <= Len(code)
  BY <1>2, <1>4
<1>9. CASE NormalCharOn(code, room, Token.c, Token.p)
  <2>1. ASSUME Short(code)
        PROVE  \E at : Body(code, at, cl)
    <3>1. PICK at : Body(Code, at, cl)
      BY <1>1, <1>8, <2>1, SoFar
    <3>2. CASE alt
      BY <1>6, <3>1, <3>2, ClosedNone
    <3>3. CASE ~alt
      BY <1>7, <3>1, <3>3
    <3>4. QED BY <3>2, <3>3
  <2>2. Ord[Token.c] \in 0..255
    BY TokenCode
  <2>3. QED BY <1>1, <1>4, <1>9, <2>1, <2>2, CharWrites, Zenon
<1>10. CASE cl.stack # <<>> /\ EmitWith(bufp.re_nsub, asked, whole, locals)
  <2>1. whole = GroupCode(code, top, inner)
    BY Zenon DEF GroupCode
  <2>2. /\ locals.pc = "pattern" /\ locals.begalt = top.begalt
        /\ locals.fixup_alt_jump = top.fixup_alt_jump /\ locals.stack = Front(cl.stack)
        /\ locals.regnum = cl.regnum /\ locals.laststart = top.laststart
        /\ locals.pending_exact = 0
    <3> HIDE DEF top
    <3>1. QED BY <1>1, RunningLocals DEF Fields
  <2>3. Len(whole) \in Nat /\ Len(code) <= Len(whole)
    <3> DEFINE k == top.inner
    <3>1. kept => k \in 1..Len(Code)
      <4> DEFINE n == Len(cl.stack)
      <4>1. IsSeq(cl.stack) /\ FramesInside(cl.stack, Len(Code))
        BY <1>1, RunningLocals DEF FramesInside
      <4>2. n \in Nat /\ n # 0 /\ top = cl.stack[n]
        <5>1. PICK S : cl.stack \in Seq(S)
          BY <4>1 DEF IsSeq
        <5>2. QED BY <1>10, <5>1 DEF Last
      <4> HIDE DEF n
      <4>3. n \in 1..Len(cl.stack)
        BY <4>2 DEF n
      <4>4. QED BY <4>1, <4>2, <4>3 DEF FramesInside
    <3>2. IsSeq(one) /\ Len(one) = 1 /\ IsSeq(three) /\ Len(three) = 3
      <4> HIDE DEF alt, more, code, room, top, inner, whole, asked, locals, kept, k
      <4>1. QED BY SeqTuple
    <3> HIDE DEF one, three, inner, top, kept
    <3>3. CASE kept
      <4>1. k \in 1..(Len(code) + 1) /\ k + 1 <= Len(code) + 1
        BY <1>2, <1>8, <3>1, <3>3
      <4> DEFINE put == Put(code, k, one)
      <4> HIDE DEF k
      <4>2. /\ IsSeq(put)
            /\ Len(put) = IF k + Len(one) <= Len(code) + 1 THEN Len(code)
                          ELSE k + Len(one) - 1
        BY <1>4, <3>2, <4>1, PutLen, Zenon
      <4> HIDE DEF put
      <4>3. Len(put) = Len(code)
        BY <3>2, <4>1, <4>2
      <4>4. Len(put \o three) = Len(put) + Len(three)
        BY <3>2, <4>2, SeqConcat, Zenon
      <4>5. whole = put \o three
        BY <3>3 DEF put, k
      <4> HIDE DEF whole
      <4>6. QED BY <1>8, <3>2, <4>3, <4>4, <4>5
    <3>4. CASE ~kept
      BY <1>8, <3>4
    <3>5. QED BY <3>3, <3>4
  <2>4. ASSUME NEW at, Body(Code, at, cl)
        PROVE  inner \in 0..255
    BY <1>10, <2>4, GroupsWithin
  <2> HIDE DEF top, inner, whole, locals, asked
  <2>5. ASSUME Short(whole)
        PROVE  \E at : Body(whole, at, locals)
    <3>1. Len(whole) <= 32767
      BY <2>5 DEF Short
    <3>2. Len(Code) <= Len(whole)
      BY <1>2, <1>8, <2>3
    <3>3. PICK at : Body(Code, at, cl)
      BY <1>1, <2>3, <2>5, <3>2, SoFar
    <3>9. inner \in 0..255
      BY <2>4, <3>3
    <3>4. cl.fixup_alt_jump # 0 => Len(Code) + 1 <= 32767
      BY <1>2, <1>4, <1>8, <2>3, <3>1
    <3>5. Roomy(Code, cl.fixup_alt_jump)
      BY <3>4 DEF Roomy
    <3>6. top = Last(cl.stack)
      BY DEF top
    <3>7. GroupCloses(cl.stack, cl.regnum, top, whole)
      BY <1>5, <1>10, <2>1, <3>3, <3>5, <3>6, <3>9, ClosedHere
    <3>8. QED BY <2>2, <3>7, Zenon DEF Body, GroupCloses
  <2>6. QED BY <1>10, <2>2, <2>5, PatternWrites, Zenon
<1> HIDE DEF whole, asked, locals
<1>11. "REG_ERPAREN" # "REG_NOERROR"
  OBVIOUS
<1>12. QED BY <1>1, <1>9, <1>10, <1>11, ReturnWrites, Zenon

LEMMA AltHere ==
  ASSUME NEW code, NEW at, NEW l, Body(code, at, l), Len(code) + 6 <= 32767,
         NEW first, NEW fixed, NEW code2,
         AltParts(code, l.begalt, l.fixup_alt_jump, first, fixed, code2)
  PROVE  AltOpens(l.stack, l.regnum, fixed, code2)
<1> DEFINE fixup  == l.fixup_alt_jump
           begalt == l.begalt
           stack  == l.stack
           regnum == l.regnum
<1>1. /\ Written(code, at, begalt, fixup, stack, regnum, l.laststart, l.pending_exact)
      /\ AltParts(code, begalt, fixup, first, fixed, code2) /\ Len(code) + 6 <= 32767
  BY DEF Body
<1> HIDE DEF fixup, begalt, stack, regnum
<1>2. AltOpens(stack, regnum, fixed, code2)
  BY <1>1, AnotherAlternative
<1>3. QED BY <1>2 DEF stack, regnum

LEMMA HandleAltWrites ==
  ASSUME Sound, WriteInv, HandleAlt
  PROVE  WriteInv'
<1> DEFINE first == InsertJump(op.on_failure_jump, Code, cl.begalt, End(Code) + 6)
           fixed == IF cl.fixup_alt_jump = 0 THEN first
                    ELSE StoreJump(op.jump_past_alt, first, cl.fixup_alt_jump, End(first))
           gap   == <<Hole, Hole, Hole>>
           code  == fixed \o gap
           locals == [cl EXCEPT !.p = Token.p, !.pending_exact = 0, !.laststart = 0,
                                !.fixup_alt_jump = End(fixed), !.begalt = End(code)]
<1>1. /\ cl.pc = "pattern"
      /\ NormalCharOn(Code, 0, Token.c, Token.p) \/ EmitWith(bufp.re_nsub, 6, code, locals)
  BY Zenon DEF HandleAlt, AtToken, Emit
<1>2. CASE EmitWith(bufp.re_nsub, 6, code, locals)
  <2>1. /\ IsSeq(Code) /\ Len(Code) \in Nat /\ cl.begalt \in 1..(Len(Code) + 1)
        /\ Inside(cl.begalt, cl.fixup_alt_jump, cl.laststart, Len(Code))
    BY <1>1, SoundCode, RunningLocals DEF Inside
  <2>2. IsSeq(first) /\ Len(first) = Len(Code) + 3
    BY <2>1, InsertJumpLen
  <2>3. AltParts(Code, cl.begalt, cl.fixup_alt_jump, first, fixed, code)
    BY Zenon DEF AltParts, AltCode, WithGap
  <2> HIDE DEF first
  <2>4. Len(Code) <= Len(first)
    BY <2>1, <2>2
  <2>5. IsSeq(fixed) /\ Len(fixed) = Len(first)
    <3>1. CASE cl.fixup_alt_jump = 0
      BY <2>2, <3>1
    <3>2. CASE cl.fixup_alt_jump # 0
      <4> DEFINE jumped == StoreJump(op.jump_past_alt, first, cl.fixup_alt_jump, End(first))
      <4>1. IsSeq(jumped) /\ Len(jumped) = Len(first)
        BY <2>1, <2>2, <2>4, <3>2, FixedUp, Zenon
      <4>2. fixed = jumped
        BY <3>2
      <4> HIDE DEF fixed, jumped
      <4>3. QED BY <4>1, <4>2, Zenon
    <3>3. QED BY <3>1, <3>2
  <2>6. IsSeq(gap) /\ Len(gap) = 3
    BY SeqTuple
  <2>7. /\ locals.pc = "pattern" /\ locals.begalt = Len(code) + 1
        /\ locals.fixup_alt_jump = Len(fixed) + 1 /\ locals.laststart = 0
        /\ locals.stack = cl.stack /\ locals.regnum = cl.regnum /\ locals.pending_exact = 0
    <3> HIDE DEF fixed, gap
    <3>1. QED BY <1>1, RunningLocals DEF Fields, End
  <2> HIDE DEF fixed, gap
  <2>8. Len(code) = Len(fixed) + 3
    BY <2>5, <2>6, SeqConcat
  <2> HIDE DEF code, locals
  <2>9. Len(code) \in Nat /\ Len(Code) <= Len(code) /\ Len(code) = Len(Code) + 6
    BY <2>1, <2>2, <2>5, <2>8
  <2>10. ASSUME Short(code)
         PROVE  \E at : Body(code, at, locals)
    <3>1. Len(Code) + 6 <= 32767
      BY <2>9, <2>10 DEF Short
    <3>2. PICK at : Body(Code, at, cl)
      BY <1>1, <2>9, <2>10, SoFar
    <3>3. AltOpens(cl.stack, cl.regnum, fixed, code)
      BY <2>3, <3>1, <3>2, AltHere
    <3>4. QED BY <2>7, <3>3, Zenon DEF Body, AltOpens
  <2>11. QED BY <1>2, <2>7, <2>10, PatternWrites, Zenon
<1> HIDE DEF locals, code
<1>3. Ord[Token.c] \in 0..255
  BY TokenCode
<1>4. QED BY <1>1, <1>2, <1>3, CharHereWrites, Zenon

-----------------------------------------------------------------------------
\* The bounds an interval that is accepted has.
LEMMA IntervalBounds ==
  ASSUME NEW low, NEW high
  PROVE  LET n == Interval(low, high)
         IN /\ n.label # "REG_NOERROR"
            /\ n.label = "ok" => n.upper \in 0..RE_DUP_MAX /\ n.lower \in 0..n.upper
BY DEF Interval

LEMMA BoundsAreNumbers ==
  ASSUME NEW lower, NEW upper, upper \in 0..RE_DUP_MAX, lower \in 0..upper
  PROVE  lower \in Int /\ upper \in Nat
BY DEF RE_DUP_MAX

LEMMA RepeatsHere ==
  ASSUME NEW code, NEW at, NEW l, Body(code, at, l), NEW last,
         last = IF l.laststart = 0 THEN End(code) ELSE l.laststart,
         NEW lower \in Int, NEW upper \in Nat,
         NEW code2, code2 = Repeated(code, last, lower, upper), Len(code2) <= 32767
  PROVE  \E at2 : Written(code2, at2, l.begalt, l.fixup_alt_jump, l.stack, l.regnum, last, 0)
<1> DEFINE begalt == l.begalt
           fixup  == l.fixup_alt_jump
           stack  == l.stack
           regnum == l.regnum
           start  == l.laststart
<1>1. /\ Written(code, at, begalt, fixup, stack, regnum, start, l.pending_exact)
      /\ last = IF start = 0 THEN End(code) ELSE start
  BY DEF Body
<1> DEFINE none == 0
<1>2. none = 0
  OBVIOUS
<1> HIDE DEF begalt, fixup, stack, regnum, start, none
<1>3. Written(code, at, begalt, fixup, stack, regnum, last, none) /\ last # 0
  BY <1>1, <1>2, StartedAtEnd
<1>4. \E at2 : Written(code2, at2, begalt, fixup, stack, regnum, last, 0)
  BY <1>3, RepeatedWritten
<1>5. QED BY <1>4 DEF begalt, fixup, stack, regnum

LEMMA HandleIntervalWrites ==
  ASSUME Sound, WriteInv, HandleInterval
  PROVE  WriteInv'
<1>1. cl.pc = "pattern"
  BY Zenon DEF HandleInterval, AtToken
<1> DEFINE last == IF cl.laststart = 0 THEN End(Code) ELSE cl.laststart
           request(n) == IF n.upper = 0 THEN 3 ELSE IF n.upper > 1 THEN 20 ELSE 10
           whole(n) == Repeated(Code, last, n.lower, n.upper)
           locals(n) == [cl EXCEPT !.p = n.p, !.pending_exact = 0, !.laststart = last]
<1>2. PICK n : \/ NormalCharOn(Code, 0, "{", Token.p)
               \/ /\ EmitWith(bufp.re_nsub, request(n), whole(n), locals(n))
                  /\ n.upper \in 0..RE_DUP_MAX /\ n.lower \in 0..n.upper
               \/ Return(n.label) /\ n.label # "REG_NOERROR"
  <2>1. PICK low \in {GetUnsignedNumber(Token.p, Token.c)} :
          \E n \in {Interval(low, GetUnsignedNumber(low.p, low.c))} :
            \/ NormalCharOn(Code, 0, "{", Token.p)
            \/ n.label = "ok" /\ EmitWith(bufp.re_nsub, request(n), whole(n), locals(n))
            \/ Return(n.label)
    BY Zenon DEF HandleInterval, Emit
  <2> DEFINE n == Interval(low, GetUnsignedNumber(low.p, low.c))
  <2>2. /\ n.label # "REG_NOERROR"
        /\ n.label = "ok" => n.upper \in 0..RE_DUP_MAX /\ n.lower \in 0..n.upper
    BY IntervalBounds
  <2>3. \/ NormalCharOn(Code, 0, "{", Token.p)
        \/ n.label = "ok" /\ EmitWith(bufp.re_nsub, request(n), whole(n), locals(n))
        \/ Return(n.label)
    BY <2>1, Zenon
  <2> HIDE DEF n, request, whole, locals
  <2>4. QED BY <2>2, <2>3, Zenon
<1>3. CASE /\ EmitWith(bufp.re_nsub, request(n), whole(n), locals(n))
           /\ n.upper \in 0..RE_DUP_MAX /\ n.lower \in 0..n.upper
  <2> DEFINE code == whole(n)
             asked == request(n)
             new == locals(n)
             lower == n.lower
             upper == n.upper
  <2>1. /\ IsSeq(Code) /\ Len(Code) \in Nat
        /\ Inside(cl.begalt, cl.fixup_alt_jump, cl.laststart, Len(Code))
    BY <1>1, SoundCode, RunningLocals
  <2>2. last \in 1..(Len(Code) + 1)
    BY <2>1 DEF Inside, End
  <2>3. last = IF cl.laststart = 0 THEN End(Code) ELSE cl.laststart
    OBVIOUS
  <2> HIDE DEF last
  <2>4. Len(code) = Len(Code) + asked /\ asked \in Nat
    BY <2>1, <2>2, RepeatedLen
  <2>5. /\ new.pc = "pattern" /\ new.begalt = cl.begalt
        /\ new.fixup_alt_jump = cl.fixup_alt_jump /\ new.stack = cl.stack
        /\ new.regnum = cl.regnum /\ new.laststart = last /\ new.pending_exact = 0
    BY <1>1, RunningLocals DEF Fields
  <2>6. EmitWith(bufp.re_nsub, asked, code, new) /\ code = Repeated(Code, last, lower, upper)
    BY <1>3
  <2>7. lower \in Int /\ upper \in Nat
    BY <1>3, BoundsAreNumbers, Zenon
  <2> HIDE DEF code, asked, new, lower, upper
  <2>8. Len(code) \in Nat /\ Len(Code) <= Len(code)
    BY <2>1, <2>4
  <2>9. ASSUME Short(code)
        PROVE  \E at : Body(code, at, new)
    <3>1. Len(code) <= 32767
      BY <2>9 DEF Short
    <3>2. PICK at : Body(Code, at, cl)
      BY <1>1, <2>8, <2>9, SoFar
    <3>3. \E at2 : Written(code, at2, cl.begalt, cl.fixup_alt_jump, cl.stack, cl.regnum, last, 0)
      BY <2>3, <2>6, <2>7, <3>1, <3>2, RepeatsHere
    <3>4. QED BY <2>5, <3>3, Zenon DEF Body
  <2>10. QED BY <2>5, <2>6, <2>9, PatternWrites, Zenon
<1> HIDE DEF locals, whole, request
<1>4. Ord["{"] \in 0..255
  BY LiteralAssumption, OrdIsACode
<1>5. QED BY <1>1, <1>2, <1>3, <1>4, CharHereWrites, ReturnWrites, Zenon

-----------------------------------------------------------------------------
(***************************************************************************)
(* The bracket expressions, the end of the pattern, and its beginning.     *)
(***************************************************************************)
LEMMA ListStartWrites ==
  ASSUME Sound, WriteInv, ListStart
  PROVE  WriteInv'
<1> DEFINE negated == Char(pattern, Token.p) = "^"
           p1   == IF negated THEN Token.p + 1 ELSE Token.p
           o    == IF negated THEN op.charset_not ELSE op.charset
           two  == <<o, 32>>
           list == IF negated /\ Has("RE_HAT_LISTS_NOT_NEWLINE") THEN {10} ELSE {}
           code == Code \o two
           locals == [cl EXCEPT !.pc = "list", !.p = p1, !.p1 = p1, !.laststart = End(Code),
                                !.had_char_class = FALSE, !.list = list]
<1>1. cl.pc = "pattern" /\ (Return("REG_EBRACK") \/ EmitWith(bufp.re_nsub, 34, code, locals))
  BY Zenon DEF ListStart, AtToken, Emit
<1>2. CASE EmitWith(bufp.re_nsub, 34, code, locals)
  <2>1. IsSeq(Code) /\ Len(Code) \in Nat
    BY SoundCode
  <2>2. IsSeq(two) /\ Len(two) = 2
    BY SeqTuple
  <2>3. o \in {op.charset, op.charset_not} /\ code = Code \o <<o, 32>>
    OBVIOUS
  <2> HIDE DEF list, p1, o
  <2>4. /\ locals.pc = "list" /\ locals.begalt = cl.begalt
        /\ locals.fixup_alt_jump = cl.fixup_alt_jump /\ locals.laststart = Len(Code) + 1
        /\ locals.stack = cl.stack /\ locals.regnum = cl.regnum
        /\ locals.pending_exact = cl.pending_exact
    BY <1>1, RunningLocals DEF Fields, End
  <2> HIDE DEF two
  <2>5. Len(code) = Len(Code) + 2
    BY <2>1, <2>2, SeqConcat
  <2> HIDE DEF code, locals
  <2>6. Len(code) \in Nat /\ Len(Code) <= Len(code)
    BY <2>1, <2>5
  <2>7. ASSUME Short(code)
        PROVE  Writing(code, locals)
    <3>1. PICK at : Body(Code, at, cl)
      BY <1>1, <2>6, <2>7, SoFar
    <3>2. Written(Code, at, locals.begalt, locals.fixup_alt_jump, locals.stack, locals.regnum,
                  cl.laststart, locals.pending_exact)
      BY <2>4, <3>1, Zenon DEF Body
    <3>3. Listing(code, locals)
      BY <2>3, <2>4, <3>2, Zenon DEF Listing
    <3>4. locals.pc # "pattern" /\ locals.pc # "returned"
      BY <2>4
    <3>5. QED BY <3>3, <3>4 DEF Writing
  <2>8. QED BY <1>2, <2>7, EmitWrites, Zenon
<1> HIDE DEF code, locals
<1>3. "REG_EBRACK" # "REG_NOERROR"
  OBVIOUS
<1>4. QED BY <1>1, <1>2, <1>3, ReturnWrites, Zenon

LEMMA ListGrowsWrites ==
  ASSUME Sound, WriteInv, cl.pc = "list", NEW locals, Emit(0, Code, locals),
         locals.pc = cl.pc, locals.begalt = cl.begalt,
         locals.fixup_alt_jump = cl.fixup_alt_jump, locals.laststart = cl.laststart,
         locals.stack = cl.stack, locals.regnum = cl.regnum,
         locals.pending_exact = cl.pending_exact
  PROVE  WriteInv'
<1>1. EmitWith(bufp.re_nsub, 0, Code, locals)
  BY DEF Emit
<1>2. ASSUME Short(Code)
      PROVE  Writing(Code, locals)
  <2>1. Listing(Code, cl)
    BY <1>2 DEF WriteInv, Writing
  <2>2. Listing(Code, locals)
    BY <2>1, Zenon DEF Listing
  <2>3. locals.pc # "pattern" /\ locals.pc # "returned"
    OBVIOUS
  <2>4. QED BY <2>2, <2>3 DEF Writing
<1>3. QED BY <1>1, <1>2, EmitWrites, Zenon

LEMMA CompileRangeWrites ==
  ASSUME Sound, WriteInv, cl.pc = "list", NEW i, CompileRange(i)
  PROVE  WriteInv'
<1> DEFINE from == Ord[Char(pattern, i - 2)]
           to   == Ord[Char(pattern, i)]
           more == {IF bufp.translate THEN LowerCode(o) ELSE o : o \in from..to}
           locals == [cl EXCEPT !.p = i + 1, !.list = @ \cup more]
<1>1. Return("REG_ERANGE") \/ Emit(0, Code, locals)
  BY Zenon DEF CompileRange
<1>2. /\ locals.pc = cl.pc /\ locals.begalt = cl.begalt
      /\ locals.fixup_alt_jump = cl.fixup_alt_jump /\ locals.laststart = cl.laststart
      /\ locals.stack = cl.stack /\ locals.regnum = cl.regnum
      /\ locals.pending_exact = cl.pending_exact
  <2> HIDE DEF more
  <2>1. QED BY RunningLocals DEF Fields
<1> HIDE DEF locals
<1>3. "REG_ERANGE" # "REG_NOERROR"
  OBVIOUS
<1>4. QED BY <1>1, <1>2, <1>3, ReturnWrites, ListGrowsWrites, Zenon

LEMMA ClassWrites ==
  ASSUME Sound, WriteInv, cl.pc = "list", NEW i, Class(i)
  PROVE  WriteInv'
<1> DEFINE stop == CHOOSE e \in i..(i + 6) :
                     /\ Fetch(e) \in {":", "]"} \/ e = Len(pattern) \/ e = i + 6
                     /\ \A k \in i..(e - 1) : Fetch(k) \notin {":", "]"} /\ k < Len(pattern)
           name == {n \in DOMAIN CharClass : Chars(n) = [k \in 1..(stop - i) |-> Fetch(i + k - 1)]}
           literal == {Ord["["], Ord[":"]}
           class == UNION {CharClass[n] : n \in name}
           plain == [cl EXCEPT !.p = i, !.list = @ \cup literal, !.had_char_class = FALSE]
           named == [cl EXCEPT !.p = stop + 2, !.had_char_class = TRUE, !.list = @ \cup class]
<1>1. \/ Return("REG_EBRACK") \/ Return("REG_ECTYPE")
      \/ Emit(0, Code, plain) \/ Emit(0, Code, named)
  BY Zenon DEF Class
<1> HIDE DEF literal, class, stop
<1>2. /\ plain.pc = cl.pc /\ plain.begalt = cl.begalt
      /\ plain.fixup_alt_jump = cl.fixup_alt_jump /\ plain.laststart = cl.laststart
      /\ plain.stack = cl.stack /\ plain.regnum = cl.regnum
      /\ plain.pending_exact = cl.pending_exact
  BY RunningLocals DEF Fields
<1>3. /\ named.pc = cl.pc /\ named.begalt = cl.begalt
      /\ named.fixup_alt_jump = cl.fixup_alt_jump /\ named.laststart = cl.laststart
      /\ named.stack = cl.stack /\ named.regnum = cl.regnum
      /\ named.pending_exact = cl.pending_exact
  BY RunningLocals DEF Fields
<1> HIDE DEF plain, named
<1>4. "REG_EBRACK" # "REG_NOERROR" /\ "REG_ECTYPE" # "REG_NOERROR"
  OBVIOUS
<1>5. QED BY <1>1, <1>2, <1>3, <1>4, ReturnWrites, ListGrowsWrites, Zenon

LEMMA ListElementsWrite ==
  ASSUME Sound, WriteInv, ListChar \/ ListEscape \/ ListRange \/ ListClass \/ ListBad
  PROVE  WriteInv'
<1>1. cl.pc = "list"
  BY Zenon DEF ListChar, ListEscape, ListRange, ListClass, ListBad, InList
<1>2. CASE ListChar
  <2> DEFINE more == {Ord[Fetch(cl.p)]}
             locals == [cl EXCEPT !.p = @ + 1, !.had_char_class = FALSE, !.list = @ \cup more]
  <2>1. Emit(0, Code, locals)
    BY <1>2, Zenon DEF ListChar
  <2> HIDE DEF more
  <2>2. /\ locals.pc = cl.pc /\ locals.begalt = cl.begalt
        /\ locals.fixup_alt_jump = cl.fixup_alt_jump /\ locals.laststart = cl.laststart
        /\ locals.stack = cl.stack /\ locals.regnum = cl.regnum
        /\ locals.pending_exact = cl.pending_exact
    BY <1>1, RunningLocals DEF Fields
  <2> HIDE DEF locals
  <2>3. QED BY <1>1, <2>1, <2>2, ListGrowsWrites, Zenon
<1>3. CASE ListEscape
  <2> DEFINE more == {Ord[Fetch(cl.p + 1)]}
             locals == [cl EXCEPT !.p = @ + 2, !.list = @ \cup more]
  <2>1. Emit(0, Code, locals)
    BY <1>3, Zenon DEF ListEscape
  <2> HIDE DEF more
  <2>2. /\ locals.pc = cl.pc /\ locals.begalt = cl.begalt
        /\ locals.fixup_alt_jump = cl.fixup_alt_jump /\ locals.laststart = cl.laststart
        /\ locals.stack = cl.stack /\ locals.regnum = cl.regnum
        /\ locals.pending_exact = cl.pending_exact
    BY <1>1, RunningLocals DEF Fields
  <2> HIDE DEF locals
  <2>3. QED BY <1>1, <2>1, <2>2, ListGrowsWrites, Zenon
<1>4. CASE ListRange
  BY <1>1, <1>4, CompileRangeWrites, Zenon DEF ListRange
<1>5. CASE ListClass
  BY <1>1, <1>5, ClassWrites, Zenon DEF ListClass
<1>6. CASE ListBad
  <2>1. ListElement # "REG_NOERROR" /\ Return(ListElement)
    BY <1>6 DEF ListBad
  <2>2. QED BY <2>1, ReturnWrites, Zenon
<1>7. QED BY <1>2, <1>3, <1>4, <1>5, <1>6

\* Where the length byte and the bitmap go, the bytecode does not get shorter.
LEMMA ListEndLen ==
  ASSUME NEW code, IsSeq(code), Len(code) >= 1, NEW map, IsSeq(map)
  PROVE  LET code2 == (Front(code) \o <<Len(map)>>) \o map
         IN Len(code2) \in Nat /\ Len(code) <= Len(code2)
<1> DEFINE one    == <<Len(map)>>
           before == Front(code)
           start  == before \o one
           code2  == start \o map
           n      == Len(map)
<1>1. Len(code) \in Nat /\ n \in Nat
  BY SeqLen
<1>2. IsSeq(one) /\ Len(one) = 1
  BY SeqTuple
<1>3. IsSeq(before) /\ Len(before) = Len(code) - 1
  <2> DEFINE piece == SubSeq(code, 1, Len(code) - 1)
  <2>1. 1 \in 1..(Len(code) + 1) /\ Len(code) - 1 \in (1 - 1)..Len(code)
    BY <1>1
  <2>2. IsSeq(piece) /\ Len(piece) = (Len(code) - 1) - 1 + 1
    BY <2>1, SeqPiece, Zenon
  <2>3. before = piece
    BY DEF Front
  <2> HIDE DEF piece, before
  <2>4. QED BY <1>1, <2>2, <2>3
<1> HIDE DEF one, before
<1>4. IsSeq(start) /\ Len(start) = Len(before) + Len(one)
  BY <1>2, <1>3, SeqConcat, Zenon
<1> HIDE DEF start
<1>5. Len(code2) = Len(start) + n
  BY <1>4, SeqConcat, Zenon
<1> HIDE DEF code2, n
<1>6. Len(code2) \in Nat /\ Len(code) <= Len(code2)
  BY <1>1, <1>2, <1>3, <1>4, <1>5
<1>7. QED BY <1>6 DEF code2, start, before, one

LEMMA ListEndWrites ==
  ASSUME Sound, WriteInv, ListEnd
  PROVE  WriteInv'
<1> DEFINE map    == Bitmap(cl.list)
           code   == (Front(Code) \o <<Len(map)>>) \o map
           locals == [cl EXCEPT !.pc = "pattern", !.p = @ + 1, !.list = {}, !.p1 = 0,
                                !.had_char_class = FALSE]
<1>1. cl.pc = "list" /\ EmitWith(bufp.re_nsub, 0, code, locals)
  BY Zenon DEF ListEnd, InList, Emit
<1>2. /\ IsSeq(Code) /\ Len(Code) \in Nat /\ Len(Code) >= 1 /\ cl.list \in SUBSET (0..255)
  BY <1>1, SoundCode, RunningLocals DEF LocalsInside
<1>3. IsSeq(map) /\ Len(map) \in 0..32 /\ map \in Seq(0..255)
  <2> DEFINE S == cl.list
  <2>1. S \in SUBSET (0..255)
    BY <1>2
  <2> HIDE DEF S
  <2>2. IsSeq(Bitmap(S)) /\ Len(Bitmap(S)) \in 0..32
    BY <2>1, BitmapLen
  <2>3. Bitmap(S) \in Seq(0..255)
    BY <2>1, BitmapBytes
  <2>4. QED BY <2>2, <2>3 DEF S
<1>4. code = (Front(Code) \o <<Len(map)>>) \o map
  OBVIOUS
<1> HIDE DEF map
<1>5. LET code2 == (Front(Code) \o <<Len(map)>>) \o map
      IN Len(code2) \in Nat /\ Len(Code) <= Len(code2)
  BY <1>2, <1>3, ListEndLen
<1>6. Len(code) \in Nat /\ Len(Code) <= Len(code)
  BY <1>5
<1>7. /\ locals.pc = "pattern" /\ locals.begalt = cl.begalt
      /\ locals.fixup_alt_jump = cl.fixup_alt_jump /\ locals.laststart = cl.laststart
      /\ locals.stack = cl.stack /\ locals.regnum = cl.regnum
      /\ locals.pending_exact = cl.pending_exact
  BY <1>1, RunningLocals DEF Fields
<1> HIDE DEF code, locals
<1>8. ASSUME Short(code)
      PROVE  \E at : Body(code, at, locals)
  <2>1. Short(Code)
    BY <1>2, <1>6, <1>8 DEF Short
  <2>2. Listing(Code, cl)
    BY <1>1, <2>1 DEF WriteInv, Writing
  <2> DEFINE begalt == cl.begalt
             fixup == cl.fixup_alt_jump
             stack == cl.stack
             regnum == cl.regnum
             pending == cl.pending_exact
             start == cl.laststart
  <2>3. PICK before, at, last, o :
          /\ Written(before, at, begalt, fixup, stack, regnum, last, pending)
          /\ o \in {op.charset, op.charset_not} /\ Code = before \o <<o, 32>>
          /\ start = Len(before) + 1
    BY <2>2, Zenon DEF Listing
  <2>4. \E at2 : Written(code, at2, begalt, fixup, stack, regnum, start, pending)
    <3> HIDE DEF begalt, fixup, stack, regnum, pending, start
    <3>1. ListPut(before, o, map, start, Code, code)
      BY <1>3, <1>4, <2>3, Zenon DEF ListPut
    <3>2. QED BY <2>3, <3>1, ListWritten
  <2>5. QED BY <1>7, <2>4, Zenon DEF Body
<1>9. QED BY <1>1, <1>7, <1>8, PatternWrites, Zenon

\* Behind the last character: the last alternative's jump, if there is one,
\* and no gap is left.
LEMMA AllFilled ==
  ASSUME NEW code, NEW at, NEW l, Body(code, at, l), l.stack = <<>>, Len(code) <= 32767,
         NEW code2, code2 = IF l.fixup_alt_jump = 0 THEN code
                            ELSE StoreJump(op.jump_past_alt, code, l.fixup_alt_jump, End(code))
  PROVE  Whole(code2)
<1> DEFINE fixup == l.fixup_alt_jump
           F == Fixups(fixup, l.stack)
           Q == Marks(l.begalt, l.laststart, l.stack)
           none == {}
<1>1. Written(code, at, l.begalt, fixup, l.stack, l.regnum, l.laststart, l.pending_exact)
  BY DEF Body
<1>2. /\ Len(code) \in Nat /\ at \subseteq 1..(Len(code) + 1) /\ Good(code, at, F, Q)
      /\ F \subseteq at /\ Len(code) + 1 \notin F /\ Len(code) + 1 \in at
  BY <1>1, WrittenNumbers
<1>3. F = {fixup} \ {0}
  <2>1. Len(l.stack) = 0
    BY SeqTuple
  <2>2. QED BY <2>1 DEF Fixups, FrameFixups
<1>4. Good(code, at, F, none)
  <2>1. none \subseteq Q \cup {Len(code) + 1}
    OBVIOUS
  <2> HIDE DEF F, Q, none
  <2>2. QED BY <1>2, <2>1, OtherPlaces
<1>5. CASE fixup = 0
  <2>1. code2 = code /\ F = {}
    BY <1>3, <1>5
  <2> HIDE DEF F
  <2>2. Good(code2, at, {}, {})
    BY <1>4, <2>1
  <2>3. QED BY <2>2 DEF Whole
<1>6. CASE fixup # 0
  <2> DEFINE o == op.jump_past_alt
             to == End(code)
             whole == StoreJump(o, code, fixup, to)
  <2>1. code2 = whole /\ F \ {fixup} = {} /\ fixup \in F
    BY <1>3, <1>6
  <2>2. code[fixup] \in {Hole, op.jump_past_alt} /\ op.jump_past_alt \in Jumps
    BY <1>1, <2>1 DEF Written, Refilled, Jumps
  <2>3. /\ fixup \in at /\ fixup # Len(code) + 1 /\ code[fixup] \in Jumps \cup {Hole}
        /\ o \in Jumps /\ to \in at
    BY <1>2, <2>1, <2>2 DEF End
  <2>4. UpTo(none, fixup) /\ UpTo(none, to)
    BY DEF UpTo
  <2>5. Near(fixup, to)
    <3>1. fixup \in 1..(Len(code) + 1) /\ to = Len(code) + 1
      <4>1. to = Len(code) + 1
        BY DEF End
      <4>2. fixup \in at
        BY <2>3
      <4> HIDE DEF fixup, to, F, Q
      <4>3. QED BY <1>2, <4>1, <4>2
    <3> HIDE DEF fixup, to
    <3>2. QED BY <1>2, <3>1 DEF Near
  <2> HIDE DEF F, none, o, to, fixup
  <2>6. LET c == StoreJump(o, code, fixup, to)
        IN Good(c, at, F \ {fixup}, none)
    BY <1>4, <2>3, <2>4, <2>5, JumpFilled
  <2>7. Good(code2, at, F \ {fixup}, none)
    BY <2>1, <2>6
  <2> DEFINE left == F \ {fixup}
  <2>8. left = {} /\ Good(code2, at, left, none)
    BY <2>1, <2>7
  <2> HIDE DEF left
  <2>9. Good(code2, at, {}, {})
    BY <2>8 DEF none
  <2>10. QED BY <2>9 DEF Whole
<1>7. QED BY <1>5, <1>6

LEMMA EndOfPatternWrites ==
  ASSUME Sound, WriteInv, EndOfPattern
  PROVE  WriteInv'
<1> DEFINE fixup  == cl.fixup_alt_jump
           jumped == StoreJump(op.jump_past_alt, Code, fixup, End(Code))
           whole  == IF fixup = 0 THEN Code ELSE jumped
<1>1. "REG_EPAREN" # "REG_NOERROR"
  OBVIOUS
<1>2. CASE Return("REG_EPAREN")
  BY <1>1, <1>2, ReturnWrites, Zenon
<1>3. CASE ~Return("REG_EPAREN")
  <2>1. /\ cl.pc = "pattern" /\ cl.stack = <<>>
        /\ bufp' = IF fixup = 0 THEN bufp ELSE [bufp EXCEPT !.buffer = jumped]
        /\ cl' = [NoLocals("REG_NOERROR") EXCEPT !.regnum = cl.regnum]
    BY <1>3, Zenon DEF EndOfPattern, Code
  <2>2. cl'.pc = "returned"
    BY <2>1, LocalsFields DEF Fields
  <2>3. /\ IsSeq(Code) /\ Len(Code) \in Nat /\ DOMAIN bufp = BufferFields
        /\ Inside(cl.begalt, fixup, cl.laststart, Len(Code))
    BY <2>1, SoundCode, RunningLocals
  <2>4. Code' = whole
    <3>1. CASE fixup = 0
      BY <2>1, <3>1 DEF Code
    <3>2. CASE fixup # 0
      <4>1. bufp' = [bufp EXCEPT !.buffer = jumped]
        BY <2>1, <3>2
      <4> HIDE DEF jumped
      <4>2. QED BY <2>3, <3>2, <4>1 DEF Code, BufferFields
    <3>3. QED BY <3>1, <3>2
  <2>5. Len(whole) = Len(Code)
    <3>1. CASE fixup = 0
      BY <3>1
    <3>2. CASE fixup # 0
      <4>1. Len(Code) <= Len(Code) /\ Len(Code) \in Nat
        BY <2>3
      <4>2. \A o, to : Len(StoreJump(o, Code, cl.fixup_alt_jump, to)) = Len(Code)
        BY <2>3, <3>2, <4>1, FixedUp
      <4>3. QED BY <3>2, <4>2
    <3>3. QED BY <3>1, <3>2
  <2>6. whole = IF cl.fixup_alt_jump = 0 THEN Code
                ELSE StoreJump(op.jump_past_alt, Code, cl.fixup_alt_jump, End(Code))
    OBVIOUS
  <2> HIDE DEF whole
  <2>7. ASSUME Short(whole)
        PROVE  Whole(whole)
    <3>1. Len(Code) <= 32767 /\ Short(Code)
      BY <2>5, <2>7 DEF Short
    <3>2. \E at : Body(Code, at, cl)
      BY <2>1, <3>1 DEF WriteInv, Writing
    <3>3. PICK at : Body(Code, at, cl)
      BY <3>2
    <3>4. QED BY <2>1, <2>6, <3>1, <3>3, AllFilled
  <2>8. QED BY <2>2, <2>4, <2>7 DEF WriteInv, Writing
<1>4. QED BY <1>2, <1>3

LEMMA CompileStepWrites ==
  ASSUME Sound, WriteInv, CompileStep
  PROVE  WriteInv'
BY SimpleTokensWrite, HandlePlusWrites, HandleOpenWrites, HandleCloseWrites, HandleAltWrites,
   HandleIntervalWrites, ListStartWrites, ListElementsWrite, ListEndWrites, EndOfPatternWrites,
   Zenon DEF CompileStep

\* Before the first byte.
LEMMA NothingWritten ==
  ASSUME NEW l, l.begalt = 1, l.fixup_alt_jump = 0, l.stack = <<>>, l.regnum = 0,
         l.laststart = 0, l.pending_exact = 0
  PROVE  \E at : Body(<<>>, at, l)
<1> DEFINE code == <<>>
           at == {1}
           F == Fixups(0, <<>>)
           Q == Marks(1, 0, <<>>)
<1>1. Len(code) = 0 /\ IsSeq(code)
  BY SeqTuple
<1>2. F = {} /\ Q = {1}
  BY <1>1 DEF Fixups, Marks, FrameFixups, FrameMarks
<1>3. Good(code, at, F, Q)
  <2> HIDE DEF F, Q
  <2>1. QED BY <1>2, GoodEmpty
<1>4. NestedIn(code, 1, 0, 0) /\ Opened(code, code)
  BY <1>1 DEF NestedIn, Level, Opened
<1>5. Refilled(code, F) /\ Pending(code, at, 0, F, Q)
  BY <1>2 DEF Refilled, Pending
<1>6. Written(code, at, 1, 0, code, 0, 0, 0)
  BY <1>1, <1>3, <1>4, <1>5 DEF Written
<1>7. Body(code, at, l)
  BY <1>6 DEF Body
<1>8. QED BY <1>7

-----------------------------------------------------------------------------
(***************************************************************************)
(* The places of the instructions are those Instructions() finds.          *)
(***************************************************************************)
Further(code, before, i) ==
  IF i \in before /\ i <= Len(code) THEN before \cup {i + 1 + ArgBytes(code, i)} ELSE before
Upto == INSTANCE Recursion WITH
          Base <- [c \in Seq(Cell) |-> {1}],
          Step <- LAMBDA before, i : [c \in Seq(Cell) |-> Further(c, before[c], i)]

LEMMA InstructionsAre ==
  ASSUME NEW code \in Seq(Cell)
  PROVE  \E upto : /\ Instructions(code) = upto[Len(code)]
                   /\ upto[0] = {1}
                   /\ \A i \in Nat : upto[i + 1] = Further(code, upto[i], i + 1)
<1> DEFINE U == Upto!Values
           g == [i \in Nat |-> U[i][code]]
           F(f) == [i \in Nat |-> IF i = 0 THEN {1} ELSE Further(code, f[i - 1], i)]
           upto == CHOOSE f : f = F(f)
<1>1. U = [i \in Nat |-> IF i = 0 THEN [c \in Seq(Cell) |-> {1}]
                         ELSE [c \in Seq(Cell) |-> Further(c, U[i - 1][c], i)]]
  BY Upto!FollowsEquation
<1>2. \A i \in Nat : U[i][code] = IF i = 0 THEN {1} ELSE Further(code, U[i - 1][code], i)
  <2> SUFFICES ASSUME NEW i \in Nat
               PROVE  U[i][code] = IF i = 0 THEN {1} ELSE Further(code, U[i - 1][code], i)
    OBVIOUS
  <2> HIDE DEF U
  <2>1. U[i] = IF i = 0 THEN [c \in Seq(Cell) |-> {1}]
               ELSE [c \in Seq(Cell) |-> Further(c, U[i - 1][c], i)]
    BY <1>1
  <2> QED BY <2>1
<1>3. g = F(g)
  <2> HIDE DEF U
  <2>1. \A i \in Nat : i # 0 => i - 1 \in Nat
    OBVIOUS
  <2>2. \A i \in Nat : g[i] = U[i][code]
    OBVIOUS
  <2>3. \A i \in Nat : g[i] = F(g)[i]
    BY <1>2, <2>1, <2>2
  <2> QED BY <2>3
<1>4. Instructions(code) = upto[Len(code)]
  BY DEF Instructions, Further
<1>5. upto = F(upto)
  <2> HIDE DEF F
  <2> QED BY <1>3, Zenon
<1>6. \A i \in Nat : upto[i] = F(upto)[i]
  BY <1>5, Zenon
<1>7. \A i \in Nat : i + 1 \in Nat /\ i + 1 # 0 /\ (i + 1) - 1 = i
  OBVIOUS
<1>8. upto[0] = {1} /\ \A i \in Nat : upto[i + 1] = Further(code, upto[i], i + 1)
  BY <1>6, <1>7
<1> HIDE DEF upto
<1>9. QED BY <1>4, <1>8

LEMMA ArgBytesInt ==
  ASSUME NEW code, NEW i, code[i] \in Counting => code[i + 1] \in 0..255
  PROVE  ArgBytes(code, i) \in Int
<1> DEFINE c == code[i]
           x == code[i + 1]
           b == ArgBytes(code, i)
<1>1. c \in Counting => x \in 0..255
  OBVIOUS
<1>2. b = CASE c \in {op.exactn, op.charset, op.charset_not} -> 1 + x
           [] c \in {op.start_memory, op.stop_memory}        -> 2
           [] c = op.duplicate                               -> 1
           [] c \in Jumps                                    -> 2
           [] c \in Jumps2 \cup {op.set_number_at}           -> 4
           [] OTHER                                          -> 0
  BY DEF ArgBytes
<1>3. b = CASE c \in {1, 3, 4} -> 1 + x [] c \in {5, 6} -> 2 [] c = 7 -> 1
            [] c \in 12..18 -> 2 [] c \in {20, 21} \cup {22} -> 4 [] OTHER -> 0
  BY <1>2, OpValues, OpSets
<1>4. b \in Int
  <2>1. c \in Counting <=> c \in {1, 3, 4}
    BY OpSets
  <2> HIDE DEF c, x, b
  <2>2. c \in {1, 3, 4} => x \in 0..255
    BY <1>1, <2>1
  <2>3. CASE c \in {1, 3, 4}
    <3>1. c \in {1, 3, 4} /\ c \notin {5, 6} /\ c # 7 /\ c \notin 12..18 /\ c \notin {20, 21} \cup {22}
      BY <2>3
    <3>2. b = 1 + x
      BY <1>3, <3>1, Zenon
    <3>3. QED BY <2>2, <2>3, <3>2
  <2>4. CASE c \notin {1, 3, 4}
    BY <1>3, <2>4
  <2>5. QED BY <2>3, <2>4
<1>5. QED BY <1>4 DEF b

\* What is found before the byte i: the places up to i, and the next one.
FoundBefore(code, at, v, i) ==
  /\ v \subseteq at /\ \A k \in at : k <= i => k \in v
  /\ \E z \in v : z > i /\ \A k \in at : k <= i \/ z <= k

LEMMA FoundNext ==
  ASSUME NEW code, NEW at, Shape(code, at), \A k \in at : k = Len(code) + 1 \/ code[k] # Hole,
         NEW i \in Nat, i + 1 <= Len(code), NEW v, FoundBefore(code, at, v, i),
         NEW w, w = Further(code, v, i + 1)
  PROVE  FoundBefore(code, at, w, i + 1)
<1>1. Len(code) \in Nat /\ at \subseteq 1..(Len(code) + 1)
  BY Instruction, GoodNumbers DEF Shape
<1>2. v \subseteq at /\ \A k \in at : k <= i => k \in v
  BY DEF FoundBefore
<1>3. PICK z \in v : z > i /\ \A k \in at : k <= i \/ z <= k
  BY DEF FoundBefore
<1>4. z \in at /\ z \in Int /\ \A k \in at : k \in Int
  BY <1>1, <1>2, <1>3
<1>5. CASE z = i + 1
  <2> DEFINE n == Size(code, z)
             y == z + n
  <2>1. z # Len(code) + 1 /\ z <= Len(code)
    BY <1>1, <1>5
  <2>2. code[z] # Hole /\ n = 1 + ArgBytes(code, z)
    BY <1>4, <2>1 DEF Size
  <2>3. /\ n \in Nat \ {0} /\ y \in at /\ \A k \in at : k <= z \/ y <= k
        /\ code[z] \in Counting => code[z + 1] \in 0..255
    <3>1. z \in at /\ z # Len(code) + 1 /\ Fitting(code, at, z)
      BY <1>4, <2>1 DEF Shape
    <3>2. n \in Nat \ {0}
      BY <3>1, Instruction
    <3>3. QED BY <3>1, <3>2 DEF Fitting
  <2>4. ArgBytes(code, z) \in Int
    <3>1. code[z] \in Counting => code[z + 1] \in 0..255
      BY <2>3
    <3>2. QED BY <3>1, ArgBytesInt
  <2>5. y = z + 1 + ArgBytes(code, z)
    <3> DEFINE x == ArgBytes(code, z)
    <3> HIDE DEF x
    <3>1. QED BY <1>4, <2>2, <2>4 DEF x
  <2>6. w = v \cup {y}
    BY <1>3, <1>5, <2>1, <2>5 DEF Further
  <2> HIDE DEF y, n
  <2>7. w \subseteq at
    BY <1>2, <2>3, <2>6
  <2>8. \A k \in at : k <= i + 1 => k \in w
    BY <1>2, <1>3, <1>4, <1>5, <2>6
  <2>9. y \in w /\ y > i + 1
    <3>1. y = z + n
      BY DEF y
    <3>2. QED BY <1>4, <1>5, <2>3, <2>6, <3>1
  <2>10. \A k \in at : k <= i + 1 \/ y <= k
    BY <1>5, <2>3
  <2>11. QED BY <2>7, <2>8, <2>9, <2>10 DEF FoundBefore
<1>6. CASE z # i + 1
  <2>1. z > i + 1
    BY <1>3, <1>4, <1>6
  <2>2. i + 1 \notin v
    <3> SUFFICES ASSUME i + 1 \in v
                 PROVE  FALSE
      OBVIOUS
    <3>1. i + 1 <= i \/ z <= i + 1
      BY <1>2, <1>3
    <3>2. QED BY <1>4, <2>1, <3>1
  <2>3. w = v
    BY <2>2 DEF Further
  <2>4. \A k \in at : k <= i + 1 => k \in v
    <3> SUFFICES ASSUME NEW k \in at, k <= i + 1
                 PROVE  k \in v
      OBVIOUS
    <3>1. k <= i \/ z <= k
      BY <1>3
    <3>2. k <= i
      BY <1>4, <2>1, <3>1
    <3>3. QED BY <1>2, <3>2
  <2>5. \A k \in at : k <= i + 1 \/ z <= k
    BY <1>3, <1>4
  <2>6. QED BY <1>2, <1>3, <2>1, <2>3, <2>4, <2>5 DEF FoundBefore
<1>7. QED BY <1>5, <1>6

LEMMA PlacesAreInstructions ==
  ASSUME NEW code, NEW at, Shape(code, at), \A k \in at : k = Len(code) + 1 \/ code[k] # Hole
  PROVE  Instructions(code) = at
<1>1. code \in Seq(Cell) /\ Len(code) \in Nat /\ at \subseteq 1..(Len(code) + 1)
      /\ 1 \in at /\ Len(code) + 1 \in at
  BY LenProperties DEF Shape
<1>2. PICK upto : /\ Instructions(code) = upto[Len(code)]
                  /\ upto[0] = {1}
                  /\ \A i \in Nat : upto[i + 1] = Further(code, upto[i], i + 1)
  BY <1>1, InstructionsAre
<1> DEFINE S == {i \in Nat : i <= Len(code) => FoundBefore(code, at, upto[i], i)}
<1>3. 0 \in S
  <2>1. upto[0] \subseteq at /\ \A k \in at : ~(k <= 0) /\ 1 <= k
    BY <1>1, <1>2
  <2>2. 1 \in upto[0] /\ 1 > 0
    BY <1>2
  <2>3. FoundBefore(code, at, upto[0], 0)
    BY <2>1, <2>2 DEF FoundBefore
  <2>4. QED BY <2>3
<1>4. ASSUME NEW i \in Nat, i \in S
      PROVE  i + 1 \in S
  <2> SUFFICES ASSUME i + 1 <= Len(code)
               PROVE  FoundBefore(code, at, upto[i + 1], i + 1)
    OBVIOUS
  <2>1. FoundBefore(code, at, upto[i], i)
    BY <1>1, <1>4
  <2>2. upto[i + 1] = Further(code, upto[i], i + 1)
    BY <1>2
  <2>3. QED BY <2>1, <2>2, FoundNext
<1>5. Nat \subseteq S
  <2> HIDE DEF S
  <2> QED BY <1>3, <1>4, Upto!ByInduction
<1>6. FoundBefore(code, at, upto[Len(code)], Len(code))
  BY <1>1, <1>5
<1> DEFINE v == upto[Len(code)]
<1>7. v \subseteq at /\ \A k \in at : k <= Len(code) => k \in v
  BY <1>6 DEF FoundBefore
<1>8. PICK z \in v : z > Len(code) /\ \A k \in at : k <= Len(code) \/ z <= k
  BY <1>6 DEF FoundBefore
<1> HIDE DEF v
<1>9. z = Len(code) + 1
  BY <1>1, <1>7, <1>8
<1>10. at \subseteq v
  BY <1>1, <1>7, <1>8, <1>9
<1>11. QED BY <1>2, <1>7, <1>10 DEF v

\* Bytecode without a gap, of which at are the places.
LEMMA WholeCode ==
  ASSUME NEW code, NEW at, Good(code, at, {}, {})
  PROVE  /\ Instructions(code) = at /\ Shape(code, at) /\ code \in Seq(Cell)
         /\ Len(code) \in Nat /\ at \subseteq 1..(Len(code) + 1) /\ Len(code) + 1 \in at
         /\ \A k \in 1..Len(code) : code[k] \in 0..255
         /\ \A i \in at : i # Len(code) + 1 => Link(code, at, i)
<1>1. Shape(code, at) /\ code \in Seq(Cell) /\ at \subseteq 1..(Len(code) + 1)
      /\ Len(code) + 1 \in at /\ Len(code) \in Nat
  BY LenProperties DEF Good, Shape
<1>2. \A k \in 1..Len(code) : code[k] # Hole
  BY DEF Good, Gaps
<1>3. \A k \in at : k = Len(code) + 1 \/ code[k] # Hole
  <2>1. \A k \in at : k = Len(code) + 1 \/ k \in 1..Len(code)
    BY <1>1
  <2>2. QED BY <1>2, <2>1
<1>4. Instructions(code) = at
  BY <1>1, <1>3, PlacesAreInstructions
<1>5. ASSUME NEW k \in 1..Len(code)
      PROVE  code[k] \in 0..255
  <2>1. code[k] \in Cell /\ code[k] # Hole
    BY <1>1, <1>2
  <2>2. QED BY <2>1 DEF Cell, Hole
<1>6. \A i \in at : i # Len(code) + 1 => Link(code, at, i)
  BY DEF Good, Linked
<1>7. QED BY <1>1, <1>4, <1>5, <1>6

LEMMA WholeBytecode ==
  ASSUME Whole(Code)
  PROVE  BytecodeIsWhole
<1>1. PICK at : Good(Code, at, {}, {})
  BY DEF Whole
<1>2. /\ Instructions(Code) = at /\ Shape(Code, at) /\ Code \in Seq(Cell)
      /\ Len(Code) \in Nat /\ at \subseteq 1..(Len(Code) + 1) /\ Len(Code) + 1 \in at
      /\ \A k \in 1..Len(Code) : Code[k] \in 0..255
      /\ \A i \in at : i # Len(Code) + 1 => Link(Code, at, i)
  BY <1>1, WholeCode
<1>3. End(Code) = Len(Code) + 1
  BY DEF End
<1>4. \A k \in DOMAIN Code : Code[k] \in 0..255
  <2>1. DOMAIN Code = 1..Len(Code)
    BY <1>2, LenProperties
  <2>2. QED BY <1>2, <2>1
<1>5. ASSUME NEW i \in at \ {End(Code)}
      PROVE  /\ Code[i] \in Jumps \cup Jumps2 => Target(i) \in at
             /\ Code[i] = op.set_number_at =>
                  Target(i) - 3 \in at /\ Code[Target(i) - 3] \in Jumps2
  <2>1. i \in at /\ i # Len(Code) + 1 /\ Link(Code, at, i)
    BY <1>2, <1>3, <1>5
  <2>2. CASE Code[i] \in Jumps \cup Jumps2
    <3>1. Code[i] \in Linking /\ Code[i] # op.set_number_at
      BY <2>2, OpSets, OpValues DEF Linking
    <3>2. Dest(Code, i) \in at /\ Number(Code, i + 1) \in Int /\ i \in Int
      BY <1>2, <2>1, <3>1, Instruction DEF Link
    <3>3. Dest(Code, i) = i + Number(Code, i + 1) + 3
      BY <3>1 DEF Dest
    <3>4. Target(i) = Dest(Code, i)
      BY <3>2, <3>3 DEF Target
    <3>5. QED BY <3>1, <3>2, <3>4
  <2>3. CASE Code[i] = op.set_number_at
    <3>1. Code[i] \in Linking /\ Code[i] \notin Jumps \cup Jumps2
      BY <2>3, OpSets, OpValues DEF Linking
    <3>2. Number(Code, i + 1) \in Int /\ i \in Int
      BY <1>2, <2>1, <3>1, Instruction
    <3>3. Dest(Code, i) \in at /\ Code[Dest(Code, i)] \in Jumps2
      BY <2>1, <2>3, <3>1 DEF Link
    <3>4. Dest(Code, i) = i + Number(Code, i + 1) + 0
      BY <2>3 DEF Dest
    <3>5. Target(i) - 3 = Dest(Code, i)
      BY <3>2, <3>4 DEF Target
    <3>6. QED BY <3>1, <3>3, <3>5
  <2>4. QED BY <2>2, <2>3
<1>6. QED BY <1>2, <1>3, <1>4, <1>5 DEF BytecodeIsWhole

-----------------------------------------------------------------------------
(***************************************************************************)
(* The calls: from the first byte to the first search.                     *)
(***************************************************************************)
WrittenInv == searches = 0 => WriteInv

LEMMA WritingStarts ==
  ASSUME NEW tree, NEW buf, Compile(tree, buf), DOMAIN buf = BufferFields
  PROVE  WriteInv'
<1>1. /\ bufp' = [buf EXCEPT !.buffer = <<>>, !.re_nsub = 0, !.not_bol = FALSE,
                             !.not_eol = FALSE, !.fastmap_accurate = FALSE,
                             !.allocated = IF @ = 0 THEN INIT_BUF_SIZE ELSE @]
      /\ cl' = [NoLocals("none") EXCEPT !.pc = "pattern", !.p = 1, !.begalt = 1]
  BY DEF Compile, StartCompile
<1>2. Code' = <<>>
  BY <1>1 DEF Code, BufferFields
<1>3. /\ cl'.pc = "pattern" /\ cl'.begalt = 1 /\ cl'.fixup_alt_jump = 0 /\ cl'.stack = <<>>
      /\ cl'.regnum = 0 /\ cl'.laststart = 0 /\ cl'.pending_exact = 0
  BY <1>1 DEF NoLocals
<1>4. \E at : Body(<<>>, at, cl')
  BY <1>3, NothingWritten, Zenon
<1>5. Writing(Code', cl')
  BY <1>2, <1>3, <1>4, Zenon DEF Writing
<1>6. QED BY <1>5 DEF WriteInv

LEMMA CallCompileWrites ==
  ASSUME CallCompile
  PROVE  WriteInv'
<1>1. ASSUME NEW flags PROVE DOMAIN RegcompBuffer(flags) = BufferFields
  BY DEF RegcompBuffer, NoBuffer, BufferFields
<1>2. ASSUME NEW tree, NEW chaine, RegexMatch(chaine, tree)
      PROVE  WriteInv'
  <2> DEFINE buf == RegcompBuffer(LuanetFlags)
  <2>1. Compile(tree, buf) /\ DOMAIN buf = BufferFields
    BY <1>1, <1>2 DEF RegexMatch
  <2> HIDE DEF buf
  <2>2. QED BY <2>1, WritingStarts, Zenon
<1>3. ASSUME NEW tree, NEW flags, Regcomp(tree, flags)
      PROVE  WriteInv'
  <2> DEFINE buf == RegcompBuffer(flags)
  <2>1. Compile(tree, buf) /\ DOMAIN buf = BufferFields
    BY <1>1, <1>3 DEF Regcomp
  <2> HIDE DEF buf
  <2>2. QED BY <2>1, WritingStarts, Zenon
<1>4. ASSUME NEW tree, NEW syntax, ReComp(tree, syntax)
      PROVE  WriteInv'
  <2> DEFINE least == Min({200, MAX_BUF_SIZE})
             buf == [NoBuffer EXCEPT !.syntax = syntax, !.newline_anchor = TRUE,
                                     !.fastmap = TRUE, !.allocated = least]
  <2>1. Compile(tree, buf)
    BY <1>4 DEF ReComp
  <2> HIDE DEF least
  <2>2. DOMAIN buf = BufferFields
    BY DEF NoBuffer, BufferFields
  <2> HIDE DEF buf
  <2>3. QED BY <2>1, <2>2, WritingStarts, Zenon
<1>5. ASSUME NEW tree, NEW syntax, NEW fastmap, ReCompilePattern(tree, syntax, fastmap)
      PROVE  WriteInv'
  <2> DEFINE buf == [NoBuffer EXCEPT !.syntax = syntax, !.newline_anchor = TRUE,
                                     !.fastmap = fastmap]
  <2>1. Compile(tree, buf)
    BY <1>5 DEF ReCompilePattern
  <2>2. DOMAIN buf = BufferFields
    BY DEF NoBuffer, BufferFields
  <2> HIDE DEF buf
  <2>3. QED BY <2>1, <2>2, WritingStarts, Zenon
<1>6. QED BY <1>2, <1>3, <1>4, <1>5, Zenon DEF CallCompile

LEMMA NoneWrites ==
  ASSUME cl'.pc = "returned", cl'.ret # "REG_NOERROR"
  PROVE  WriteInv'
BY DEF WriteInv, Writing

LEMMA SearchedAlready ==
  ASSUME SafeInv, NEW text, NEW startpos, NEW range, NEW eflags,
         Search(text, startpos, range, eflags)
  PROVE  WrittenInv'
<1>1. searches' # 0
  BY DEF Search, SafeInv
<1>2. QED BY <1>1 DEF WrittenInv

LEMMA WrittenInit ==
  ASSUME Init
  PROVE  WrittenInv
<1>1. cl.pc = "returned" /\ cl.ret = "none"
  BY LocalsFields DEF Init
<1>2. QED BY <1>1 DEF WrittenInv, WriteInv, Writing

LEMMA WrittenNext ==
  ASSUME SafeInv, WrittenInv, [Next]_regexVars
  PROVE  WrittenInv'
<1>1. CASE Fresh /\ CallCompile
  BY <1>1, CallCompileWrites DEF WrittenInv
<1>2. CASE CallSearch
  <2>1. \E text, startpos, range, eflags : Search(text, startpos, range, eflags)
    BY <1>2, Zenon DEF CallSearch, Regexec, ReExec, ReSearch, Searching
  <2>2. QED BY <2>1, SearchedAlready
<1>3. CASE Reset
  <2>1. cl'.pc = "returned" /\ cl'.ret = "none"
    BY <1>3, LocalsFields DEF Reset
  <2>2. WriteInv'
    BY <2>1, NoneWrites
  <2>3. QED BY <2>2 DEF WrittenInv
<1>4. CASE CompileRuns
  <2>1. CompileStep
    BY <1>4 DEF CompileRuns
  <2>2. cl.pc # "returned"
    <3>1. cl.pc \in {"pattern", "list"}
      BY <2>1, Zenon
         DEF CompileStep, NormalChar, BegLine, EndLine, AnyChar, SimpleOp, Duplicate, BadToken,
             HandlePlus, HandleOpen, HandleClose, HandleAlt, HandleInterval, ListStart, ListChar,
             ListEscape, ListRange, ListClass, ListBad, ListEnd, EndOfPattern, AtToken, InList
    <3>2. QED BY <3>1
  <2>3. Sound /\ searches = 0
    BY <2>2 DEF SafeInv, CompileInv, Sound
  <2>4. WriteInv
    BY <2>3 DEF WrittenInv
  <2>5. WriteInv'
    BY <2>1, <2>3, <2>4, CompileStepWrites
  <2>6. QED BY <2>5 DEF WrittenInv
<1>5. CASE SearchRuns
  <2>1. m.pc # "idle"
    BY <1>5
       DEF SearchRuns, MatchStep, TryHere, Result, Backtrack, PatternEnd, ExactN, OneChar,
           Assertion, StartMemory, StopMemory, BackReference, OnFailureJump, KeepStringJump,
           DummyFailure, Jump, PopFailureJump, MaybePopJump, SucceedN, JumpN, SetNumberAt, At
  <2>2. m # Idle
    BY <2>1 DEF Idle
  <2>3. searches' # 0
    BY <1>5, <2>2 DEF SafeInv, SearchRuns
  <2>4. QED BY <2>3 DEF WrittenInv
<1>6. CASE UNCHANGED <<compileVars, searches>>
  <2>1. Code' = Code /\ cl' = cl /\ searches' = searches
    BY <1>6 DEF compileVars, Code
  <2>2. QED BY <2>1 DEF WrittenInv, WriteInv
<1>7. CASE RegexMatchExec
  BY <1>7, SearchedAlready, Zenon DEF RegexMatchExec
<1>8. CASE UNCHANGED regexVars
  BY <1>6, <1>8 DEF regexVars, compileVars
<1>9. Regfree \/ RegexMatchReturns => Reset
  BY DEF Regfree, RegexMatchReturns
<1>10. CompileReturns \/ SearchReturns => UNCHANGED <<compileVars, searches>>
  BY DEF CompileReturns, SearchReturns
<1>11. QED BY <1>1, <1>2, <1>3, <1>4, <1>5, <1>6, <1>7, <1>8, <1>9, <1>10, Zenon
           DEF Next, Call, Run

LEMMA WrittenAlways == Spec => [](SafeInv /\ WrittenInv)
<1>1. Init => SafeInv /\ WrittenInv
  BY SafeInit, WrittenInit
<1>2. SafeInv /\ WrittenInv /\ [Next]_regexVars => (SafeInv /\ WrittenInv)'
  BY SafeNext, WrittenNext
<1>3. QED BY <1>1, <1>2, PTL DEF Spec

(* What regex_compile writes is whole bytecode, from the end of the        *)
(* compilation to the first search: instructions one behind the other up   *)
(* to the end, no gap left, every jump to the start of one, every          *)
(* set_number_at to a counter, however the insertions of `*', `|', groups  *)
(* and intervals nested.  A displacement has 16 bits, which is enough up   *)
(* to 32767 bytes.                                                         *)
THEOREM CompiledCodeIsWhole ==
  Spec => [](Len(Code) <= 32767 /\ searches = 0 => BytecodeIsWhole)
<1>1. SafeInv /\ WrittenInv => (Len(Code) <= 32767 /\ searches = 0 => BytecodeIsWhole)
  <2> SUFFICES ASSUME WrittenInv, Len(Code) <= 32767, searches = 0
               PROVE  BytecodeIsWhole
    OBVIOUS
  <2>1. Short(Code) /\ WriteInv
    BY DEF Short, WrittenInv
  <2>2. CASE Compiled
    <3>1. Whole(Code)
      BY <2>1, <2>2 DEF WriteInv, Writing, Compiled
    <3>2. QED BY <3>1, WholeBytecode
  <2>3. CASE ~Compiled
    BY <2>3 DEF BytecodeIsWhole
  <2>4. QED BY <2>2, <2>3
<1>2. QED BY <1>1, WrittenAlways, PTL

-----------------------------------------------------------------------------
(***************************************************************************)
(* The matcher's writes: another opcode for a jump, another count for a    *)
(* counter, in bytecode that is whole.                                     *)
(***************************************************************************)
Placing(code, at) == Good(code, at, {}, {})

LEMMA NumberedJumps ==
  ASSUME NEW o \in Jumps \cup Jumps2
  PROVE  o \in Linking /\ o # op.set_number_at /\ o # Hole
<1>1. o \in (12..18) \cup {20, 21}
  BY OpSets
<1>2. o # 22 /\ o # -1 /\ o \in (12..18) \cup (20..22)
  BY <1>1
<1>3. op.set_number_at = 22 /\ Hole = -1 /\ Linking = (12..18) \cup (20..22)
  BY OpSets, OpValues DEF Hole
<1>4. QED BY <1>2, <1>3

LEMMA StaysWhole ==
  ASSUME NEW code, NEW at, Placing(code, at), NEW s \in at, s # Len(code) + 1,
         NEW code2, Overwritten(code, s, code2), code[s] \in Jumps \cup Jumps2,
         code2[s] = code[s] \/ code2[s] \in Jumps, Dest(code2, s) = Dest(code, s)
  PROVE  Placing(code2, at)
<1> DEFINE none == {}
           F == none \cup {s}
<1>1. Good(code, at, none, none)
  BY DEF Placing
<1>2. Good(code2, at, F, none)
  <2> HIDE DEF none
  <2>1. QED BY <1>1, Rewritten
<1>3. /\ Len(code) \in Nat /\ Shape(code, at) /\ at \subseteq 1..(Len(code) + 1)
      /\ s \in 1..Len(code)
  <2>1. Shape(code, at) /\ at \subseteq 1..(Len(code) + 1) /\ Len(code) \in Nat
    BY <1>1, GoodNumbers
  <2>2. QED BY <2>1
<1>4. Link(code, at, s)
  <2>1. s \notin none
    OBVIOUS
  <2>2. QED BY <1>1, <2>1 DEF Good, Linked
<1>5. code[s] \in Linking /\ code[s] # op.set_number_at
  BY NumberedJumps
<1>6. code2[s] \in Linking /\ code2[s] # op.set_number_at /\ code2[s] # Hole
  <2>1. code2[s] \in Jumps \cup Jumps2
    OBVIOUS
  <2>2. QED BY <2>1, NumberedJumps
<1>7. Link(code2, at, s)
  <2> DEFINE d == Dest(code, s)
  <2>1. d \in at /\ Dest(code2, s) = d
    BY <1>4, <1>5 DEF Link
  <2>2. ASSUME code2[s] = op.jump_n
        PROVE  d < s /\ code2[d] = op.succeed_n
    <3>1. op.jump_n \notin Jumps
      BY OpSets, OpValues
    <3>2. code[s] = op.jump_n
      BY <2>2, <3>1
    <3>3. d < s /\ code[d] = op.succeed_n
      BY <1>4, <1>5, <3>2 DEF Link
    <3>4. d \in 1..Len(code)
      <4>1. d \in 1..(Len(code) + 1) /\ d < s
        BY <1>3, <2>1, <3>3
      <4> HIDE DEF d
      <4>2. QED BY <1>3, <4>1
    <3>5. code2[d] = code[d]
      BY <3>3, <3>4 DEF Overwritten
    <3>6. QED BY <3>3, <3>5
  <2> HIDE DEF d
  <2>3. QED BY <1>6, <2>1, <2>2 DEF Link
<1>8. \A x \in none : Cut(code2, s, x)
  OBVIOUS
<1>9. Good(code2, at, F \ {s}, none)
  <2> HIDE DEF F, none
  <2>1. QED BY <1>2, <1>6, <1>7, <1>8, NowLinked
<1> DEFINE left == F \ {s}
<1>10. left = {} /\ Good(code2, at, left, none)
  BY <1>9
<1> HIDE DEF left
<1>11. QED BY <1>10 DEF Placing

\* maybe_pop_jump becomes another jump.
LEMMA JumpRenamed ==
  ASSUME NEW code, NEW at, Placing(code, at), NEW s \in at, s # Len(code) + 1,
         code[s] \in Jumps, NEW o \in Jumps, NEW code2, code2 = [code EXCEPT ![s] = o]
  PROVE  Placing(code2, at) /\ Len(code2) = Len(code)
<1> DEFINE none == {}
           c == [code EXCEPT ![s] = o]
<1>1. Good(code, at, none, none)
  BY DEF Placing
<1>2. Overwritten(code, s, c) /\ c[s] = o /\ Dest(c, s) = Dest(code, s)
  <2> HIDE DEF none
  <2>1. QED BY <1>1, OpcodeStored, Zenon
<1> HIDE DEF c
<1>3. Overwritten(code, s, code2) /\ code2[s] \in Jumps /\ Dest(code2, s) = Dest(code, s)
  BY <1>2 DEF c
<1>4. code[s] \in Jumps \cup Jumps2
  OBVIOUS
<1>5. Placing(code2, at)
  BY <1>3, <1>4, StaysWhole
<1>6. QED BY <1>3, <1>5 DEF Overwritten

ArgumentOf(code, s, loc, bytes) ==
  /\ code[s] \in {op.start_memory} \cup Jumps2
  /\ bytes \in Seq(Cell) /\ \A k \in 1..Len(bytes) : bytes[k] # Hole
  /\ loc \in Int /\ s < loc /\ loc + Len(bytes) <= s + Size(code, s)

ArgumentRewritten(code, s, loc, bytes, code2) ==
  /\ Overwritten(code, s, code2)
  /\ \A k \in 1..Len(code) : k < loc \/ loc + Len(bytes) <= k => code2[k] = code[k]

LEMMA ArgumentPut ==
  ASSUME NEW code, NEW at, NEW F, NEW Q, Good(code, at, F, Q),
         NEW s \in at, s # Len(code) + 1,
         NEW loc, NEW bytes, ArgumentOf(code, s, loc, bytes),
         NEW code2, code2 = Put(code, loc, bytes)
  PROVE  ArgumentRewritten(code, s, loc, bytes, code2)
<1>1. LET put == Put(code, loc, bytes)
      IN /\ Overwritten(code, s, put)
         /\ \A k \in 1..Len(code) : k < loc \/ loc + Len(bytes) <= k => put[k] = code[k]
  BY ArgumentStored DEF ArgumentOf
<1>2. QED BY <1>1 DEF ArgumentRewritten

\* Two bytes over the count of a counter.
LEMMA CountRewritten ==
  ASSUME NEW code, NEW at, Placing(code, at), NEW s \in at, s # Len(code) + 1,
         code[s] \in Jumps2, NEW bytes \in Seq(Cell), Len(bytes) = 2,
         \A k \in 1..Len(bytes) : bytes[k] # Hole, NEW loc, loc = s + 3,
         NEW code2, code2 = Put(code, loc, bytes)
  PROVE  /\ Placing(code2, at) /\ Len(code2) = Len(code)
         /\ code2[s + 3] = bytes[1] /\ code2[s + 4] = bytes[2]
         /\ \A k \in 1..Len(code) : k # s + 3 /\ k # s + 4 => code2[k] = code[k]
<1> DEFINE none == {}
<1>1. Good(code, at, none, none)
  BY DEF Placing
<1>2. /\ Len(code) \in Nat /\ Shape(code, at) /\ code \in Seq(Cell)
      /\ s \in 1..Len(code) /\ s + 5 <= Len(code) + 1 /\ Size(code, s) = 5
  <2>1. Shape(code, at) /\ code \in Seq(Cell)
    BY <1>1, GoodNumbers
  <2>2. Size(code, s) = 5
    BY SizeOfOpcode
  <2>3. QED BY <2>1, <2>2, Instruction
<1>3. /\ loc \in Int /\ s < loc /\ loc + Len(bytes) <= s + Size(code, s)
      /\ loc \in 1..(Len(code) + 1) /\ loc + Len(bytes) <= Len(code) + 1
  BY <1>2
<1>4. /\ Overwritten(code, s, code2)
      /\ \A k \in 1..Len(code) : k < loc \/ loc + Len(bytes) <= k => code2[k] = code[k]
  <2>1. ArgumentOf(code, s, loc, bytes)
    BY <1>3 DEF ArgumentOf
  <2> HIDE DEF none
  <2>2. ArgumentRewritten(code, s, loc, bytes, code2)
    BY <1>1, <2>1, ArgumentPut
  <2>3. QED BY <2>2 DEF ArgumentRewritten
<1>5. \A k \in 1..Len(bytes) : code2[loc - 1 + k] = bytes[k]
  <2>1. \A k \in 1..Len(bytes) : Put(code, loc, bytes)[loc - 1 + k] = bytes[k]
    BY <1>2, <1>3, PutAt
  <2>2. QED BY <2>1
<1>6. code2[s + 3] = bytes[1] /\ code2[s + 4] = bytes[2]
  <2>1. loc - 1 + 1 = s + 3 /\ loc - 1 + 2 = s + 4 /\ 1 \in 1..Len(bytes) /\ 2 \in 1..Len(bytes)
    BY <1>2
  <2>2. code2[loc - 1 + 1] = bytes[1] /\ code2[loc - 1 + 2] = bytes[2]
    BY <1>5, <2>1
  <2>3. QED BY <2>1, <2>2
<1>7. ASSUME NEW k \in 1..Len(code), k # s + 3, k # s + 4
      PROVE  code2[k] = code[k]
  <2>1. k < loc \/ loc + Len(bytes) <= k
    BY <1>2, <1>7
  <2>2. QED BY <1>4, <2>1
<1>8. code2[s] = code[s]
  BY <1>2, <1>7
<1>9. Dest(code2, s) = Dest(code, s)
  <2>1. /\ s + 1 \in 1..Len(code) /\ s + 2 \in 1..Len(code) /\ (s + 1) + 1 = s + 2
        /\ s + 1 # s + 3 /\ s + 1 # s + 4 /\ s + 2 # s + 3 /\ s + 2 # s + 4
    BY <1>2
  <2>2. code2[s + 1] = code[s + 1] /\ code2[s + 2] = code[s + 2]
    BY <1>7, <2>1
  <2>3. Number(code2, s + 1) = Number(code, s + 1)
    BY <2>1, <2>2 DEF Number
  <2>4. QED BY <1>8, <2>3 DEF Dest
<1>10. code[s] \in Jumps \cup Jumps2
  OBVIOUS
<1>11. Placing(code2, at)
  BY <1>4, <1>8, <1>9, <1>10, StaysWhole
<1>12. Len(code2) = Len(code)
  BY <1>4 DEF Overwritten
<1>13. QED BY <1>6, <1>7, <1>11, <1>12

-----------------------------------------------------------------------------
(***************************************************************************)
(* Where the matcher is: at an instruction, or on the no_ops a succeed_n   *)
(* has left where its count was.                                           *)
(***************************************************************************)
Idling(code, at, p) ==
  \E i \in at : /\ i # Len(code) + 1 /\ code[i] = op.succeed_n /\ code[i + 4] = op.no_op
                /\ p = i + 4 \/ (p = i + 3 /\ code[i + 3] = op.no_op)
Placed(code, at, p) == p \in at \/ Idling(code, at, p)

LEMMA PlaceIsANumber ==
  ASSUME NEW at, NEW n \in Nat, at \subseteq 1..(n + 1), NEW x \in at
  PROVE  x \in Int /\ 1 <= x /\ x <= n + 1 /\ (x # n + 1 => x \in 1..n)
OBVIOUS

\* An instruction of bytecode that is whole.
LEMMA Settled ==
  ASSUME NEW code, NEW at, Placing(code, at), NEW i \in at, i # Len(code) + 1
  PROVE  /\ Len(code) \in Nat /\ i \in 1..Len(code) /\ code[i] \in 0..255 /\ code[i] # Hole
         /\ i + 1 + ArgBytes(code, i) \in at /\ i + Size(code, i) \in at
         /\ i + Size(code, i) <= Len(code) + 1
         /\ \A k \in at : k <= i \/ i + Size(code, i) <= k
<1> DEFINE n == Size(code, i)
           b == ArgBytes(code, i)
<1>1. /\ Shape(code, at) /\ Len(code) \in Nat /\ at \subseteq 1..(Len(code) + 1)
      /\ \A k \in 1..Len(code) : code[k] \in 0..255
  BY WholeCode DEF Placing
<1>2. i \in 1..Len(code) /\ code[i] \in 0..255
  <2>1. i \in 1..Len(code)
    BY <1>1, PlaceIsANumber, Zenon
  <2>2. QED BY <1>1, <2>1
<1>3. code[i] # Hole
  <2>1. \A v \in 0..255 : v # Hole
    BY DEF Hole
  <2>2. QED BY <1>2, <2>1
<1>4. n \in Nat \ {0} /\ i + n \in at /\ i + n <= Len(code) + 1
      /\ \A k \in at : k <= i \/ i + n <= k
  BY <1>1, Instruction DEF Shape, Fitting
<1>5. n = 1 + b
  BY <1>3 DEF Size
<1>6. b \in Int
  <2>1. /\ code[i] \in Counting => code[i + 1] \in 0..255
    <3> HIDE DEF n, b
    <3>1. QED BY <1>1, Instruction
  <2>2. QED BY <1>2, <2>1, ArgBytesInt
<1> HIDE DEF n, b
<1>7. i + 1 + b = i + n
  BY <1>2, <1>5, <1>6
<1>8. QED BY <1>1, <1>2, <1>3, <1>4, <1>7 DEF n, b

LEMMA NextPlaced ==
  ASSUME NEW code, NEW at, Placing(code, at), NEW p, Placed(code, at, p), p # Len(code) + 1
  PROVE  Placed(code, at, p + 1 + ArgBytes(code, p))
<1>1. CASE p \in at
  BY <1>1, Settled DEF Placed
<1>2. CASE Idling(code, at, p)
  <2>1. PICK i \in at : /\ i # Len(code) + 1 /\ code[i] = op.succeed_n /\ code[i + 4] = op.no_op
                        /\ p = i + 4 \/ (p = i + 3 /\ code[i + 3] = op.no_op)
    BY <1>2 DEF Idling
  <2>2. Size(code, i) = 5
    BY <2>1, SizeOfOpcode DEF Jumps2
  <2>3. i \in Int /\ i + 5 \in at
    BY <2>1, <2>2, Settled
  <2>4. code[p] = op.no_op
    BY <2>1
  <2>5. ArgBytes(code, p) = 0
    <3>1. code[p] = 0
      BY <2>4, OpValues
    <3>2. QED BY <3>1, OpValues, OpSets DEF ArgBytes
  <2>6. CASE p = i + 4
    <3>1. p + 1 + 0 = i + 5
      BY <2>3, <2>6
    <3>2. QED BY <2>3, <2>5, <3>1 DEF Placed
  <2>7. CASE p = i + 3
    <3>1. p + 1 + 0 = i + 4
      BY <2>3, <2>7
    <3>2. Idling(code, at, p + 1 + 0)
      BY <2>1, <3>1 DEF Idling
    <3>3. QED BY <2>5, <3>2 DEF Placed
  <2>8. QED BY <2>1, <2>6, <2>7
<1>3. QED BY <1>1, <1>2 DEF Placed

\* Whatever is not a no_op is the opcode of an instruction.
LEMMA OnInstruction ==
  ASSUME NEW code, NEW at, NEW p, Placed(code, at, p), code[p] # op.no_op
  PROVE  p \in at
<1>1. ~Idling(code, at, p)
  BY DEF Idling
<1>2. QED BY <1>1 DEF Placed

LEMMA JumpPlaced ==
  ASSUME NEW at, Placing(Code, at), NEW i \in at, i # Len(Code) + 1,
         Code[i] \in Jumps \cup Jumps2
  PROVE  /\ Target(i) \in at /\ Target(i) = Dest(Code, i) /\ Number(Code, i + 1) \in Int
         /\ Code[i] = op.jump_n => Target(i) < i /\ Code[Target(i)] = op.succeed_n
<1>1. /\ Shape(Code, at) /\ Link(Code, at, i)
  BY WholeCode DEF Placing
<1>2. Code[i] \in Linking /\ Code[i] # op.set_number_at
  BY NumberedJumps
<1>3. Dest(Code, i) \in at /\ Number(Code, i + 1) \in Int /\ i \in Int
  BY <1>1, <1>2, Instruction DEF Link
<1>4. Dest(Code, i) = i + Number(Code, i + 1) + 3
  BY <1>2 DEF Dest
<1>5. Target(i) = Dest(Code, i)
  BY <1>3, <1>4 DEF Target
<1>6. Code[i] = op.jump_n => Dest(Code, i) < i /\ Code[Dest(Code, i)] = op.succeed_n
  BY <1>1, <1>2 DEF Link
<1>7. QED BY <1>3, <1>5, <1>6

-----------------------------------------------------------------------------
(* While the bytecode has less than 14 * 256 bytes, no high byte of a      *)
(* displacement is the opcode of on_failure_jump, for which stop_memory    *)
(* looks two bytes behind a succeed_n.                                     *)
ShortCode == Len(Code) < 3584

LEMMA HighByteIsNone ==
  ASSUME NEW low \in 0..255, NEW i \in Nat, NEW n \in Nat, n < 3584, i + 3 + (low + 256 * 14) <= n + 1
  PROVE  FALSE
OBVIOUS

\* The loop a group leaves is left by an on_failure_jump of the bytecode.
LEMMA ExitPlaced ==
  ASSUME NEW at, Placing(Code, at), ShortCode, NEW r, Next1 \in at, Next1 # Len(Code) + 1
  PROVE  LoopExit(r) \in at \cup {0}
<1> DEFINE i == Next1
           to == Target(i) + (IF Code[i] = op.jump_n THEN 2 ELSE 0)
           jumps == {op.jump_n, op.pop_failure_jump, op.maybe_pop_jump, op.jump,
                     op.dummy_failure_jump}
<1>1. LoopExit(r) = IF /\ Code[i] \in jumps /\ Number(Code, i + 1) < 0
                       /\ Code[to] = op.on_failure_jump
                       /\ Code[to + 3] = op.start_memory /\ Code[to + 4] = r
                    THEN Target(to) ELSE 0
  BY DEF LoopExit
<1> SUFFICES ASSUME Code[i] \in jumps, Number(Code, i + 1) < 0, Code[to] = op.on_failure_jump
             PROVE  Target(to) \in at
  BY <1>1
<1> HIDE DEF i
<1>2. /\ i \in at /\ i # Len(Code) + 1 /\ Code[i] \in Jumps \cup Jumps2
  BY DEF i, Jumps, Jumps2
<1>3. /\ Target(i) \in at /\ Number(Code, i + 1) \in Int
      /\ Code[i] = op.jump_n => Target(i) < i /\ Code[Target(i)] = op.succeed_n
  BY <1>2, JumpPlaced
<1>4. /\ Len(Code) \in Nat /\ i \in 1..Len(Code) /\ at \subseteq 1..(Len(Code) + 1)
      /\ \A k \in at : k <= i \/ i + Size(Code, i) <= k
      /\ \A k \in 1..Len(Code) : Code[k] \in 0..255
  BY <1>2, Settled, WholeCode DEF Placing
<1>5. CASE Code[i] # op.jump_n
  <2>1. to = Target(i)
    <3>1. to = Target(i) + 0
      BY <1>5
    <3>2. Target(i) \in Int
      BY <1>3, <1>4, PlaceIsANumber, Zenon
    <3> HIDE DEF to
    <3>3. QED BY <3>1, <3>2
  <2>2. Size(Code, i) >= 3
    <3>1. Size(Code, i) \in {3, 5}
      BY <1>2, SizeOfOpcode
    <3>2. QED BY <3>1
  <2>3. Target(i) < i + 3
    <3> DEFINE n == Number(Code, i + 1)
    <3>1. Target(i) = i + 3 + n /\ n < 0 /\ n \in Int
      BY <1>3 DEF Target
    <3> HIDE DEF n
    <3>2. QED BY <1>4, <3>1
  <2>4. Target(i) <= i
    <3> DEFINE n == Size(Code, i)
               t == Target(i)
    <3>1. t \in at /\ t \in Int /\ (t <= i \/ i + n <= t)
      BY <1>3, <1>4, PlaceIsANumber, Zenon
    <3>2. n \in {3, 5} /\ t < i + 3
      BY <1>2, <2>3, SizeOfOpcode
    <3> HIDE DEF n, t
    <3>3. t <= i
      BY <1>4, <3>1, <3>2
    <3>4. QED BY <3>3 DEF t
  <2>5. to \in at /\ to # Len(Code) + 1
    <3>1. Target(i) # Len(Code) + 1
      BY <1>3, <1>4, <2>4
    <3>2. QED BY <1>3, <2>1, <3>1
  <2>6. Code[to] \in Jumps \cup Jumps2
    BY DEF Jumps
  <2> HIDE DEF to
  <2>7. QED BY <2>5, <2>6, JumpPlaced
<1>6. CASE Code[i] = op.jump_n
  <2> DEFINE s == Target(i)
  <2>1. s \in at /\ s < i /\ Code[s] = op.succeed_n /\ to = s + 2
    BY <1>3, <1>6
  <2> HIDE DEF s, to
  <2>2. s \in 1..Len(Code) /\ s # Len(Code) + 1 /\ Code[s] \in Jumps2 /\ Code[s] \in Jumps \cup Jumps2
    BY <1>4, <2>1 DEF Jumps2
  <2>3. Size(Code, s) = 5 /\ s + Size(Code, s) <= Len(Code) + 1
    BY <2>1, <2>2, Settled, SizeOfOpcode
  <2>4. s + 1 \in 1..Len(Code) /\ s + 2 \in 1..Len(Code) /\ (s + 1) + 1 = s + 2
    BY <1>4, <2>2, <2>3
  <2>5. Code[s + 1] \in 0..255 /\ Code[s + 2] = 14
    BY <1>4, <2>1, <2>4, OpValues
  <2>6. Number(Code, s + 1) = Code[s + 1] + 256 * 14
    BY <2>4, <2>5 DEF Number
  <2>7. Target(s) \in at
    BY <2>1, <2>2, JumpPlaced
  <2>8. Target(s) = s + 3 + (Code[s + 1] + 256 * 14)
    BY <2>6 DEF Target
  <2>9. s + 3 + (Code[s + 1] + 256 * 14) <= Len(Code) + 1
    <3>1. Target(s) <= Len(Code) + 1
      BY <1>4, <2>7, PlaceIsANumber, Zenon
    <3>2. QED BY <2>8, <3>1
  <2>10. FALSE
    <3> DEFINE low == Code[s + 1]
               n == Len(Code)
    <3>1. low \in 0..255 /\ s \in Nat /\ n \in Nat /\ n < 3584
          /\ s + 3 + (low + 256 * 14) <= n + 1
      BY <1>4, <2>2, <2>5, <2>9 DEF ShortCode
    <3> HIDE DEF low, n
    <3>2. QED BY <3>1, HighByteIsNone
  <2>11. QED BY <2>10
<1>7. QED BY <1>5, <1>6

-----------------------------------------------------------------------------
(***************************************************************************)
(* The matcher's locals against the bytecode: p is placed, and so is every *)
(* place a failure point holds.                                            *)
(***************************************************************************)
Walking(locals) == locals.pc \in {"match", "fail"}
Saving(at, locals) ==
  /\ {"pc", "p", "stack"} \subseteq DOMAIN locals
  /\ IsSeq(locals.stack)
  /\ \A k \in 1..Len(locals.stack) : locals.stack[k].pat \in at \cup {0}
Follows(code, at, locals) ==
  /\ Walking(locals) => Saving(at, locals)
  /\ locals.pc = "match" => Placed(code, at, locals.p)
Tracing(at) == Placing(Code, at) /\ Follows(Code, at, m)
Tracked(at) == Tracing(at)' /\ Len(Code') = Len(Code)

LEMMA StepTracks ==
  ASSUME NEW at, Tracing(at), NEW new, Step(new), Follows(Code, at, new)
  PROVE  Tracked(at)
<1>1. m' = new /\ Code' = Code
  BY DEF Step, compileVars, Code
<1>2. QED BY <1>1 DEF Tracing, Tracked

LEMMA RewriteTracks ==
  ASSUME NEW at, NEW code, NEW new, Rewrite(code, new), DOMAIN bufp = BufferFields,
         Placing(code, at), Follows(code, at, new), Len(code) = Len(Code)
  PROVE  Tracked(at)
<1>1. m' = new /\ bufp' = [bufp EXCEPT !.buffer = code]
  BY DEF Rewrite
<1>2. Code' = code
  BY <1>1 DEF Code, BufferFields
<1>3. QED BY <1>1, <1>2 DEF Tracing, Tracked

LEMMA StoppedFollows ==
  ASSUME NEW code, NEW at, NEW new, new.pc \notin {"match", "fail"}
  PROVE  Follows(code, at, new)
BY DEF Follows, Walking

\* Locals whose failure stack is as it was.
LEMMA StackKept ==
  ASSUME NEW code, NEW at, NEW old, Saving(at, old), NEW code2, NEW new,
         DOMAIN new = DOMAIN old, new.stack = old.stack,
         new.pc = "match" => Placed(code2, at, new.p)
  PROVE  Follows(code2, at, new)
BY DEF Follows, Saving

\* A failure point less.
LEMMA StackPopped ==
  ASSUME NEW at, NEW old, Saving(at, old), old.stack # <<>>
  PROVE  /\ IsSeq(Front(old.stack)) /\ Last(old.stack).pat \in at \cup {0}
         /\ \A k \in 1..Len(Front(old.stack)) : Front(old.stack)[k].pat \in at \cup {0}
<1> DEFINE s == old.stack
           n == Len(s)
<1>1. IsSeq(s) /\ n \in Nat /\ s # <<>> /\ \A k \in 1..n : s[k].pat \in at \cup {0}
  BY SeqLen DEF Saving
<1>2. n # 0
  <2>1. PICK S : s \in Seq(S)
    BY <1>1 DEF IsSeq
  <2>2. QED BY <1>1, <2>1, EmptySeq
<1> HIDE DEF s
<1>3. 1 \in 1..(n + 1) /\ n - 1 \in (1 - 1)..n /\ n - 1 - 1 + 1 = n - 1 /\ n \in 1..n
  BY <1>1, <1>2
<1> DEFINE j == n - 1
           t == SubSeq(s, 1, j)
<1>4. IsSeq(t) /\ Len(t) = n - 1 /\ \A k \in 1..(n - 1) : t[k] = s[1 + k - 1]
  <2>1. /\ IsSeq(SubSeq(s, 1, j)) /\ Len(SubSeq(s, 1, j)) = j - 1 + 1
        /\ \A k \in 1..(j - 1 + 1) : SubSeq(s, 1, j)[k] = s[1 + k - 1]
    <3> HIDE DEF j
    <3>1. j \in (1 - 1)..Len(s)
      BY <1>3 DEF j
    <3>2. 1 \in 1..(Len(s) + 1)
      BY <1>3
    <3>3. QED BY <1>1, <3>1, <3>2, SeqPiece
  <2>2. QED BY <1>3, <2>1
<1> HIDE DEF j, t
<1>5. \A k \in 1..(n - 1) : 1 + k - 1 = k /\ k \in 1..n
  BY <1>1
<1>6. \A k \in 1..Len(t) : t[k].pat \in at \cup {0}
  BY <1>1, <1>4, <1>5
<1>7. Front(s) = t
  BY DEF Front, t, j
<1>8. Last(s).pat \in at \cup {0}
  BY <1>1, <1>3 DEF Last
<1>9. QED BY <1>4, <1>6, <1>7, <1>8 DEF s

\* A failure point more, or an overflow.
PushedOn(locals, pat, new) ==
  \/ new = [locals EXCEPT !.pc = "overflow"]
  \/ \E point, size : /\ point.pat = pat
                      /\ new = [locals EXCEPT !.stack = Append(@, point), !.size = size]

LEMMA PushIs ==
  ASSUME NEW locals, NEW pat, NEW str
  PROVE  PushedOn(locals, pat, Push(locals, pat, str))
<1> DEFINE need == Avail(locals) + Items(locals)
           n == CHOOSE k \in 0..16 : /\ locals.size * 2^k >= need
                                     /\ k = 0 \/ locals.size * 2^(k - 1) < need
           point == [pat |-> pat, str |-> str, low |-> locals.low, high |-> locals.high,
                     regs |-> [r \in locals.low..locals.high |-> Saved(locals, r)],
                     items |-> Items(locals)]
           full == Items(locals) < 0
                     \/ (n > 0 /\ locals.size * 2^(n - 1) > re_max_failures * MaxItems)
           pushed == [locals EXCEPT !.stack = Append(@, point), !.size = @ * 2^n]
<1>1. Push(locals, pat, str) = IF full THEN [locals EXCEPT !.pc = "overflow"] ELSE pushed
  BY DEF Push
<1>2. point.pat = pat
  OBVIOUS
<1> DEFINE size == locals.size * 2^n
<1>3. pushed = [locals EXCEPT !.stack = Append(@, point), !.size = size]
  OBVIOUS
<1> HIDE DEF full, pushed, size, point
<1>4. QED BY <1>1, <1>2, <1>3 DEF PushedOn

LEMMA PushedFollows ==
  ASSUME NEW code, NEW at, NEW old, Saving(at, old), NEW locals,
         DOMAIN locals = DOMAIN old, locals.stack = old.stack, locals.pc = "match",
         NEW pat \in at \cup {0}, NEW str, NEW next, Placed(code, at, next)
  PROVE  /\ Follows(code, at, [Push(locals, pat, str) EXCEPT !.p = next])
         /\ Push(locals, pat, str).pc = "overflow" \/ Saving(at, Push(locals, pat, str))
<1> DEFINE pushed == Push(locals, pat, str)
           new == [pushed EXCEPT !.p = next]
<1>1. {"pc", "p", "stack"} \subseteq DOMAIN locals /\ IsSeq(locals.stack)
      /\ \A k \in 1..Len(locals.stack) : locals.stack[k].pat \in at \cup {0}
  BY DEF Saving
<1>2. ASSUME pushed = [locals EXCEPT !.pc = "overflow"]
      PROVE  pushed.pc = "overflow" /\ Follows(code, at, new)
  <2>1. pushed.pc = "overflow" /\ DOMAIN pushed = DOMAIN locals
    BY <1>1, <1>2
  <2> HIDE DEF pushed
  <2>2. new.pc = "overflow"
    BY <1>1, <2>1
  <2> HIDE DEF new
  <2>3. Follows(code, at, new)
    BY <2>2 DEF Follows, Walking
  <2>4. QED BY <2>1, <2>3 DEF new, pushed
<1>3. ASSUME NEW point, NEW size, point.pat = pat,
             pushed = [locals EXCEPT !.stack = Append(@, point), !.size = size]
      PROVE  /\ Follows(code, at, new) /\ Saving(at, pushed)
  <2> DEFINE s == locals.stack
             t == Append(s, point)
  <2>1. /\ pushed.stack = t /\ DOMAIN pushed = DOMAIN locals
    BY <1>1, <1>3
  <2> HIDE DEF pushed
  <2>2. IsSeq(t) /\ Len(t) = Len(s) + 1 /\ Len(s) \in Nat
        /\ (\A k \in 1..Len(s) : t[k] = s[k]) /\ t[Len(s) + 1] = point
    BY <1>1, SeqAppend, SeqLen
  <2> HIDE DEF t, s
  <2>3. \A k \in 1..Len(t) : k \in 1..Len(s) \/ k = Len(s) + 1
    BY <2>2
  <2>4. \A k \in 1..Len(t) : t[k].pat \in at \cup {0}
    BY <1>1, <1>3, <2>2, <2>3 DEF s
  <2>5. Saving(at, pushed)
    BY <1>1, <2>1, <2>2, <2>4 DEF Saving
  <2>6. new.p = next /\ new.stack = t /\ DOMAIN new = DOMAIN locals
    BY <1>1, <2>1
  <2> HIDE DEF new
  <2>7. Follows(code, at, new)
    BY <1>1, <2>2, <2>4, <2>6 DEF Follows, Saving
  <2>8. QED BY <2>5, <2>7
<1> HIDE DEF new
<1>4. PushedOn(locals, pat, pushed)
  BY PushIs
<1> HIDE DEF pushed
<1>5. \/ pushed.pc = "overflow" /\ Follows(code, at, new)
      \/ Follows(code, at, new) /\ Saving(at, pushed)
  BY <1>2, <1>3, <1>4 DEF PushedOn
<1>6. QED BY <1>5 DEF new, pushed

-----------------------------------------------------------------------------
(***************************************************************************)
(* The steps of the matcher.                                               *)
(***************************************************************************)
LEMMA HereIs ==
  ASSUME NEW at, Tracing(at), NEW ops, At(ops), op.no_op \notin ops
  PROVE  /\ Placing(Code, at) /\ Saving(at, m) /\ m.pc = "match"
         /\ m.p \in at /\ m.p # Len(Code) + 1 /\ Code[m.p] \in ops
         /\ Next1 \in at /\ Placed(Code, at, Next1)
<1>1. /\ Placing(Code, at) /\ m.pc = "match" /\ Placed(Code, at, m.p) /\ Saving(at, m)
      /\ m.p <= Len(Code) /\ Code[m.p] \in ops
  BY DEF Tracing, Follows, Walking, At
<1>2. Code[m.p] # op.no_op
  BY <1>1
<1>3. m.p \in at
  BY <1>1, <1>2, OnInstruction
<1>4. Len(Code) \in Nat /\ m.p \in Int
  BY <1>1, <1>3, WholeCode, PlaceIsANumber DEF Placing
<1>5. m.p # Len(Code) + 1
  <2> DEFINE p == m.p
  <2>1. p \in Int /\ p <= Len(Code)
    BY <1>1, <1>4
  <2> HIDE DEF p
  <2>2. p # Len(Code) + 1
    BY <1>4, <2>1
  <2>3. QED BY <2>2 DEF p
<1>6. Next1 \in at
  BY <1>1, <1>3, <1>5, Settled DEF Next1
<1>7. QED BY <1>1, <1>3, <1>5, <1>6 DEF Placed

\* On to the next instruction, or to another place; or the match fails.
LEMMA GoesTo ==
  ASSUME NEW at, NEW code, Saving(at, m), NEW new, DOMAIN new = DOMAIN m,
         new.stack = m.stack, Placed(code, at, new.p)
  PROVE  Follows(code, at, new)
BY DEF Follows, Saving

LEMMA Fails ==
  ASSUME NEW at, Saving(at, m), NEW d
  PROVE  Follows(Code, at, Fail(d))
<1> DEFINE new == Fail(d)
<1>1. {"pc", "p", "stack"} \subseteq DOMAIN m
  BY DEF Saving
<1>2. DOMAIN new = DOMAIN m /\ new.stack = m.stack /\ new.pc = "fail"
  BY <1>1 DEF Fail
<1> HIDE DEF new
<1>3. Follows(Code, at, new)
  BY <1>2, StackKept
<1>4. QED BY <1>3 DEF new

LEMMA MovesTo ==
  ASSUME NEW at, NEW code, Saving(at, m), NEW p, Placed(code, at, p)
  PROVE  Follows(code, at, [m EXCEPT !.p = p])
<1> DEFINE new == [m EXCEPT !.p = p]
<1>1. {"pc", "p", "stack"} \subseteq DOMAIN m
  BY DEF Saving
<1>2. DOMAIN new = DOMAIN m /\ new.stack = m.stack /\ new.p = p
  BY <1>1
<1> HIDE DEF new
<1>3. Follows(code, at, new)
  BY <1>2, GoesTo
<1>4. QED BY <1>3 DEF new

LEMMA MatchedFollows ==
  ASSUME NEW at, Saving(at, m), NEW n, Placed(Code, at, Next1)
  PROVE  Follows(Code, at, Matched(n))
<1> DEFINE info == [r \in Groups |-> IF r \in m.low..m.high
                                     THEN [m.info[r] EXCEPT !.matched = TRUE, !.ever = TRUE]
                                     ELSE m.info[r]]
           p == Next1
           d == m.d + n
           new == [m EXCEPT !.p = p, !.d = d, !.info = info]
<1>1. {"pc", "p", "stack"} \subseteq DOMAIN m
  BY DEF Saving
<1>2. Matched(n) = new
  BY DEF Matched
<1> HIDE DEF info, p, d
<1>3. DOMAIN new = DOMAIN m /\ new.stack = m.stack /\ new.p = p
  BY <1>1
<1> HIDE DEF new
<1>4. Follows(Code, at, new)
  BY <1>3, GoesTo DEF p
<1>5. QED BY <1>2, <1>4

LEMMA BestFollows ==
  ASSUME NEW at, Saving(at, m)
  PROVE  Follows(Code, at, Best(m))
<1> DEFINE new == Best(m)
<1>1. {"pc", "p", "stack"} \subseteq DOMAIN m
  BY DEF Saving
<1>2. new.pc \in {"accept", "reject"}
  BY <1>1 DEF Best
<1> HIDE DEF new
<1>3. new.pc \notin {"match", "fail"}
  BY <1>2
<1>4. Follows(Code, at, new)
  BY <1>3, StoppedFollows
<1>5. QED BY <1>4 DEF new

LEMMA AdvanceFollows ==
  ASSUME NEW at, NEW ret
  PROVE  Follows(Code, at, Advance(m)) /\ Follows(Code, at, Done(ret))
<1>1. Done(ret).pc = "done"
  BY DEF Done
<1>2. Advance(m).pc \in {"done", "search"}
  BY DEF Advance, Done
<1>3. Advance(m).pc \notin {"match", "fail"} /\ Done(ret).pc \notin {"match", "fail"}
  BY <1>1, <1>2
<1>4. QED BY <1>3, StoppedFollows

LEMMA EnterFollows ==
  ASSUME NEW at, Placing(Code, at), NEW startpos, NEW range
  PROVE  Follows(Code, at, EnterMatch(startpos, range))
<1> DEFINE new == EnterMatch(startpos, range)
<1>1. new.p = 1 /\ new.stack = <<>> /\ {"pc", "p", "stack"} \subseteq DOMAIN new
  BY DEF EnterMatch
<1> HIDE DEF new
<1>2. 1 \in at
  BY DEF Placing, Good, Shape
<1>3. IsSeq(new.stack) /\ Len(new.stack) = 0
  BY <1>1, SeqTuple
<1>4. Follows(Code, at, new)
  BY <1>1, <1>2, <1>3 DEF Follows, Saving, Placed
<1>5. QED BY <1>4 DEF new

LEMMA TryHereTracks ==
  ASSUME NEW at, Tracing(at), TryHere
  PROVE  Tracked(at)
<1>1. Placing(Code, at)
  BY DEF Tracing
<1>2. \/ Step(Advance(m)) \/ Step(Done(-1))
      \/ \E startpos, range : Step(EnterMatch(startpos, range))
  BY Zenon DEF TryHere
<1>3. CASE Step(Advance(m)) \/ Step(Done(-1))
  BY <1>3, AdvanceFollows, StepTracks
<1>4. ASSUME NEW startpos, NEW range, Step(EnterMatch(startpos, range))
      PROVE  Tracked(at)
  BY <1>1, <1>4, EnterFollows, StepTracks
<1>5. QED BY <1>2, <1>3, <1>4

LEMMA ResultTracks ==
  ASSUME NEW at, Tracing(at), Result
  PROVE  Tracked(at)
<1> DEFINE found == [pc |-> "done", ret |-> m.startpos, whole |-> <<m.startpos, m.d>>,
                     regs |-> Registers]
<1>1. m.pc \in {"accept", "reject", "overflow"}
  BY DEF Result
<1>2. Step(CASE m.pc = "accept" -> found
             [] m.pc = "overflow" -> Done(-2)
             [] OTHER -> Advance(m))
  BY DEF Result
<1>3. found.pc = "done"
  OBVIOUS
<1> HIDE DEF found
<1>4. Step(found) \/ Step(Done(-2)) \/ Step(Advance(m))
  BY <1>1, <1>2
<1>5. found.pc \notin {"match", "fail"}
  BY <1>3
<1>6. Follows(Code, at, found)
  BY <1>5, StoppedFollows
<1>7. QED BY <1>4, <1>6, AdvanceFollows, StepTracks

LEMMA BacktrackTracks ==
  ASSUME NEW at, Tracing(at), Backtrack
  PROVE  Tracked(at)
<1>1. Saving(at, m) /\ m.pc = "fail"
  BY DEF Tracing, Follows, Walking, Backtrack
<1> DEFINE back == Restored(m)
<1>2. \/ m.stack = <<>> /\ Step(Best(m))
      \/ m.stack # <<>> /\ Step(back)
      \/ m.stack # <<>> /\ back.p # 0 /\ Step([back EXCEPT !.pc = "match"])
  BY Zenon DEF Backtrack
<1>3. CASE Step(Best(m))
  BY <1>1, <1>3, BestFollows, StepTracks
<1>4. ASSUME m.stack # <<>>
      PROVE  /\ DOMAIN back = DOMAIN m /\ back.pc = "fail" /\ back.p \in at \cup {0}
             /\ Saving(at, back)
  <2>1. /\ IsSeq(Front(m.stack)) /\ Last(m.stack).pat \in at \cup {0}
        /\ \A k \in 1..Len(Front(m.stack)) : Front(m.stack)[k].pat \in at \cup {0}
    BY <1>1, <1>4, StackPopped
  <2>2. {"pc", "p", "stack"} \subseteq DOMAIN m
    BY <1>1 DEF Saving
  <2>3. /\ DOMAIN back = DOMAIN m /\ back.pc = m.pc /\ back.p = Last(m.stack).pat
        /\ back.stack = Front(m.stack)
    <3>1. \E d, low, high, start, end, info :
            back = [m EXCEPT !.stack = Front(@), !.p = Last(m.stack).pat, !.d = d, !.low = low,
                             !.high = high, !.start = start, !.end = end, !.info = info]
      BY Zenon DEF Restored
    <3> HIDE DEF back
    <3>2. QED BY <2>2, <3>1
  <2> HIDE DEF back
  <2>4. QED BY <1>1, <2>1, <2>2, <2>3 DEF Saving
<1> HIDE DEF back
<1>5. CASE m.stack # <<>> /\ Step(back)
  <2>1. Follows(Code, at, back)
    BY <1>4, <1>5 DEF Follows
  <2>2. QED BY <1>5, <2>1, StepTracks
<1>6. CASE m.stack # <<>> /\ back.p # 0 /\ Step([back EXCEPT !.pc = "match"])
  <2> DEFINE new == [back EXCEPT !.pc = "match"]
  <2>1. /\ DOMAIN back = DOMAIN m /\ back.p \in at /\ Saving(at, back)
    BY <1>4, <1>6
  <2>2. DOMAIN new = DOMAIN back /\ new.p = back.p /\ new.stack = back.stack
    BY <2>1 DEF Saving
  <2> HIDE DEF new
  <2>3. Placed(Code, at, new.p)
    BY <2>1, <2>2 DEF Placed
  <2>4. Follows(Code, at, new)
    BY <2>1, <2>2, <2>3, StackKept
  <2>5. QED BY <1>6, <2>4, StepTracks DEF new
<1>7. QED BY <1>2, <1>3, <1>5, <1>6

LEMMA PatternEndTracks ==
  ASSUME NEW at, Tracing(at), PatternEnd
  PROVE  Tracked(at)
<1>1. Saving(at, m) /\ {"pc", "p", "stack"} \subseteq DOMAIN m
  BY DEF Tracing, Follows, Walking, PatternEnd, Saving
<1>2. \/ Step([m EXCEPT !.pc = "accept"])
      \/ \E best : Step([m EXCEPT !.pc = "fail", !.best = best])
      \/ Step(Best(m))
  BY Zenon DEF PatternEnd
<1>3. CASE Step([m EXCEPT !.pc = "accept"])
  <2> DEFINE new == [m EXCEPT !.pc = "accept"]
  <2>1. new.pc \notin {"match", "fail"}
    BY <1>1
  <2> HIDE DEF new
  <2>2. Follows(Code, at, new)
    BY <2>1, StoppedFollows
  <2>3. QED BY <1>3, <2>2, StepTracks DEF new
<1>4. ASSUME NEW best, Step([m EXCEPT !.pc = "fail", !.best = best])
      PROVE  Tracked(at)
  <2> DEFINE new == [m EXCEPT !.pc = "fail", !.best = best]
  <2>1. DOMAIN new = DOMAIN m /\ new.stack = m.stack /\ new.pc = "fail"
    BY <1>1
  <2> HIDE DEF new
  <2>2. Follows(Code, at, new)
    BY <1>1, <2>1, StackKept
  <2>3. QED BY <1>4, <2>2, StepTracks DEF new
<1>5. CASE Step(Best(m))
  BY <1>1, <1>5, BestFollows, StepTracks
<1>6. QED BY <1>2, <1>3, <1>4, <1>5

LEMMA NoNoOp ==
  /\ op.no_op \notin {op.exactn} /\ op.no_op \notin {op.start_memory}
  /\ op.no_op \notin {op.anychar, op.charset, op.charset_not, op.wordchar, op.notwordchar}
  /\ op.no_op \notin {op.stop_memory} /\ op.no_op \notin {op.duplicate}
  /\ op.no_op \notin {op.on_failure_jump} /\ op.no_op \notin {op.on_failure_keep_string_jump}
  /\ op.no_op \notin {op.dummy_failure_jump} /\ op.no_op \notin {op.push_dummy_failure}
  /\ op.no_op \notin {op.jump, op.jump_past_alt} /\ op.no_op \notin {op.pop_failure_jump}
  /\ op.no_op \notin {op.maybe_pop_jump} /\ op.no_op \notin {op.succeed_n}
  /\ op.no_op \notin {op.jump_n} /\ op.no_op \notin {op.set_number_at}
BY OpValues

LEMMA ExactNTracks ==
  ASSUME NEW at, Tracing(at), ExactN
  PROVE  Tracked(at)
<1>1. \/ \E n : Step(Matched(n))
      \/ \E d : Step(Fail(d))
  BY Zenon DEF ExactN
<1>2. Saving(at, m) /\ Placed(Code, at, Next1)
  <2> DEFINE ops == {op.exactn}
  <2>1. At(ops) /\ op.no_op \notin ops
    BY NoNoOp DEF ExactN
  <2> HIDE DEF ops
  <2>2. QED BY <2>1, HereIs
<1>3. QED BY <1>1, <1>2, MatchedFollows, Fails, StepTracks

LEMMA OneCharTracks ==
  ASSUME NEW at, Tracing(at), OneChar
  PROVE  Tracked(at)
<1>1. \/ Step(Matched(1)) \/ Step(Fail(m.d))
  BY Zenon DEF OneChar
<1>2. Saving(at, m) /\ Placed(Code, at, Next1)
  <2> DEFINE ops == {op.anychar, op.charset, op.charset_not, op.wordchar, op.notwordchar}
  <2>1. At(ops) /\ op.no_op \notin ops
    BY NoNoOp DEF OneChar
  <2> HIDE DEF ops
  <2>2. QED BY <2>1, HereIs
<1>3. Follows(Code, at, Matched(1)) /\ Follows(Code, at, Fail(m.d))
  BY <1>2, MatchedFollows, Fails
<1>4. QED BY <1>1, <1>3, StepTracks

LEMMA AssertionTracks ==
  ASSUME NEW at, Tracing(at), Assertion
  PROVE  Tracked(at)
<1>1. \/ Step([m EXCEPT !.p = Next1]) \/ Step(Fail(m.d))
  BY Zenon DEF Assertion
<1>2. /\ Placing(Code, at) /\ Saving(at, m) /\ Placed(Code, at, m.p)
      /\ m.p <= Len(Code)
  BY DEF Assertion, At, Tracing, Follows, Walking
<1>3. m.p # Len(Code) + 1
  <2>1. Len(Code) \in Nat
    BY <1>2, WholeCode DEF Placing
  <2> DEFINE p == m.p
             n == Len(Code)
  <2>2. p <= n /\ n \in Nat /\ ~(n + 1 <= n)
    BY <1>2, <2>1
  <2> HIDE DEF p, n
  <2>3. p # n + 1
    BY <2>2, Zenon
  <2>4. QED BY <2>3 DEF p, n
<1>4. Placed(Code, at, Next1)
  BY <1>2, <1>3, NextPlaced DEF Next1
<1>5. Follows(Code, at, [m EXCEPT !.p = Next1]) /\ Follows(Code, at, Fail(m.d))
  BY <1>2, <1>4, MovesTo, Fails
<1>6. QED BY <1>1, <1>5, StepTracks

LEMMA StartMemoryTracks ==
  ASSUME NEW at, Tracing(at), StartMemory
  PROVE  Tracked(at)
<1>1. Saving(at, m) /\ Placed(Code, at, Next1)
  <2> DEFINE ops == {op.start_memory}
  <2>1. At(ops) /\ op.no_op \notin ops
    BY NoNoOp DEF StartMemory
  <2> HIDE DEF ops
  <2>2. QED BY <2>1, HereIs
<1>2. {"pc", "p", "stack"} \subseteq DOMAIN m
  BY <1>1 DEF Saving
<1>3. \E start, high, oldstart, low, info :
        Step([m EXCEPT !.p = Next1, !.start = start, !.high = high, !.oldstart = oldstart,
                       !.low = low, !.info = info])
  <2> DEFINE r    == Code[m.p + 1]
             g    == NullOf(Code, m.p + 1, m.info)
             null == IF m.info[r].null = "unset" THEN SetNull(g.info, r, g.ok) ELSE m.info
             start == [m.start EXCEPT ![r] = m.d]
             oldstart == [m.oldstart EXCEPT ![r] = IF Nullable(null, r) /\ m.start[r] = UNSET
                                                   THEN m.d ELSE m.start[r]]
             low == IF m.low = NO_LOWEST_ACTIVE_REG THEN r ELSE m.low
             info == [null EXCEPT ![r].active = TRUE, ![r].matched = FALSE]
  <2>1. Step([m EXCEPT !.p = Next1, !.start = start, !.high = r, !.oldstart = oldstart,
                       !.low = low, !.info = info])
    BY DEF StartMemory
  <2> HIDE DEF start, oldstart, low, info, r
  <2>2. QED BY <2>1, Zenon
<1>4. ASSUME NEW start, NEW high, NEW oldstart, NEW low, NEW info,
             Step([m EXCEPT !.p = Next1, !.start = start, !.high = high, !.oldstart = oldstart,
                            !.low = low, !.info = info])
      PROVE  Tracked(at)
  <2> DEFINE p == Next1
             new == [m EXCEPT !.p = p, !.start = start, !.high = high, !.oldstart = oldstart,
                              !.low = low, !.info = info]
  <2>1. Step(new)
    BY <1>4
  <2> HIDE DEF p
  <2>2. DOMAIN new = DOMAIN m /\ new.stack = m.stack /\ new.p = p
    BY <1>2
  <2> HIDE DEF new
  <2>3. Follows(Code, at, new)
    BY <1>1, <2>2, GoesTo DEF p
  <2>4. QED BY <2>1, <2>3, StepTracks
<1>5. QED BY <1>3, <1>4

LEMMA StopMemoryTracks ==
  ASSUME NEW at, Tracing(at), ShortCode, StopMemory
  PROVE  Tracked(at)
<1>1. /\ Placing(Code, at) /\ Saving(at, m) /\ m.pc = "match"
      /\ Next1 \in at /\ Placed(Code, at, Next1)
  <2> DEFINE ops == {op.stop_memory}
  <2>1. At(ops) /\ op.no_op \notin ops
    BY NoNoOp DEF StopMemory
  <2> HIDE DEF ops
  <2>2. QED BY <2>1, HereIs
<1>2. {"pc", "p", "stack"} \subseteq DOMAIN m
  BY <1>1 DEF Saving
<1> DEFINE r      == Code[m.p + 1]
           inner  == Code[m.p + 2]
           others == {q \in 1..(r - 1) : m.info[q].active}
           none   == m.low = m.high \/ others = {}
           closed == [m EXCEPT
                        !.end[r] = m.d, !.info[r].active = FALSE,
                        !.oldend[r] = IF Nullable(m.info, r) /\ m.end[r] = UNSET THEN m.d
                                      ELSE m.end[r],
                        !.low  = IF none THEN NO_LOWEST_ACTIVE_REG ELSE @,
                        !.high = IF none THEN NO_HIGHEST_ACTIVE_REG ELSE Max(others)]
           empty  == ~m.info[r].matched \/ Code[m.p - 2] = op.start_memory
           back   == IF ~m.info[r].ever THEN {} ELSE r..(r + inner - 1)
           left   == [closed EXCEPT
                        !.start = [q \in Groups |-> IF q \in back THEN m.oldstart[q] ELSE @[q]],
                        !.end   = [q \in Groups |->
                                     IF q \in back /\ IntGe(closed.oldend[q], m.oldstart[q])
                                     THEN closed.oldend[q] ELSE @[q]],
                        !.info[r].ever = FALSE]
           pushed == Push(left, LoopExit(r), m.d)
           failed == [pushed EXCEPT !.pc = IF @ = "overflow" THEN @ ELSE "fail"]
           on     == [closed EXCEPT !.p = Next1]
<1>3. Step(IF empty /\ Next1 <= Len(Code) /\ LoopExit(r) # 0 THEN failed ELSE on)
  BY DEF StopMemory
<1>4. /\ DOMAIN closed = DOMAIN m /\ closed.stack = m.stack /\ closed.pc = m.pc
  <2> HIDE DEF r, none, others
  <2>1. QED BY <1>2
<1>5. /\ DOMAIN left = DOMAIN m /\ left.stack = m.stack /\ left.pc = "match"
  <2>1. DOMAIN left = DOMAIN closed /\ left.stack = closed.stack /\ left.pc = closed.pc
    <3> HIDE DEF closed, r, back
    <3>1. QED BY <1>2, <1>4
  <2> HIDE DEF left, closed
  <2>2. QED BY <1>1, <1>4, <2>1
<1> HIDE DEF closed, left, empty, r
<1>6. (Next1 <= Len(Code) /\ LoopExit(r) # 0 /\ Step(failed)) \/ Step(on)
  <2> HIDE DEF failed, on
  <2>1. QED BY <1>3
<1>7. CASE Step(on)
  <2> DEFINE p == Next1
             new == [closed EXCEPT !.p = p]
  <2> HIDE DEF p
  <2>1. DOMAIN new = DOMAIN m /\ new.stack = m.stack /\ new.p = p
    BY <1>2, <1>4
  <2> HIDE DEF new
  <2>2. Follows(Code, at, new)
    BY <1>1, <2>1, GoesTo DEF p
  <2>3. QED BY <1>7, <2>2, StepTracks DEF new, p
<1>8. CASE /\ Next1 <= Len(Code) /\ LoopExit(r) # 0
           /\ Step(failed)
  <2> DEFINE new == [pushed EXCEPT !.pc = IF @ = "overflow" THEN @ ELSE "fail"]
  <2>1. Next1 # Len(Code) + 1
    <3>1. Len(Code) \in Nat
      BY <1>1, WholeCode DEF Placing
    <3> DEFINE p == Next1
               n == Len(Code)
    <3>2. p <= n /\ n \in Nat /\ ~(n + 1 <= n)
      BY <1>8, <3>1
    <3> HIDE DEF p, n
    <3>3. p # n + 1
      BY <3>2, Zenon
    <3>4. QED BY <3>3 DEF p, n
  <2>2. LoopExit(r) \in at \cup {0}
    BY <1>1, <2>1, ExitPlaced
  <2>3. pushed.pc = "overflow" \/ Saving(at, pushed)
    <3> DEFINE pat == LoopExit(r)
               str == m.d
               next == Next1
    <3>1. pat \in at \cup {0} /\ Placed(Code, at, next) /\ pushed = Push(left, pat, str)
      BY <1>1, <1>5, <2>2
    <3> HIDE DEF pat, str, next
    <3>2. Push(left, pat, str).pc = "overflow" \/ Saving(at, Push(left, pat, str))
      BY <1>1, <1>5, <3>1, PushedFollows
    <3>3. QED BY <3>1, <3>2
  <2>4. pushed.pc = "overflow" => Follows(Code, at, new)
    <3> SUFFICES ASSUME pushed.pc = "overflow"
                 PROVE  Follows(Code, at, new)
      OBVIOUS
    <3>1. new = pushed \/ new.pc = "overflow"
      OBVIOUS
    <3>2. new.pc \notin {"match", "fail"}
      BY <3>1
    <3> HIDE DEF new
    <3>3. QED BY <3>2, StoppedFollows
  <2>5. ASSUME Saving(at, pushed)
        PROVE  Follows(Code, at, new)
    <3>1. {"pc", "p", "stack"} \subseteq DOMAIN pushed
      BY <2>5 DEF Saving
    <3>2. DOMAIN new = DOMAIN pushed /\ new.stack = pushed.stack /\ new.pc \in {"overflow", "fail"}
      BY <3>1
    <3> HIDE DEF new
    <3>3. new.pc # "match"
      BY <3>2
    <3>4. QED BY <2>5, <3>2, <3>3, StackKept
  <2>6. Step(new)
    BY <1>8
  <2> HIDE DEF new
  <2>7. QED BY <2>3, <2>4, <2>5, <2>6, StepTracks
<1>9. QED BY <1>6, <1>7, <1>8

LEMMA BackReferenceTracks ==
  ASSUME NEW at, Tracing(at), BackReference
  PROVE  Tracked(at)
<1>1. Saving(at, m) /\ Placed(Code, at, Next1) /\ m.pc = "match"
  <2> DEFINE ops == {op.duplicate}
  <2>1. At(ops) /\ op.no_op \notin ops
    BY NoNoOp DEF BackReference
  <2> HIDE DEF ops
  <2>2. QED BY <2>1, HereIs
<1>2. {"pc", "p", "stack"} \subseteq DOMAIN m
  BY <1>1 DEF Saving
<1>3. \/ \E d : Step(Fail(d))
      \/ Step([m EXCEPT !.pc = "crashed"])
      \/ \E n : Step([m EXCEPT !.p = Next1, !.d = @ + n])
  BY Zenon DEF BackReference
<1>4. CASE \E d : Step(Fail(d))
  BY <1>1, <1>4, Fails, StepTracks
<1>5. CASE Step([m EXCEPT !.pc = "crashed"])
  <2> DEFINE new == [m EXCEPT !.pc = "crashed"]
  <2>1. new.pc \notin {"match", "fail"}
    BY <1>2
  <2> HIDE DEF new
  <2>2. Follows(Code, at, new)
    BY <2>1, StoppedFollows
  <2>3. QED BY <1>5, <2>2, StepTracks DEF new
<1>6. ASSUME NEW n, Step([m EXCEPT !.p = Next1, !.d = @ + n])
      PROVE  Tracked(at)
  <2> DEFINE p == Next1
             d == m.d + n
             new == [m EXCEPT !.p = p, !.d = d]
  <2>1. Step(new)
    BY <1>6
  <2> HIDE DEF p, d
  <2>2. DOMAIN new = DOMAIN m /\ new.stack = m.stack /\ new.p = p
    BY <1>2
  <2> HIDE DEF new
  <2>3. Follows(Code, at, new)
    BY <1>1, <2>2, GoesTo DEF p
  <2>4. QED BY <2>1, <2>3, StepTracks
<1>7. QED BY <1>3, <1>4, <1>5, <1>6

\* What on_failure_jump and succeed_n do: a failure point, and on at next.
LEMMA OnFailureFollows ==
  ASSUME NEW at, NEW code, NEW code2, Saving(at, m), m.pc = "match", Target(m.p) \in at,
         NEW next, Placed(code2, at, next)
  PROVE  Follows(code2, at, OnFailure(code, m, next))
<1> DEFINE i   == CHOOSE i \in next..End(code) :
                    /\ i = End(code) \/ code[i] # op.no_op
                    /\ \A k \in next..(i - 1) : code[k] = op.no_op
           at1 == IF i > Len(code) \/ code[i] # op.start_memory THEN m
                  ELSE [m EXCEPT !.high = code[i + 1] + code[i + 2],
                                 !.low = IF @ = NO_LOWEST_ACTIVE_REG THEN code[i + 1] ELSE @]
           pat == Target(m.p)
           str == m.d
<1>1. OnFailure(code, m, next) = [Push(at1, pat, str) EXCEPT !.p = next]
  BY DEF OnFailure
<1>2. {"pc", "p", "stack"} \subseteq DOMAIN m
  BY DEF Saving
<1>3. DOMAIN at1 = DOMAIN m /\ at1.stack = m.stack /\ at1.pc = "match"
  <2> HIDE DEF i
  <2>1. QED BY <1>2
<1>4. pat \in at \cup {0}
  OBVIOUS
<1> HIDE DEF at1, pat, str
<1>5. Follows(code2, at, [Push(at1, pat, str) EXCEPT !.p = next])
  BY <1>3, <1>4, PushedFollows
<1>6. QED BY <1>1, <1>5

LEMMA OnFailureJumpTracks ==
  ASSUME NEW at, Tracing(at), OnFailureJump
  PROVE  Tracked(at)
<1>1. /\ Placing(Code, at) /\ Saving(at, m) /\ m.pc = "match" /\ Placed(Code, at, Next1)
      /\ Target(m.p) \in at
  <2> DEFINE ops == {op.on_failure_jump}
  <2>1. At(ops) /\ op.no_op \notin ops /\ \A o \in ops : o \in Jumps \cup Jumps2
    BY NoNoOp DEF OnFailureJump, Jumps
  <2> HIDE DEF ops
  <2>2. QED BY <2>1, HereIs, JumpPlaced
<1>2. Follows(Code, at, OnFailure(Code, m, Next1))
  BY <1>1, OnFailureFollows
<1>3. QED BY <1>2, StepTracks DEF OnFailureJump

\* A failure point at pat, and on at next.
LEMMA PointFollows ==
  ASSUME NEW at, Saving(at, m), m.pc = "match", NEW pat, pat \in at \/ pat = 0, NEW str,
         NEW next, Placed(Code, at, next)
  PROVE  Follows(Code, at, [Push(m, pat, str) EXCEPT !.p = next])
<1>1. pat \in at \cup {0}
  OBVIOUS
<1>2. QED BY <1>1, PushedFollows

LEMMA KeepStringJumpTracks ==
  ASSUME NEW at, Tracing(at), KeepStringJump
  PROVE  Tracked(at)
<1>1. /\ Placing(Code, at) /\ Saving(at, m) /\ m.pc = "match" /\ Placed(Code, at, Next1)
      /\ Target(m.p) \in at
  <2> DEFINE ops == {op.on_failure_keep_string_jump}
  <2>1. At(ops) /\ op.no_op \notin ops /\ \A o \in ops : o \in Jumps \cup Jumps2
    BY NoNoOp DEF KeepStringJump, Jumps
  <2> HIDE DEF ops
  <2>2. QED BY <2>1, HereIs, JumpPlaced
<1>2. Follows(Code, at, [Push(m, Target(m.p), KEEP) EXCEPT !.p = Next1])
  BY <1>1, PointFollows
<1>3. QED BY <1>2, StepTracks DEF KeepStringJump

LEMMA DummyFailureTracks ==
  ASSUME NEW at, Tracing(at), DummyFailure
  PROVE  Tracked(at)
<1> DEFINE none == 0
<1>1. CASE At({op.dummy_failure_jump}) /\ Step([Push(m, 0, KEEP) EXCEPT !.p = Target(m.p)])
  <2> DEFINE ops == {op.dummy_failure_jump}
  <2>1. At(ops) /\ op.no_op \notin ops /\ \A o \in ops : o \in Jumps \cup Jumps2
    BY <1>1, NoNoOp DEF Jumps
  <2> HIDE DEF ops
  <2>2. Saving(at, m) /\ m.pc = "match" /\ Target(m.p) \in at
    BY <2>1, HereIs, JumpPlaced
  <2>3. Placed(Code, at, Target(m.p)) /\ none = 0 /\ Step([Push(m, none, KEEP) EXCEPT !.p = Target(m.p)])
    BY <1>1, <2>2 DEF Placed
  <2> HIDE DEF none
  <2>4. Follows(Code, at, [Push(m, none, KEEP) EXCEPT !.p = Target(m.p)])
    BY <2>2, <2>3, PointFollows
  <2>5. QED BY <2>3, <2>4, StepTracks
<1>2. CASE At({op.push_dummy_failure}) /\ Step([Push(m, 0, KEEP) EXCEPT !.p = Next1])
  <2> DEFINE ops == {op.push_dummy_failure}
  <2>1. At(ops) /\ op.no_op \notin ops
    BY <1>2, NoNoOp
  <2> HIDE DEF ops
  <2>2. Saving(at, m) /\ m.pc = "match" /\ Placed(Code, at, Next1)
    BY <2>1, HereIs
  <2>3. none = 0 /\ Step([Push(m, none, KEEP) EXCEPT !.p = Next1])
    BY <1>2
  <2> HIDE DEF none
  <2>4. Follows(Code, at, [Push(m, none, KEEP) EXCEPT !.p = Next1])
    BY <2>2, <2>3, PointFollows
  <2>5. QED BY <2>3, <2>4, StepTracks
<1>3. QED BY <1>1, <1>2 DEF DummyFailure

LEMMA JumpTracks ==
  ASSUME NEW at, Tracing(at), Jump
  PROVE  Tracked(at)
<1> DEFINE ops == {op.jump, op.jump_past_alt}
<1>1. At(ops) /\ op.no_op \notin ops /\ \A o \in ops : o \in Jumps \cup Jumps2
  BY NoNoOp DEF Jump, Jumps
<1> HIDE DEF ops
<1>2. Saving(at, m) /\ Target(m.p) \in at
  BY <1>1, HereIs, JumpPlaced
<1>3. Follows(Code, at, [m EXCEPT !.p = Target(m.p)])
  BY <1>2, MovesTo DEF Placed
<1>4. QED BY <1>3, StepTracks DEF Jump

\* The last failure point is thrown away, if there is one.
LEMMA DroppedFollows ==
  ASSUME NEW at, NEW code, Saving(at, m), NEW p, Placed(code, at, p)
  PROVE  Follows(code, at, [Dropped(m) EXCEPT !.p = p])
<1> DEFINE rest == Dropped(m)
           new == [rest EXCEPT !.p = p]
<1>1. {"pc", "p", "stack"} \subseteq DOMAIN m
  BY DEF Saving
<1>2. CASE m.stack = <<>>
  <2>1. rest = [m EXCEPT !.pc = "crashed"]
    BY <1>2 DEF Dropped
  <2> HIDE DEF rest
  <2>2. new.pc = "crashed"
    BY <1>1, <2>1
  <2> HIDE DEF new
  <2>3. new.pc \notin {"match", "fail"}
    BY <2>2
  <2>4. Follows(code, at, new)
    BY <2>3, StoppedFollows
  <2>5. QED BY <2>4 DEF new, rest
<1>3. CASE m.stack # <<>>
  <2> DEFINE s == Front(m.stack)
  <2>1. rest = [m EXCEPT !.stack = s]
    BY <1>3 DEF Dropped
  <2>2. IsSeq(s) /\ \A k \in 1..Len(s) : s[k].pat \in at \cup {0}
    BY <1>3, StackPopped
  <2> HIDE DEF rest, s
  <2>3. DOMAIN new = DOMAIN m /\ new.stack = s /\ new.p = p
    BY <1>1, <2>1
  <2> HIDE DEF new
  <2>4. Follows(code, at, new)
    BY <1>1, <2>2, <2>3 DEF Follows, Saving
  <2>5. QED BY <2>4 DEF new, rest
<1>4. QED BY <1>2, <1>3

LEMMA PopFailureJumpTracks ==
  ASSUME NEW at, Tracing(at), PopFailureJump
  PROVE  Tracked(at)
<1> DEFINE ops == {op.pop_failure_jump}
<1>1. At(ops) /\ op.no_op \notin ops /\ \A o \in ops : o \in Jumps \cup Jumps2
  BY NoNoOp DEF PopFailureJump, Jumps
<1> HIDE DEF ops
<1>2. Saving(at, m) /\ Target(m.p) \in at
  BY <1>1, HereIs, JumpPlaced
<1>3. Follows(Code, at, [Dropped(m) EXCEPT !.p = Target(m.p)])
  BY <1>2, DroppedFollows DEF Placed
<1>4. QED BY <1>3, StepTracks DEF PopFailureJump

LEMMA MaybePopJumpTracks ==
  ASSUME NEW at, Tracing(at), DOMAIN bufp = BufferFields, MaybePopJump
  PROVE  Tracked(at)
<1> DEFINE ops == {op.maybe_pop_jump}
           Renamed(o) == [Code EXCEPT ![m.p] = o]
<1>1. At(ops) /\ op.no_op \notin ops /\ \A o \in ops : o \in Jumps
  BY NoNoOp DEF MaybePopJump, Jumps
<1> HIDE DEF ops
<1>2. /\ Placing(Code, at) /\ Saving(at, m) /\ m.p \in at /\ m.p # Len(Code) + 1
      /\ Code[m.p] \in Jumps
  BY <1>1, HereIs
<1>3. Target(m.p) \in at
  BY <1>2, JumpPlaced
<1>4. op.pop_failure_jump \in Jumps /\ op.jump \in Jumps
  BY DEF Jumps
<1>5. ASSUME NEW o \in Jumps
      PROVE  Placing(Renamed(o), at) /\ Len(Renamed(o)) = Len(Code)
  BY <1>2, JumpRenamed
<1>6. \/ Rewrite(Renamed(op.pop_failure_jump), [Dropped(m) EXCEPT !.p = Target(m.p)])
      \/ Rewrite(Renamed(op.jump), [m EXCEPT !.p = Target(m.p)])
  BY Zenon DEF MaybePopJump
<1> HIDE DEF Renamed
<1>7. \A code : Placed(code, at, Target(m.p))
  BY <1>3 DEF Placed
<1>8. \A code : /\ Follows(code, at, [Dropped(m) EXCEPT !.p = Target(m.p)])
                /\ Follows(code, at, [m EXCEPT !.p = Target(m.p)])
  BY <1>2, <1>7, DroppedFollows, MovesTo
<1>9. QED BY <1>4, <1>5, <1>6, <1>8, RewriteTracks

-----------------------------------------------------------------------------
\* The two bytes of a number are bytes, and so are two no_ops.
LEMMA TwoBytes ==
  ASSUME NEW n \in Int, NEW bytes, bytes = NumberBytes(n) \/ bytes = <<op.no_op, op.no_op>>
  PROVE  bytes \in Seq(Cell) /\ Len(bytes) = 2 /\ \A k \in 1..Len(bytes) : bytes[k] # Hole
<1>1. \A v \in 0..255 : v \in Cell /\ v # Hole
  BY DEF Cell, Hole
<1>2. \E x, y \in 0..255 : bytes = <<x, y>>
  <2>1. CASE bytes = NumberBytes(n)
    <3> DEFINE x == n % 256
               y == (n \div 256) % 256
    <3>1. x \in 0..255 /\ y \in 0..255
      BY NumberIsBytes
    <3>2. bytes = <<x, y>>
      BY <2>1 DEF NumberBytes
    <3> HIDE DEF x, y
    <3>3. QED BY <3>1, <3>2
  <2>2. CASE bytes = <<op.no_op, op.no_op>>
    BY <2>2, OpValues
  <2>3. QED BY <2>1, <2>2
<1>3. PICK x \in 0..255, y \in 0..255 : bytes = <<x, y>>
  BY <1>2
<1>4. x \in Cell /\ y \in Cell /\ x # Hole /\ y # Hole
  BY <1>1
<1>5. bytes \in Seq(Cell) /\ Len(bytes) = 2 /\ bytes[1] = x /\ bytes[2] = y
  BY <1>3, <1>4
<1>6. QED BY <1>4, <1>5

\* The count of a counter, or of a set_number_at.
LEMMA CountIsInt ==
  ASSUME NEW at, Placing(Code, at), m.p \in at, m.p # Len(Code) + 1,
         Code[m.p] \in Jumps2 \cup {op.set_number_at}
  PROVE  Count \in Int
<1> DEFINE p == m.p
<1>1. /\ Len(Code) \in Nat /\ p \in 1..Len(Code) /\ p + Size(Code, p) <= Len(Code) + 1
      /\ \A k \in 1..Len(Code) : Code[k] \in 0..255
  BY Settled, WholeCode DEF Placing
<1>2. Size(Code, p) = 5
  BY SizeOfOpcode
<1> HIDE DEF p
<1>3. p + 3 \in 1..Len(Code) /\ p + 4 \in 1..Len(Code) /\ (p + 3) + 1 = p + 4
  BY <1>1, <1>2
<1>4. Code[p + 3] \in Cell /\ Code[(p + 3) + 1] \in Cell
  <2>1. \A v \in 0..255 : v \in Cell
    BY DEF Cell
  <2>2. QED BY <1>1, <1>3, <2>1
<1>5. Number(Code, p + 3) \in Int
  BY <1>4, NumberIsInt
<1>6. QED BY <1>5 DEF Count, p

LEMMA CountedPlaces ==
  ASSUME NEW at, Placing(Code, at), m.p \in at, m.p # Len(Code) + 1, Code[m.p] \in Jumps2
  PROVE  Placing(Counted, at) /\ Len(Counted) = Len(Code)
<1> DEFINE n == Count - 1
           bytes == NumberBytes(n)
           p == m.p
           loc == p + 3
<1>1. Count \in Int
  <2>1. Code[m.p] \in Jumps2 \cup {op.set_number_at}
    OBVIOUS
  <2>2. QED BY <2>1, CountIsInt
<1>2. n \in Int
  <2> DEFINE c == Count
  <2>1. c \in Int
    BY <1>1
  <2> HIDE DEF c
  <2>2. c - 1 \in Int
    BY <2>1
  <2>3. QED BY <2>2 DEF c
<1> HIDE DEF n
<1>3. bytes \in Seq(Cell) /\ Len(bytes) = 2 /\ \A k \in 1..Len(bytes) : bytes[k] # Hole
  BY <1>2, TwoBytes
<1>4. Counted = Put(Code, loc, bytes) /\ loc = p + 3
  BY DEF Counted, n
<1>5. p \in at /\ p # Len(Code) + 1 /\ Code[p] \in Jumps2
  OBVIOUS
<1> HIDE DEF bytes, loc, p
<1>6. QED BY <1>3, <1>4, <1>5, CountRewritten

LEMMA SucceedNTracks ==
  ASSUME NEW at, Tracing(at), DOMAIN bufp = BufferFields, SucceedN
  PROVE  Tracked(at)
<1> DEFINE ops == {op.succeed_n}
           bytes == <<op.no_op, op.no_op>>
           loc == m.p + 3
           code == Put(Code, loc, bytes)
<1>1. At(ops) /\ op.no_op \notin ops /\ \A o \in ops : o = op.succeed_n
  BY NoNoOp DEF SucceedN
<1> HIDE DEF ops
<1>2. /\ Placing(Code, at) /\ Saving(at, m) /\ m.p \in at /\ m.p # Len(Code) + 1
      /\ m.pc = "match" /\ Code[m.p] = op.succeed_n /\ Next1 \in at
  BY <1>1, HereIs
<1>3. Code[m.p] \in Jumps2 /\ Code[m.p] \in Jumps \cup Jumps2
  BY <1>2 DEF Jumps2
<1>4. \/ Rewrite(Counted, [m EXCEPT !.p = Next1])
      \/ Rewrite(code, OnFailure(code, m, loc))
  BY Zenon DEF SucceedN
<1>5. CASE Rewrite(Counted, [m EXCEPT !.p = Next1])
  <2>1. Placing(Counted, at) /\ Len(Counted) = Len(Code)
    BY <1>2, <1>3, CountedPlaces
  <2>2. Follows(Counted, at, [m EXCEPT !.p = Next1])
    BY <1>2, MovesTo DEF Placed
  <2>3. QED BY <1>5, <2>1, <2>2, RewriteTracks
<1>6. CASE Rewrite(code, OnFailure(code, m, loc))
  <2>1. bytes \in Seq(Cell) /\ Len(bytes) = 2 /\ \A k \in 1..Len(bytes) : bytes[k] # Hole
    <3> DEFINE n == 0
    <3>1. n \in Int /\ bytes = <<op.no_op, op.no_op>>
      OBVIOUS
    <3> HIDE DEF n, bytes
    <3>2. QED BY <3>1, TwoBytes
  <2> DEFINE p == m.p
  <2>2. /\ p \in at /\ p # Len(Code) + 1 /\ Code[p] \in Jumps2 /\ code = Put(Code, loc, bytes)
        /\ loc = p + 3 /\ bytes[1] = op.no_op /\ bytes[2] = op.no_op
    BY <1>2, <1>3
  <2> HIDE DEF bytes, code, loc, p
  <2>3. /\ Placing(code, at) /\ Len(code) = Len(Code)
        /\ code[p + 3] = bytes[1] /\ code[p + 4] = bytes[2]
        /\ \A k \in 1..Len(Code) : k # p + 3 /\ k # p + 4 => code[k] = Code[k]
    <3>1. Placing(Code, at)
      BY <1>2
    <3>2. QED BY <2>1, <2>2, <3>1, CountRewritten
  <2>4. p \in 1..Len(Code) /\ p # p + 3 /\ p # p + 4
    <3>1. p \in 1..Len(Code) /\ Len(Code) \in Nat
      BY <1>2, <2>2, Settled
    <3>2. QED BY <3>1
  <2>5. code[p] = op.succeed_n
    <3>1. code[p] = Code[p]
      BY <2>3, <2>4
    <3>2. QED BY <1>2, <3>1 DEF p
  <2>6. Idling(code, at, loc)
    BY <2>2, <2>3, <2>5 DEF Idling
  <2>7. Placed(code, at, loc) /\ Target(m.p) \in at
    BY <1>2, <1>3, <2>6, JumpPlaced DEF Placed
  <2>8. Follows(code, at, OnFailure(code, m, loc))
    BY <1>2, <2>7, OnFailureFollows
  <2>9. QED BY <1>6, <2>3, <2>8, RewriteTracks
<1>7. QED BY <1>4, <1>5, <1>6

LEMMA JumpNTracks ==
  ASSUME NEW at, Tracing(at), DOMAIN bufp = BufferFields, JumpN
  PROVE  Tracked(at)
<1> DEFINE ops == {op.jump_n}
<1>1. At(ops) /\ op.no_op \notin ops /\ \A o \in ops : o \in Jumps2
  BY NoNoOp DEF JumpN, Jumps2
<1> HIDE DEF ops
<1>2. /\ Placing(Code, at) /\ Saving(at, m) /\ m.p \in at /\ m.p # Len(Code) + 1
      /\ Code[m.p] \in Jumps2 /\ Next1 \in at
  BY <1>1, HereIs
<1>3. Code[m.p] \in Jumps \cup Jumps2
  BY <1>2
<1>4. \/ Rewrite(Counted, [m EXCEPT !.p = Target(m.p)])
      \/ Step([m EXCEPT !.p = Next1])
  BY Zenon DEF JumpN
<1>5. CASE Rewrite(Counted, [m EXCEPT !.p = Target(m.p)])
  <2>1. Placing(Counted, at) /\ Len(Counted) = Len(Code)
    BY <1>2, CountedPlaces
  <2>2. Target(m.p) \in at
    BY <1>2, <1>3, JumpPlaced
  <2>3. Follows(Counted, at, [m EXCEPT !.p = Target(m.p)])
    BY <1>2, <2>2, MovesTo DEF Placed
  <2>4. QED BY <1>5, <2>1, <2>3, RewriteTracks
<1>6. CASE Step([m EXCEPT !.p = Next1])
  <2>1. Follows(Code, at, [m EXCEPT !.p = Next1])
    BY <1>2, MovesTo DEF Placed
  <2>2. QED BY <1>6, <2>1, StepTracks
<1>7. QED BY <1>4, <1>5, <1>6

LEMMA SetNumberAtTracks ==
  ASSUME NEW at, Tracing(at), DOMAIN bufp = BufferFields, SetNumberAt
  PROVE  Tracked(at)
<1> DEFINE ops == {op.set_number_at}
           s == Dest(Code, m.p)
           loc == Target(m.p)
           n == Count
           bytes == NumberBytes(n)
           code == Put(Code, loc, bytes)
<1>1. At(ops) /\ op.no_op \notin ops /\ \A o \in ops : o = op.set_number_at
  BY NoNoOp DEF SetNumberAt
<1> HIDE DEF ops
<1>2. /\ Placing(Code, at) /\ Saving(at, m) /\ m.p \in at /\ m.p # Len(Code) + 1
      /\ Code[m.p] = op.set_number_at /\ Next1 \in at
  BY <1>1, HereIs
<1>3. Rewrite(code, [m EXCEPT !.p = Next1])
  BY DEF SetNumberAt
<1>4. Code[m.p] \in Linking
  BY <1>2 DEF Linking
<1>5. Shape(Code, at) /\ Link(Code, at, m.p)
  BY <1>2, WholeCode DEF Placing
<1>6. s \in at /\ s # Len(Code) + 1 /\ Code[s] \in Jumps2
  BY <1>2, <1>4, <1>5 DEF Link
<1>7. loc = s + 3
  <2>1. Number(Code, m.p + 1) \in Int /\ m.p \in Int
    BY <1>2, <1>4, <1>5, Instruction
  <2>2. s = m.p + Number(Code, m.p + 1) + 0
    BY <1>2 DEF Dest
  <2>3. loc = m.p + 3 + Number(Code, m.p + 1)
    BY DEF Target
  <2> DEFINE x == Number(Code, m.p + 1)
             p == m.p
  <2>4. x \in Int /\ p \in Int /\ s = p + x + 0 /\ loc = p + 3 + x
    BY <2>1, <2>2, <2>3
  <2> HIDE DEF x, p, s, loc
  <2>5. QED BY <2>4
<1>8. n \in Int
  <2>1. Code[m.p] \in Jumps2 \cup {op.set_number_at}
    BY <1>2
  <2>2. QED BY <1>2, <2>1, CountIsInt
<1> HIDE DEF n
<1>9. bytes \in Seq(Cell) /\ Len(bytes) = 2 /\ \A k \in 1..Len(bytes) : bytes[k] # Hole
  BY <1>8, TwoBytes
<1>10. code = Put(Code, loc, bytes)
  OBVIOUS
<1> HIDE DEF s, loc, bytes, code
<1>11. Placing(code, at) /\ Len(code) = Len(Code)
  BY <1>2, <1>6, <1>7, <1>9, <1>10, CountRewritten
<1>12. Follows(code, at, [m EXCEPT !.p = Next1])
  BY <1>2, MovesTo DEF Placed
<1>13. QED BY <1>3, <1>11, <1>12, RewriteTracks

LEMMA MatchStepTracks ==
  ASSUME NEW at, Tracing(at), ShortCode, DOMAIN bufp = BufferFields, MatchStep
  PROVE  Tracked(at)
BY TryHereTracks, ResultTracks, BacktrackTracks, PatternEndTracks, ExactNTracks, OneCharTracks,
   AssertionTracks, StartMemoryTracks, StopMemoryTracks, BackReferenceTracks,
   OnFailureJumpTracks, KeepStringJumpTracks, DummyFailureTracks, JumpTracks,
   PopFailureJumpTracks, MaybePopJumpTracks, SucceedNTracks, JumpNTracks, SetNumberAtTracks,
   Zenon DEF MatchStep

-----------------------------------------------------------------------------
(***************************************************************************)
(* The searches: what was compiled stays whole, and the matcher on it.     *)
(***************************************************************************)
FlowInv == m # Idle => Compiled
CodeInv == Compiled /\ ShortCode => \E at : Tracing(at)
FitsInv == bufp.allocated = 0 \/ Fits(Code, cl, bufp.allocated)
SearchInv == FlowInv /\ CodeInv /\ FitsInv

LEMMA IdleFollows ==
  ASSUME NEW code, NEW at
  PROVE  Follows(code, at, Idle)
<1>1. Idle.pc \notin {"match", "fail"}
  BY DEF Idle
<1> DEFINE idle == Idle
<1> HIDE DEF idle
<1>2. idle.pc \notin {"match", "fail"}
  BY <1>1 DEF idle
<1>3. Follows(code, at, idle)
  BY <1>2, StoppedFollows
<1>4. QED BY <1>3 DEF idle

\* Nothing compiled, nothing to follow.
LEMMA NotCompiledSearches ==
  ASSUME m' = Idle, ~Compiled', FitsInv'
  PROVE  SearchInv'
BY DEF SearchInv, FlowInv, CodeInv, Idle

\* The matcher is left, or is where it starts.
LEMMA StoppedSearches ==
  ASSUME SearchInv, m'.pc \notin {"match", "fail"}, Code' = Code, cl' = cl,
         bufp'.allocated = bufp.allocated, m' = Idle \/ Compiled
  PROVE  SearchInv'
<1>1. Compiled' <=> Compiled
  BY DEF Compiled
<1>2. FlowInv'
  BY <1>1 DEF FlowInv, Idle
<1>3. FitsInv'
  BY DEF SearchInv, FitsInv
<1>4. CodeInv'
  <2> SUFFICES ASSUME Compiled', ShortCode'
               PROVE  \E at : Tracing(at)'
    BY DEF CodeInv
  <2>1. Compiled /\ ShortCode
    BY <1>1 DEF ShortCode
  <2>2. PICK at : Tracing(at)
    BY <2>1 DEF SearchInv, CodeInv
  <2> DEFINE new == m'
  <2>3. new.pc \notin {"match", "fail"}
    OBVIOUS
  <2> HIDE DEF new
  <2>4. Follows(Code, at, new)
    BY <2>3, StoppedFollows
  <2>5. Placing(Code, at)
    BY <2>2 DEF Tracing
  <2>6. Tracing(at)'
    BY <2>4, <2>5 DEF Tracing, new
  <2>7. QED BY <2>6
<1>5. QED BY <1>2, <1>3, <1>4 DEF SearchInv

LEMMA SearchInit ==
  ASSUME Init
  PROVE  SearchInv
<1>1. m = Idle /\ cl.ret = "none" /\ bufp.allocated = 0
  BY LocalsFields DEF Init, NoBuffer
<1>2. QED BY <1>1 DEF SearchInv, FlowInv, CodeInv, FitsInv, Compiled

LEMMA CallCompileSearches ==
  ASSUME SafeInv, Fresh, CallCompile
  PROVE  SearchInv'
<1>1. searches = 0 /\ m = Idle
  BY DEF SafeInv, Fresh, NoCall
<1>2. \E tree, buf : Compile(tree, buf)
  BY Zenon DEF CallCompile, RegexMatch, Regcomp, ReComp, ReCompilePattern
<1>3. cl' = [NoLocals("none") EXCEPT !.pc = "pattern", !.p = 1, !.begalt = 1]
      /\ m' = m /\ searches' = searches
  BY <1>2, Zenon DEF Compile, StartCompile
<1>4. cl'.pc = "pattern"
  BY <1>3 DEF NoLocals
<1>5. SafeInv'
  BY CallCompileKeeps
<1>6. FitsInv'
  BY <1>1, <1>3, <1>5 DEF SafeInv, FitsInv
<1>7. QED BY <1>1, <1>3, <1>4, <1>6, NotCompiledSearches DEF Compiled

LEMMA ResetSearches ==
  ASSUME Reset
  PROVE  SearchInv'
<1>1. m' = Idle /\ cl'.ret = "none" /\ bufp'.allocated = 0
  BY LocalsFields DEF Reset, NoBuffer
<1>2. QED BY <1>1, NotCompiledSearches DEF Compiled, FitsInv

\* A compilation ends with whole bytecode, or goes on.
LEMMA CompileRunsSearches ==
  ASSUME SafeInv, WrittenInv, CompileRuns
  PROVE  SearchInv'
<1>1. SafeInv'
  BY CompileRunsKeeps
<1>2. [Next]_regexVars
  BY DEF Next, Run
<1>3. WrittenInv'
  BY <1>2, WrittenNext
<1>4. cl.pc # "returned"
  <2>1. cl.pc \in {"pattern", "list"}
    BY Zenon
       DEF CompileRuns, CompileStep, NormalChar, BegLine, EndLine, AnyChar, SimpleOp, Duplicate,
           BadToken, HandlePlus, HandleOpen, HandleClose, HandleAlt, HandleInterval, ListStart,
           ListChar, ListEscape, ListRange, ListClass, ListBad, ListEnd, EndOfPattern, AtToken,
           InList
  <2>2. QED BY <2>1
<1>5. searches = 0 /\ m = Idle /\ m' = m /\ searches' = searches
  BY <1>4 DEF SafeInv, CompileRuns
<1>6. FitsInv'
  BY <1>1, <1>5 DEF SafeInv, FitsInv
<1>7. CodeInv'
  <2> SUFFICES ASSUME Compiled', ShortCode'
               PROVE  \E at : Tracing(at)'
    BY DEF CodeInv
  <2>1. IsSeq(Code')
    <3>1. Sound /\ CompileStep
      BY <1>4 DEF SafeInv, CompileInv, Sound, CompileRuns
    <3>2. Sound'
      BY <3>1, CompileStepKeeps
    <3>3. QED BY <3>2 DEF Sound, Fits
  <2>2. Short(Code')
    <3> DEFINE n == Len(Code')
    <3>1. n \in Nat /\ n < 3584
      BY <2>1, SeqLen DEF ShortCode
    <3> HIDE DEF n
    <3>2. n <= 32767
      BY <3>1
    <3>3. QED BY <3>2 DEF Short, n
  <2>3. Whole(Code')
    <3>1. WriteInv'
      BY <1>3, <1>5 DEF WrittenInv
    <3>2. Writing(Code', cl')
      BY <2>2, <3>1 DEF WriteInv
    <3>3. cl'.pc = "returned" /\ cl'.ret = "REG_NOERROR"
      BY DEF Compiled
    <3>4. QED BY <3>2, <3>3 DEF Writing
  <2>4. PICK at : Placing(Code', at)
    BY <2>3 DEF Whole, Placing
  <2>5. Follows(Code', at, m')
    BY <1>5, IdleFollows
  <2>6. Tracing(at)'
    BY <2>4, <2>5 DEF Tracing
  <2>7. QED BY <2>6
<1>8. QED BY <1>5, <1>6, <1>7 DEF SearchInv, FlowInv, Idle

LEMMA SearchStartsSearching ==
  ASSUME SafeInv, SearchInv, Compiled, NEW text, NEW startpos, NEW range, NEW eflags,
         Search(text, startpos, range, eflags)
  PROVE  SearchInv'
<1>1. PICK high_half \in BOOLEAN :
        StartSearch(text, startpos, range, "REG_NOTBOL" \in eflags, "REG_NOTEOL" \in eflags,
                    high_half)
  BY DEF Search
<1>2. DOMAIN bufp = BufferFields
  BY BufferHasFields DEF SafeInv, CompileInv
<1>3. \E map, can, acc : bufp' = bufp
        \/ bufp' = [bufp EXCEPT !.map = map, !.can_be_null = can, !.fastmap_accurate = acc]
  BY <1>1, Zenon DEF StartSearch
<1>4. bufp'.buffer = bufp.buffer /\ bufp'.allocated = bufp.allocated
  BY <1>2, <1>3 DEF BufferFields
<1>5. m'.pc \in {"search", "done"}
  <2>1. \/ m' = [pc |-> "done", ret |-> -1]
        \/ \E range2, not_bol, not_eol, half :
             m' = [pc |-> "search", text |-> text, startpos |-> startpos, range |-> range2,
                   not_bol |-> not_bol, not_eol |-> not_eol, high_half |-> half]
    BY <1>1, Zenon DEF StartSearch
  <2>2. QED BY <2>1
<1>6. cl' = cl /\ Code' = Code
  BY <1>4 DEF Search, Code
<1>7. QED BY <1>4, <1>5, <1>6, StoppedSearches

LEMMA CallSearchSearches ==
  ASSUME SafeInv, SearchInv, CallSearch
  PROVE  SearchInv'
<1>1. ASSUME NEW fn, NEW interface, NEW text, NEW startpos, NEW range, NEW eflags,
             Searching(fn, interface, text, startpos, range, eflags)
      PROVE  SearchInv'
  <2>1. /\ call = [NoCall EXCEPT !.interface = interface] /\ cl.ret = "REG_NOERROR"
        /\ Search(text, startpos, range, eflags)
    BY <1>1, Zenon DEF Searching, Ready
  <2>2. call.fn = "none"
    BY <2>1 DEF NoCall
  <2>3. Compiled
    BY <2>1, <2>2 DEF SafeInv, Compiled
  <2>4. QED BY <2>1, <2>3, SearchStartsSearching
<1>2. QED BY <1>1, Zenon DEF CallSearch, Regexec, ReExec, ReSearch

LEMMA SearchRunsSearches ==
  ASSUME SafeInv, SearchInv, SearchRuns, ShortCode
  PROVE  SearchInv'
<1>1. MatchStep /\ m.pc # "idle"
  BY DEF SearchRuns, MatchStep, TryHere, Result, Backtrack, PatternEnd, ExactN, OneChar,
         Assertion, StartMemory, StopMemory, BackReference, OnFailureJump, KeepStringJump,
         DummyFailure, Jump, PopFailureJump, MaybePopJump, SucceedN, JumpN, SetNumberAt, At
<1>2. Compiled
  BY <1>1 DEF SearchInv, FlowInv, Idle
<1>3. PICK at : Tracing(at)
  BY <1>2 DEF SearchInv, CodeInv
<1>4. DOMAIN bufp = BufferFields
  BY BufferHasFields DEF SafeInv, CompileInv
<1>5. Tracked(at)
  BY <1>1, <1>3, <1>4, MatchStepTracks
<1>6. cl' = cl /\ bufp'.allocated = bufp.allocated
  <2>1. \/ \E new : Step(new)
        \/ \E code, new : Rewrite(code, new)
    BY <1>1, Zenon
       DEF MatchStep, TryHere, Result, Backtrack, PatternEnd, ExactN, OneChar,
           Assertion, StartMemory, StopMemory, BackReference, OnFailureJump, KeepStringJump,
           DummyFailure, Jump, PopFailureJump, MaybePopJump, SucceedN, JumpN, SetNumberAt
  <2>2. QED BY <1>4, <2>1 DEF Step, Rewrite, compileVars, BufferFields
<1>7. IsSeq(Code')
  <2>1. Placing(Code', at)
    BY <1>5 DEF Tracked, Tracing
  <2>2. Code' \in Seq(Cell)
    BY <2>1, WholeCode DEF Placing
  <2>3. QED BY <2>2 DEF IsSeq
<1>8. FitsInv'
  BY <1>5, <1>6, <1>7 DEF SearchInv, FitsInv, Fits, Margin, Tracked
<1>9. FlowInv'
  BY <1>2, <1>6 DEF FlowInv, Compiled
<1>10. CodeInv'
  BY <1>5 DEF CodeInv, Tracked
<1>11. QED BY <1>8, <1>9, <1>10 DEF SearchInv

LEMMA SearchNext ==
  ASSUME SafeInv, WrittenInv, SearchInv, ShortCode, [Next]_regexVars
  PROVE  SearchInv'
<1>1. CASE Fresh /\ CallCompile
  BY <1>1, CallCompileSearches
<1>2. CASE CallSearch
  BY <1>2, CallSearchSearches
<1>3. CASE Reset
  BY <1>3, ResetSearches
<1>4. CASE CompileRuns
  BY <1>4, CompileRunsSearches
<1>5. CASE SearchRuns
  BY <1>5, SearchRunsSearches
<1>6. CASE RegexMatchExec
  <2>1. /\ Compiled /\ Search(call.text, 0, Len(call.text), {})
    BY <1>6 DEF RegexMatchExec, Compiling, Compiled
  <2>2. QED BY <2>1, SearchStartsSearching, Zenon
<1>7. CASE SearchReturns
  <2>1. m' = Idle /\ Code' = Code /\ cl' = cl /\ bufp'.allocated = bufp.allocated
    BY <1>7 DEF SearchReturns, compileVars, Code
  <2>2. m'.pc \notin {"match", "fail"}
    BY <2>1 DEF Idle
  <2>3. QED BY <2>1, <2>2, StoppedSearches
<1>8. CASE UNCHANGED <<compileVars, m>>
  <2>1. Code' = Code /\ cl' = cl /\ bufp' = bufp /\ m' = m
    BY <1>8 DEF compileVars, Code
  <2>2. (Compiled' <=> Compiled) /\ (ShortCode' <=> ShortCode)
    BY <2>1 DEF Compiled, ShortCode
  <2>3. \A at : Tracing(at) => Tracing(at)'
    BY <2>1 DEF Tracing
  <2>4. CodeInv'
    BY <2>2, <2>3 DEF SearchInv, CodeInv
  <2>5. QED BY <2>1, <2>2, <2>4 DEF SearchInv, FlowInv, FitsInv, Idle
<1>9. Regfree \/ RegexMatchReturns => Reset
  BY DEF Regfree, RegexMatchReturns
<1>10. CompileReturns => UNCHANGED <<compileVars, m>>
  BY DEF CompileReturns
<1>11. UNCHANGED regexVars => UNCHANGED <<compileVars, m>>
  BY DEF regexVars, compileVars
<1>12. QED BY <1>1, <1>2, <1>3, <1>4, <1>5, <1>6, <1>7, <1>8, <1>9, <1>10, <1>11, Zenon
           DEF Next, Call, Run

LEMMA SearchAlways == Spec /\ []ShortCode => []SearchInv
<1>1. Init => SafeInv /\ WrittenInv /\ SearchInv
  BY SafeInit, WrittenInit, SearchInit
<1>2. SafeInv /\ WrittenInv /\ SearchInv /\ ShortCode /\ [Next]_regexVars
        => (SafeInv /\ WrittenInv /\ SearchInv)'
  BY SafeNext, WrittenNext, SearchNext
<1>3. QED BY <1>1, <1>2, PTL DEF Spec

(* The bytecode stays whole in every search made with it, whatever the     *)
(* text and whatever the matcher rewrites: maybe_pop_jump becomes another  *)
(* jump of its size, a count is stored where a count is, and a succeed_n   *)
(* that is spent gets no_ops in its own argument, never in an instruction  *)
(* behind it (re_match_2).                                                 *)
THEOREM BytecodeStaysWhole == Spec /\ []ShortCode => []BytecodeIsWhole
<1>1. SearchInv /\ ShortCode => BytecodeIsWhole
  <2> SUFFICES ASSUME SearchInv, ShortCode, Compiled
               PROVE  BytecodeIsWhole
    BY DEF BytecodeIsWhole
  <2>1. PICK at : Placing(Code, at)
    BY DEF SearchInv, CodeInv, Tracing
  <2>2. Whole(Code)
    BY <2>1 DEF Whole, Placing
  <2>3. QED BY <2>2, WholeBytecode
<1>2. QED BY <1>1, SearchAlways, PTL

(* The matcher is always on an instruction of the bytecode, or on a no_op  *)
(* a succeed_n has left in its own argument: no jump, no loop's exit and   *)
(* no failure point takes an argument for an opcode (re_match_2's p).      *)
THEOREM MatcherStaysOnInstructions == Spec /\ []ShortCode => []MatcherStaysInside
<1>1. SearchInv /\ ShortCode => MatcherStaysInside
  <2> SUFFICES ASSUME SearchInv, ShortCode, m.pc = "match"
               PROVE  LET at == Instructions(Code)
                      IN \/ m.p \in at
                         \/ \E i \in at \ {End(Code)} :
                              Code[i] = op.succeed_n /\ m.p \in {i + 3, i + 4}
    BY DEF MatcherStaysInside
  <2>1. Compiled
    <3>1. m # Idle
      BY DEF Idle
    <3>2. QED BY <3>1 DEF SearchInv, FlowInv
  <2>2. PICK at : Tracing(at)
    BY <2>1 DEF SearchInv, CodeInv
  <2>3. Placing(Code, at) /\ Placed(Code, at, m.p)
    BY <2>2 DEF Tracing, Follows
  <2>4. Instructions(Code) = at
    BY <2>3, WholeCode DEF Placing
  <2>5. Idling(Code, at, m.p) =>
          \E i \in at \ {End(Code)} : Code[i] = op.succeed_n /\ m.p \in {i + 3, i + 4}
    BY Zenon DEF Idling, End
  <2>6. QED BY <2>3, <2>4, <2>5 DEF Placed
<1>2. QED BY <1>1, SearchAlways, PTL

(* What is written fits what is allocated, from the first byte of the      *)
(* compilation to the last search: the matcher writes over the bytecode,   *)
(* never beyond its end (GET_BUFFER_SPACE, STORE_NUMBER).                  *)
THEOREM BufferAlwaysHoldsTheCode == Spec /\ []ShortCode => []BufferHoldsTheCode
<1>1. SearchInv => BufferHoldsTheCode
  <2> SUFFICES ASSUME SearchInv, bufp.allocated # 0
               PROVE  /\ Len(Code) + (IF cl.pc = "list" THEN 32 ELSE 0) <= bufp.allocated
                      /\ bufp.allocated <= MAX_BUF_SIZE
    BY DEF BufferHoldsTheCode
  <2>1. Fits(Code, cl, bufp.allocated)
    BY DEF SearchInv, FitsInv
  <2>2. QED BY <2>1, SizeAssumption DEF Fits, Margin
<1>2. QED BY <1>1, SearchAlways, PTL

===============================================================================
