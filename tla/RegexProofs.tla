------------------------------ MODULE RegexProofs ------------------------------
(***************************************************************************)
(* What the compiler of GNU regex does to its buffer and to the heap,      *)
(* proved for every pattern, every syntax and every size of the buffer.    *)
(*                                                                         *)
(* The invariant is about places: while regex_compile runs, begalt,        *)
(* laststart, fixup_alt_jump and the places saved for each open group lie  *)
(* inside the bytecode written so far, so that each construct, which       *)
(* inserts before one of them or stores at it, makes the bytecode longer   *)
(* by no more than what it asked GET_BUFFER_SPACE for.  What the bytecode  *)
(* means plays no part, and where it is only its length counts.            *)
(***************************************************************************)
EXTENDS RegexSafety, SequenceTheorems, TLAPS

-----------------------------------------------------------------------------
(***************************************************************************)
(* Sequences of whatever: only how long the bytecode is matters here.      *)
(***************************************************************************)
IsSeq(s) == \E S : s \in Seq(S)

LEMMA SeqLen ==
  ASSUME NEW s, IsSeq(s)
  PROVE  Len(s) \in Nat /\ DOMAIN s = 1..Len(s)
BY DEF IsSeq

LEMMA SeqTuple ==
  ASSUME NEW a, NEW b, NEW c
  PROVE  /\ IsSeq(<<>>) /\ Len(<<>>) = 0
         /\ IsSeq(<<a>>) /\ Len(<<a>>) = 1
         /\ IsSeq(<<a, b>>) /\ Len(<<a, b>>) = 2
         /\ IsSeq(<<a, b, c>>) /\ Len(<<a, b, c>>) = 3
<1> DEFINE S == {a, b, c}
<1>1. <<>> \in Seq(S) /\ <<a>> \in Seq(S) /\ <<a, b>> \in Seq(S) /\ <<a, b, c>> \in Seq(S)
  OBVIOUS
<1>2. QED BY <1>1 DEF IsSeq

LEMMA SeqConcat ==
  ASSUME NEW s, NEW t, IsSeq(s), IsSeq(t)
  PROVE  IsSeq(s \o t) /\ Len(s \o t) = Len(s) + Len(t)
<1>1. PICK S : s \in Seq(S)
  BY DEF IsSeq
<1>2. PICK T : t \in Seq(T)
  BY DEF IsSeq
<1>3. s \in Seq(S \cup T) /\ t \in Seq(S \cup T)
  BY <1>1, <1>2, SeqMonotonic
<1>4. s \o t \in Seq(S \cup T) /\ Len(s \o t) = Len(s) + Len(t)
  BY <1>3, ConcatProperties
<1>5. QED BY <1>4 DEF IsSeq

LEMMA SeqAppend ==
  ASSUME NEW s, NEW x, IsSeq(s)
  PROVE  /\ IsSeq(Append(s, x)) /\ Len(Append(s, x)) = Len(s) + 1
         /\ \A k \in 1..Len(s) : Append(s, x)[k] = s[k]
         /\ Append(s, x)[Len(s) + 1] = x
<1>1. PICK S : s \in Seq(S)
  BY DEF IsSeq
<1> DEFINE T == S \cup {x}
<1>2. s \in Seq(T)
  BY <1>1, SeqMonotonic
<1> HIDE DEF T
<1>3. x \in T
  BY DEF T
<1>4. /\ Append(s, x) \in Seq(T) /\ Len(Append(s, x)) = Len(s) + 1
      /\ \A k \in 1..Len(s) : Append(s, x)[k] = s[k]
      /\ Append(s, x)[Len(s) + 1] = x
  BY <1>2, <1>3, AppendProperties
<1>5. QED BY <1>4 DEF IsSeq

\* The elements from i to j, of which there are none when j = i - 1.
LEMMA SeqPiece ==
  ASSUME NEW s, IsSeq(s), NEW i \in 1..(Len(s) + 1), NEW j \in (i - 1)..Len(s)
  PROVE  /\ IsSeq(SubSeq(s, i, j)) /\ Len(SubSeq(s, i, j)) = j - i + 1
         /\ \A k \in 1..(j - i + 1) : SubSeq(s, i, j)[k] = s[i + k - 1]
<1>1. PICK S : s \in Seq(S)
  BY DEF IsSeq
<1>2. Len(s) \in Nat
  BY SeqLen
<1>3. /\ SubSeq(s, i, j) \in Seq(S) /\ Len(SubSeq(s, i, j)) = j - i + 1
      /\ \A k \in 1..(j - i + 1) : SubSeq(s, i, j)[k] = s[i + k - 1]
  BY <1>1, <1>2
<1>4. QED BY <1>3 DEF IsSeq

LEMMA SeqExcept ==
  ASSUME NEW s, NEW i, NEW x, IsSeq(s)
  PROVE  IsSeq([s EXCEPT ![i] = x]) /\ Len([s EXCEPT ![i] = x]) = Len(s)
<1>1. PICK S : s \in Seq(S)
  BY DEF IsSeq
<1> DEFINE T == S \cup {x}
           t == [s EXCEPT ![i] = x]
<1>2. s \in Seq(T) /\ Len(s) \in Nat /\ DOMAIN s = 1..Len(s)
  BY <1>1, SeqMonotonic
<1>3. x \in T /\ s \in [1..Len(s) -> T]
  BY <1>2
<1> HIDE DEF T
<1>5. t \in [1..Len(s) -> T]
  BY <1>3
<1>4. t \in Seq(T) /\ Len(t) = Len(s)
  BY <1>2, <1>5
<1>6. QED BY <1>4 DEF IsSeq

LEMMA SeqFunction ==
  ASSUME NEW n \in Nat, NEW t, t = [i \in 1..n |-> t[i]]
  PROVE  IsSeq(t) /\ Len(t) = n
<1> DEFINE S == {t[i] : i \in 1..n}
<1>1. t \in [1..n -> S]
  OBVIOUS
<1> HIDE DEF S
<1>2. t \in Seq(S) /\ Len(t) = n
  BY <1>1
<1>3. QED BY <1>2 DEF IsSeq

-----------------------------------------------------------------------------
(***************************************************************************)
(* Stores and insertions.                                                  *)
(***************************************************************************)
LEMMA NumberIsTwo ==
  ASSUME NEW n
  PROVE  IsSeq(NumberBytes(n)) /\ Len(NumberBytes(n)) = 2
BY SeqTuple, ZenonT(30) DEF NumberBytes

LEMMA OpLen ==
  ASSUME NEW o, NEW x, NEW y
  PROVE  /\ IsSeq(Op1(o, x)) /\ Len(Op1(o, x)) = 3
         /\ IsSeq(Op2(o, x, y)) /\ Len(Op2(o, x, y)) = 5
<1> DEFINE first == <<o>>
<1>1. /\ IsSeq(first) /\ Len(first) = 1
      /\ IsSeq(NumberBytes(x)) /\ Len(NumberBytes(x)) = 2
      /\ IsSeq(NumberBytes(y)) /\ Len(NumberBytes(y)) = 2
  BY SeqTuple, NumberIsTwo
<1>4. Op1(o, x) = first \o NumberBytes(x) /\ Op2(o, x, y) = first \o NumberBytes(x) \o NumberBytes(y)
  BY DEF Op1, Op2
<1> HIDE DEF first
<1> DEFINE n == NumberBytes(x)
<1>6. IsSeq(n) /\ Len(n) = 2
  BY <1>1
<1> HIDE DEF n
<1>7. IsSeq(first \o n) /\ Len(first \o n) = Len(first) + Len(n)
  BY <1>1, <1>6, SeqConcat, Zenon
<1>2. IsSeq(first \o NumberBytes(x)) /\ Len(first \o NumberBytes(x)) = 3
  BY <1>1, <1>6, <1>7 DEF n
<1>3. /\ IsSeq(first \o NumberBytes(x) \o NumberBytes(y))
      /\ Len(first \o NumberBytes(x) \o NumberBytes(y)) = 5
  BY <1>1, <1>2, SeqConcat
<1>5. QED BY <1>2, <1>3, <1>4

\* Bytes written over the code lengthen it by what lies beyond its end only.
LEMMA PutLen ==
  ASSUME NEW code, NEW bytes, IsSeq(code), IsSeq(bytes), NEW loc \in 1..(Len(code) + 1)
  PROVE  /\ IsSeq(Put(code, loc, bytes))
         /\ Len(Put(code, loc, bytes)) =
              IF loc + Len(bytes) <= Len(code) + 1 THEN Len(code) ELSE loc + Len(bytes) - 1
<1> DEFINE before == SubSeq(code, 1, loc - 1)
           after == SubSeq(code, loc + Len(bytes), Len(code))
<1>1. Len(code) \in Nat /\ Len(bytes) \in Nat
  BY SeqLen
<1>2. IsSeq(before) /\ Len(before) = loc - 1
  <2>1. 1 \in 1..(Len(code) + 1) /\ loc - 1 \in (1 - 1)..Len(code)
    BY <1>1
  <2>2. QED BY <1>1, <2>1, SeqPiece
<1>3. /\ IsSeq(after)
      /\ Len(after) = IF loc + Len(bytes) <= Len(code) + 1
                      THEN Len(code) - loc - Len(bytes) + 1 ELSE 0
  <2>1. CASE loc + Len(bytes) <= Len(code) + 1
    <3>1. /\ loc + Len(bytes) \in 1..(Len(code) + 1)
          /\ Len(code) \in (loc + Len(bytes) - 1)..Len(code)
      BY <1>1, <2>1
    <3>2. QED BY <1>1, <2>1, <3>1, SeqPiece
  <2>2. CASE ~(loc + Len(bytes) <= Len(code) + 1)
    <3>1. after = <<>>
      <4>1. PICK S : code \in Seq(S)
        BY DEF IsSeq
      <4>2. QED BY <1>1, <2>2, <4>1
    <3>2. QED BY <2>2, <3>1, SeqTuple
  <2>3. QED BY <2>1, <2>2
<1>4. IsSeq(before \o bytes) /\ Len(before \o bytes) = loc - 1 + Len(bytes)
  BY <1>2, SeqConcat
<1>5. /\ IsSeq(before \o bytes \o after)
      /\ Len(before \o bytes \o after) = loc - 1 + Len(bytes) + Len(after)
  BY <1>3, <1>4, SeqConcat
<1> DEFINE whole == before \o bytes \o after
<1>6. Put(code, loc, bytes) = whole
  BY DEF Put
<1>7. IsSeq(whole) /\ Len(whole) = loc - 1 + Len(bytes) + Len(after)
  BY <1>5
<1> HIDE DEF before, after, whole
<1>8. CASE loc + Len(bytes) <= Len(code) + 1
  <2>1. Len(whole) = Len(code)
    <3>1. Len(after) = Len(code) - loc - Len(bytes) + 1
      BY <1>3, <1>8
    <3>2. QED BY <1>1, <1>7, <3>1
  <2>2. QED BY <1>6, <1>7, <1>8, <2>1, Zenon
<1>9. CASE ~(loc + Len(bytes) <= Len(code) + 1)
  <2>1. Len(whole) = loc + Len(bytes) - 1
    <3>1. Len(after) = 0
      BY <1>3, <1>9
    <3>2. QED BY <1>1, <1>7, <3>1
  <2>2. QED BY <1>6, <1>7, <1>9, <2>1, Zenon
<1>10. QED BY <1>8, <1>9, Zenon

LEMMA InsertLen ==
  ASSUME NEW code, NEW bytes, IsSeq(code), IsSeq(bytes), NEW loc \in 1..(Len(code) + 1)
  PROVE  /\ IsSeq(Insert(code, loc, bytes))
         /\ Len(Insert(code, loc, bytes)) = Len(code) + Len(bytes)
<1> DEFINE before == SubSeq(code, 1, loc - 1)
           after == SubSeq(code, loc, Len(code))
<1>1. Len(code) \in Nat /\ Len(bytes) \in Nat
  BY SeqLen
<1>2. IsSeq(before) /\ Len(before) = loc - 1
  <2>1. 1 \in 1..(Len(code) + 1) /\ loc - 1 \in (1 - 1)..Len(code)
    BY <1>1
  <2>2. QED BY <1>1, <2>1, SeqPiece
<1>3. IsSeq(after) /\ Len(after) = Len(code) - loc + 1
  <2>1. Len(code) \in (loc - 1)..Len(code)
    BY <1>1
  <2>2. QED BY <1>1, <2>1, SeqPiece
<1>4. IsSeq(before \o bytes) /\ Len(before \o bytes) = loc - 1 + Len(bytes)
  BY <1>2, SeqConcat
<1>5. /\ IsSeq(before \o bytes \o after)
      /\ Len(before \o bytes \o after) = loc - 1 + Len(bytes) + Len(after)
  BY <1>3, <1>4, SeqConcat
<1> DEFINE whole == before \o bytes \o after
<1>6. Insert(code, loc, bytes) = whole
  BY DEF Insert
<1>7. IsSeq(whole) /\ Len(whole) = loc - 1 + Len(bytes) + Len(after)
  BY <1>5
<1> HIDE DEF before, after, whole
<1>8. QED BY <1>1, <1>3, <1>6, <1>7

\* A jump written at the end or over a gap, and a jump inserted.
LEMMA StoreJumpLen ==
  ASSUME NEW o, NEW code, NEW to, IsSeq(code), NEW loc \in 1..(Len(code) + 1)
  PROVE  /\ IsSeq(StoreJump(o, code, loc, to))
         /\ loc = Len(code) + 1 => Len(StoreJump(o, code, loc, to)) = Len(code) + 3
         /\ loc + 2 <= Len(code) => Len(StoreJump(o, code, loc, to)) = Len(code)
<1> DEFINE bytes == Op1(o, to - loc - 3)
<1>1. IsSeq(bytes) /\ Len(bytes) = 3
  BY OpLen
<1>2. StoreJump(o, code, loc, to) = Put(code, loc, bytes)
  BY DEF StoreJump
<1> HIDE DEF bytes
<1>3. /\ IsSeq(Put(code, loc, bytes))
      /\ Len(Put(code, loc, bytes)) =
           IF loc + 3 <= Len(code) + 1 THEN Len(code) ELSE loc + 3 - 1
  BY <1>1, PutLen
<1>4. Len(code) \in Nat
  BY SeqLen
<1>5. QED BY <1>2, <1>3, <1>4

LEMMA InsertJumpLen ==
  ASSUME NEW o, NEW code, NEW to, IsSeq(code), NEW loc \in 1..(Len(code) + 1)
  PROVE  /\ IsSeq(InsertJump(o, code, loc, to))
         /\ Len(InsertJump(o, code, loc, to)) = Len(code) + 3
<1> DEFINE bytes == Op1(o, to - loc - 3)
<1>1. IsSeq(bytes) /\ Len(bytes) = 3
  BY OpLen
<1>2. InsertJump(o, code, loc, to) = Insert(code, loc, bytes)
  BY DEF InsertJump
<1> HIDE DEF bytes
<1>3. QED BY <1>1, <1>2, InsertLen

-----------------------------------------------------------------------------
(***************************************************************************)
(* The room of the buffer, and the codes a bitmap is made of.              *)
(***************************************************************************)
Least == INSTANCE Recursion WITH Base <- 0, Step <- LAMBDA before, n : before

LEMMA MinOf ==
  ASSUME NEW S \in SUBSET Nat, S # {}
  PROVE  Min(S) \in S /\ \A k \in S : Min(S) <= k
<1>1. \E least \in S : \A k \in S : least <= k
  BY Least!LeastOf
<1>2. QED BY <1>1 DEF Min

LEMMA MaxOf ==
  ASSUME NEW S \in SUBSET (0..255), S # {}
  PROVE  Max(S) \in S
<1> DEFINE T == {255 - k : k \in S}
<1>1. T \in SUBSET Nat /\ T # {}
  <2>1. \A k \in S : 255 - k \in Nat
    OBVIOUS
  <2>2. QED BY <2>1, ZenonT(30)
<1>2. PICK t \in T : \A k \in T : t <= k
  <2> HIDE DEF T
  <2>1. QED BY <1>1, Least!LeastOf
<1>3. PICK x \in S : t = 255 - x
  OBVIOUS
<1>4. \A k \in S : x >= k
  <2> SUFFICES ASSUME NEW k \in S
               PROVE  x >= k
    OBVIOUS
  <2>1. 255 - k \in T
    OBVIOUS
  <2>2. t <= 255 - k
    BY <1>2, <2>1
  <2>3. x \in Int /\ k \in Int
    OBVIOUS
  <2>4. QED BY <1>3, <2>2, <2>3
<1>5. QED BY <1>3, <1>4 DEF Max

LEMMA PowersOf2 ==
  ASSUME NEW k \in 0..16
  PROVE  2 ^ k \in Nat \ {0}
<1>1. /\ 2 ^ 0 \in Nat \ {0} /\ 2 ^ 1 \in Nat \ {0} /\ 2 ^ 2 \in Nat \ {0}
      /\ 2 ^ 3 \in Nat \ {0} /\ 2 ^ 4 \in Nat \ {0} /\ 2 ^ 5 \in Nat \ {0}
      /\ 2 ^ 6 \in Nat \ {0} /\ 2 ^ 7 \in Nat \ {0} /\ 2 ^ 8 \in Nat \ {0}
      /\ 2 ^ 9 \in Nat \ {0} /\ 2 ^ 10 \in Nat \ {0} /\ 2 ^ 11 \in Nat \ {0}
      /\ 2 ^ 12 \in Nat \ {0} /\ 2 ^ 13 \in Nat \ {0} /\ 2 ^ 14 \in Nat \ {0}
      /\ 2 ^ 15 \in Nat \ {0} /\ 2 ^ 16 \in Nat \ {0}
  OBVIOUS
<1>2. \/ k = 0 \/ k = 1 \/ k = 2 \/ k = 3 \/ k = 4 \/ k = 5 \/ k = 6 \/ k = 7 \/ k = 8
      \/ k = 9 \/ k = 10 \/ k = 11 \/ k = 12 \/ k = 13 \/ k = 14 \/ k = 15 \/ k = 16
  OBVIOUS
<1>3. QED BY <1>1, <1>2, Zenon

LEMMA NotLessThanOnce ==
  ASSUME NEW size \in Nat, NEW n \in Nat \ {0}
  PROVE  size * n \in Nat /\ size <= size * n
OBVIOUS

\* The buffer grows to what is needed, never shrinks and never passes its limit.
LEMMA GrownIsEnough ==
  ASSUME NEW size \in 1..MAX_BUF_SIZE, NEW need \in 0..MAX_BUF_SIZE
  PROVE  /\ Grown(size, need) \in 1..MAX_BUF_SIZE
         /\ Grown(size, need) >= need /\ Grown(size, need) >= size
<1> DEFINE sizes == {size * 2^k : k \in 0..16} \cup {MAX_BUF_SIZE}
           S == {a \in sizes : a >= need}
<1>1. MAX_BUF_SIZE \in Nat
  BY SizeAssumption
<1>2. \A a \in sizes : a \in Nat /\ a >= size
  <2> SUFFICES ASSUME NEW a \in sizes
               PROVE  a \in Nat /\ a >= size
    OBVIOUS
  <2>1. CASE a = MAX_BUF_SIZE
    BY <1>1, <2>1
  <2>2. CASE a # MAX_BUF_SIZE
    <3>1. PICK k \in 0..16 : a = size * 2^k
      BY <2>2
    <3> DEFINE n == 2 ^ k
    <3>2. n \in Nat \ {0}
      BY PowersOf2
    <3>3. a = size * n
      BY <3>1
    <3> HIDE DEF n
    <3>4. size \in Nat
      BY <1>1
    <3>5. QED BY <3>2, <3>3, <3>4, NotLessThanOnce
  <2>3. QED BY <2>1, <2>2
<1>3. MAX_BUF_SIZE \in S
  BY <1>1
<1>4. S \in SUBSET Nat /\ S # {} /\ \A a \in S : a >= need /\ a >= size
  BY <1>2, <1>3
<1>5. Grown(size, need) = Min(S)
  BY DEF Grown
<1> HIDE DEF S
<1>6. Min(S) \in S /\ Min(S) <= MAX_BUF_SIZE
  BY <1>3, <1>4, MinOf
<1> DEFINE least == Min(S)
<1>7. least \in Nat /\ least >= need /\ least >= size /\ least <= MAX_BUF_SIZE
  BY <1>4, <1>6
<1>8. Grown(size, need) = least
  BY <1>5
<1> HIDE DEF least
<1>9. least \in 1..MAX_BUF_SIZE
  BY <1>1, <1>7
<1>10. QED BY <1>7, <1>8, <1>9

LEMMA OrdIsACode ==
  ASSUME NEW c \in DOMAIN Ord
  PROVE  Ord[c] \in 0..255
<1>1. c \in {Ascii[i] : i \in 1..95} \cup {NUL, "\n", HIGH}
  BY DEF Ord
<1>2. Ord[c] = CASE c = NUL  -> 0
                 [] c = "\n" -> 10
                 [] c = HIGH -> 255
                 [] OTHER    -> 31 + CHOOSE i \in 1..95 : Ascii[i] = c
  BY <1>1 DEF Ord
<1>3. CASE c \in {NUL, "\n", HIGH}
  BY <1>2, <1>3 DEF NUL, HIGH
<1>4. CASE c \notin {NUL, "\n", HIGH}
  <2> DEFINE i == CHOOSE i \in 1..95 : Ascii[i] = c
  <2>1. i \in 1..95
    BY <1>1, <1>4
  <2>2. Ord[c] = 31 + i
    BY <1>2, <1>4
  <2> HIDE DEF i
  <2>3. QED BY <2>1, <2>2
<1>5. QED BY <1>3, <1>4

LEMMA CharHasACode ==
  ASSUME pattern \in Seq(DOMAIN Ord), NEW i
  PROVE  /\ Char(pattern, i) \in DOMAIN Ord /\ Ord[Char(pattern, i)] \in 0..255
         /\ Fetch(i) \in DOMAIN Ord /\ Ord[Fetch(i)] \in 0..255
<1>1. NUL \in DOMAIN Ord
  BY DEF Ord
<1>2. Char(pattern, i) \in DOMAIN Ord
  BY <1>1 DEF Char
<1>3. \A c \in DOMAIN Ord : LowerChar[c] \in DOMAIN Ord
  <2> SUFFICES ASSUME NEW c \in DOMAIN Ord
               PROVE  LowerChar[c] \in DOMAIN Ord
    OBVIOUS
  <2>1. LowerChar[c] = IF Ord[c] \in 65..90 THEN Ascii[Ord[c] + 1] ELSE c
    BY DEF LowerChar
  <2>2. CASE Ord[c] \in 65..90
    <3> DEFINE o == Ord[c]
    <3>4. o \in 65..90
      BY <2>2
    <3> HIDE DEF o
    <3>5. o + 1 \in 1..95
      BY <3>4
    <3>1. Ord[c] + 1 \in 1..95
      BY <3>5 DEF o
    <3>2. \A k \in 1..95 : Ascii[k] \in DOMAIN Ord
      BY DEF Ord
    <3>3. QED BY <2>1, <2>2, <3>1, <3>2
  <2>3. QED BY <2>1, <2>2
<1>4. Fetch(i) \in DOMAIN Ord
  BY <1>2, <1>3 DEF Fetch, Translated
<1>5. QED BY <1>2, <1>4, OrdIsACode

LEMMA LowerCodeIsACode ==
  ASSUME NEW o \in 0..255
  PROVE  LowerCode(o) \in 0..255
BY DEF LowerCode

LEMMA ClassIsOfCodes ==
  ASSUME NEW n \in DOMAIN CharClass
  PROVE  CharClass[n] \subseteq 0..255
<1>1. n \in {"alpha", "upper", "lower", "digit", "alnum", "xdigit", "space", "blank",
             "print", "graph", "punct", "cntrl"}
  BY DEF CharClass
<1>2. QED BY <1>1 DEF CharClass

\* A bitmap takes at most the 32 bytes that are kept for it.
LEMMA BitmapLen ==
  ASSUME NEW S \in SUBSET (0..255)
  PROVE  IsSeq(Bitmap(S)) /\ Len(Bitmap(S)) \in 0..32
<1> DEFINE n == IF S = {} THEN 0 ELSE Max(S) \div 8 + 1
           bit(i, k) == IF 8 * (i - 1) + k \in S THEN 2^k ELSE 0
           f(i) == bit(i, 0) + bit(i, 1) + bit(i, 2) + bit(i, 3)
                     + bit(i, 4) + bit(i, 5) + bit(i, 6) + bit(i, 7)
<1>1. n \in 0..32
  <2>1. CASE S = {}
    BY <2>1
  <2>2. CASE S # {}
    <3> DEFINE x == Max(S)
    <3>1. x \in 0..255
      BY <2>2, MaxOf
    <3>2. n = x \div 8 + 1
      BY <2>2
    <3> HIDE DEF x
    <3>3. x \div 8 \in 0..31
      BY <3>1
    <3>4. QED BY <3>2, <3>3
  <2>3. QED BY <2>1, <2>2
<1> DEFINE map == Bitmap(S)
<1>2. map = [i \in 1..n |-> f(i)]
  BY DEF Bitmap
<1> HIDE DEF n, f, map
<1>3. n \in Nat /\ map = [i \in 1..n |-> map[i]]
  BY <1>1, <1>2
<1>4. IsSeq(map) /\ Len(map) = n
  BY <1>3, SeqFunction
<1>5. QED BY <1>1, <1>4 DEF map

-----------------------------------------------------------------------------
(***************************************************************************)
(* The invariant of the compiler: while it runs, all it remembers of the   *)
(* bytecode lies inside it, and what is written fits what is allocated.    *)
(***************************************************************************)
Margin(locals) == IF locals.pc = "list" THEN 32 ELSE 0

Inside(begalt, fixup_alt_jump, laststart, length) ==
  /\ begalt \in 1..(length + 1) /\ laststart \in 0..(length + 1)
  /\ fixup_alt_jump = 0 \/ (fixup_alt_jump \in 1..length /\ fixup_alt_jump + 2 <= length)

FramesInside(stack, length) ==
  /\ IsSeq(stack)
  /\ \A k \in 1..Len(stack) :
       /\ Inside(stack[k].begalt, stack[k].fixup_alt_jump, stack[k].laststart, length)
       /\ stack[k].regnum <= MAX_REGNUM => stack[k].inner \in 1..length

LocalsInside(locals, length) ==
  /\ DOMAIN locals = DOMAIN NoLocals("none")
  /\ locals.pc \in {"pattern", "list"} /\ locals.ret = "none"
  /\ Inside(locals.begalt, locals.fixup_alt_jump, locals.laststart, length)
  /\ FramesInside(locals.stack, length)
  /\ locals.list \subseteq 0..255
  /\ locals.pc = "list" => length >= 1

Fits(code, locals, allocated) ==
  /\ IsSeq(code) /\ allocated \in 1..MAX_BUF_SIZE
  /\ Len(code) + Margin(locals) <= allocated

\* Only the compilation that succeeds frees the stack of the compiler.
HeapInv ==
  /\ heap \subseteq {"compile_stack", "buffer", "translate"}
  /\ cl.ret = "REG_NOERROR" => "compile_stack" \notin heap

CompileInv ==
  /\ DOMAIN bufp = DOMAIN NoBuffer
  /\ pattern \in Seq(DOMAIN Ord)
  /\ HeapInv
  /\ cl.pc = "returned" \/ (LocalsInside(cl, Len(Code)) /\ Fits(Code, cl, bufp.allocated))

Sound == CompileInv /\ Fits(Code, cl, bufp.allocated)

SafeInv ==
  /\ CompileInv
  /\ searches \in Nat
  /\ searches = 0 => m = Idle /\ (bufp.allocated = 0 \/ Fits(Code, cl, bufp.allocated))
  /\ cl.pc # "returned" => searches = 0 /\ call.fn # "none"
  /\ call.interface = "none" =>
       call.fn = "none" /\ searches = 0 /\ heap \subseteq {"compile_stack"}

Fields == {"pc", "ret", "p", "laststart", "begalt", "pending_exact", "fixup_alt_jump",
           "regnum", "stack", "p1", "list", "had_char_class"}

LEMMA LocalsFields ==
  ASSUME NEW err
  PROVE  /\ DOMAIN NoLocals(err) = Fields
         /\ NoLocals(err).pc = "returned" /\ NoLocals(err).ret = err
BY DEF NoLocals, Fields

BufferFields == {"buffer", "allocated", "re_nsub", "syntax", "translate", "newline_anchor",
                 "no_sub", "not_bol", "not_eol", "fastmap", "fastmap_accurate", "map",
                 "can_be_null"}

LEMMA BufferHasFields == DOMAIN NoBuffer = BufferFields
BY DEF NoBuffer, BufferFields

LEMMA InsideLonger ==
  ASSUME NEW n \in Nat, NEW k \in Nat, n <= k, NEW a, NEW f, NEW l, Inside(a, f, l, n)
  PROVE  Inside(a, f, l, k)
BY DEF Inside

LEMMA FramesLonger ==
  ASSUME NEW n \in Nat, NEW k \in Nat, n <= k, NEW stack, FramesInside(stack, n)
  PROVE  FramesInside(stack, k)
<1> SUFFICES ASSUME NEW i \in 1..Len(stack)
             PROVE  /\ Inside(stack[i].begalt, stack[i].fixup_alt_jump, stack[i].laststart, k)
                    /\ stack[i].regnum <= MAX_REGNUM => stack[i].inner \in 1..k
  BY DEF FramesInside
<1> DEFINE fits == stack[i].regnum <= MAX_REGNUM
<1>1. /\ Inside(stack[i].begalt, stack[i].fixup_alt_jump, stack[i].laststart, n)
      /\ fits => stack[i].inner \in 1..n
  BY DEF FramesInside
<1> HIDE DEF fits
<1>2. fits => stack[i].inner \in 1..k
  BY <1>1
<1>3. QED BY <1>1, <1>2, InsideLonger DEF fits

\* Locals of which some have moved to other places inside a longer bytecode.
LEMMA LocalsMove ==
  ASSUME NEW n \in Nat, NEW k \in Nat, n <= k, NEW old, NEW new, LocalsInside(old, n),
         DOMAIN new = DOMAIN old, new.pc \in {"pattern", "list"}, new.ret = old.ret,
         Inside(new.begalt, new.fixup_alt_jump, new.laststart, k),
         new.stack = old.stack \/ FramesInside(new.stack, k),
         new.list \subseteq 0..255, new.pc = "list" => k >= 1
  PROVE  LocalsInside(new, k)
<1>1. FramesInside(new.stack, k)
  BY FramesLonger DEF LocalsInside
<1>2. QED BY <1>1 DEF LocalsInside

LEMMA SoundCode ==
  ASSUME Sound
  PROVE  /\ IsSeq(Code) /\ Len(Code) \in Nat /\ Code = bufp.buffer
         /\ bufp.allocated \in 1..MAX_BUF_SIZE /\ MAX_BUF_SIZE \in Nat
         /\ Len(Code) + Margin(cl) <= bufp.allocated /\ Margin(cl) \in {0, 32}
         /\ DOMAIN bufp = BufferFields
BY SizeAssumption, SeqLen, BufferHasFields DEF Sound, Fits, CompileInv, Code, Margin

LEMMA ReturnKeeps ==
  ASSUME Sound, NEW err, Return(err), err # "REG_NOERROR"
  PROVE  Sound'
<1>1. /\ cl'.pc = "returned" /\ cl'.ret # "REG_NOERROR"
      /\ bufp' = bufp /\ pattern' = pattern /\ heap' = heap
  BY LocalsFields DEF Return
<1>2. Code' = Code /\ Margin(cl') = 0
  BY <1>1 DEF Code, Margin
<1>3. Fits(Code, cl', bufp.allocated)
  BY <1>2, SoundCode DEF Fits
<1>4. CompileInv'
  BY <1>1 DEF Sound, CompileInv, HeapInv
<1>5. QED BY <1>1, <1>2, <1>3, <1>4 DEF Sound

LEMMA EmitKeeps ==
  ASSUME Sound, NEW nsub, NEW request \in Nat, NEW code, NEW locals,
         EmitWith(nsub, request, code, locals),
         IsSeq(code), LocalsInside(locals, Len(code)),
         \/ Len(code) + Margin(locals) <= Len(Code) + request
         \/ Len(code) + Margin(locals) <= bufp.allocated
  PROVE  Sound'
<1>1. CASE Len(Code) + request > MAX_BUF_SIZE
  <2>1. Return("REG_ESIZE") /\ "REG_ESIZE" # "REG_NOERROR"
    BY <1>1, Zenon DEF EmitWith
  <2>2. QED BY <2>1, ReturnKeeps, Zenon
<1>2. CASE ~(Len(Code) + request > MAX_BUF_SIZE)
  <2> DEFINE grown == Grown(bufp.allocated, Len(Code) + request)
  <2>1. /\ bufp' = [bufp EXCEPT !.buffer = code, !.re_nsub = nsub, !.allocated = grown]
        /\ cl' = locals /\ pattern' = pattern /\ heap' = heap
    BY <1>2, Zenon DEF EmitWith
  <2>2. grown \in 1..MAX_BUF_SIZE /\ grown >= Len(Code) + request /\ grown >= bufp.allocated
    <3> DEFINE need == Len(Code) + request
    <3>1. need \in 0..MAX_BUF_SIZE /\ bufp.allocated \in 1..MAX_BUF_SIZE
      BY <1>2, SoundCode
    <3> HIDE DEF need
    <3>2. /\ Grown(bufp.allocated, need) \in 1..MAX_BUF_SIZE
          /\ Grown(bufp.allocated, need) >= need
          /\ Grown(bufp.allocated, need) >= bufp.allocated
      BY <3>1, GrownIsEnough
    <3>3. QED BY <3>2 DEF need
  <2> HIDE DEF grown
  <2>3. bufp'.buffer = code /\ bufp'.allocated = grown /\ DOMAIN bufp' = DOMAIN bufp
    BY <2>1, SoundCode DEF BufferFields
  <2>4. Margin(locals) \in {0, 32} /\ Len(code) \in Nat
    BY SeqLen DEF Margin
  <2>5. Len(code) + Margin(locals) <= grown
    <3> DEFINE n == Len(code) + Margin(locals)
    <3>1. n \in Nat
      BY <2>4
    <3> HIDE DEF n
    <3>2. QED BY <2>2, <3>1, SoundCode DEF n
  <2>6. Code' = code
    BY <2>3 DEF Code
  <2>7. Fits(Code', cl', bufp'.allocated)
    BY <2>1, <2>2, <2>3, <2>5, <2>6 DEF Fits
  <2>8. LocalsInside(cl', Len(Code'))
    BY <2>1, <2>6
  <2>9. HeapInv'
    BY <2>1 DEF Sound, CompileInv, HeapInv, LocalsInside
  <2>10. CompileInv'
    BY <2>1, <2>3, <2>7, <2>8, <2>9 DEF Sound, CompileInv
  <2>11. QED BY <2>7, <2>10 DEF Sound
<1>3. QED BY <1>1, <1>2

-----------------------------------------------------------------------------
(***************************************************************************)
(* The constructs of a pattern, one by one.                                *)
(***************************************************************************)
LEMMA RunningLocals ==
  ASSUME Sound, cl.pc # "returned"
  PROVE  /\ LocalsInside(cl, Len(Code)) /\ DOMAIN cl = Fields
         /\ cl.pc \in {"pattern", "list"} /\ cl.ret = "none"
         /\ Inside(cl.begalt, cl.fixup_alt_jump, cl.laststart, Len(Code))
         /\ FramesInside(cl.stack, Len(Code)) /\ cl.list \subseteq 0..255
BY LocalsFields DEF Sound, CompileInv, LocalsInside

LEMMA EmitMoved ==
  ASSUME Sound, cl.pc # "returned", NEW nsub, NEW request \in Nat, NEW code, NEW locals,
         EmitWith(nsub, request, code, locals),
         IsSeq(code), Len(Code) <= Len(code),
         DOMAIN locals = DOMAIN cl, locals.pc \in {"pattern", "list"}, locals.ret = cl.ret,
         Inside(locals.begalt, locals.fixup_alt_jump, locals.laststart, Len(code)),
         locals.stack = cl.stack \/ FramesInside(locals.stack, Len(code)),
         locals.list \subseteq 0..255, locals.pc = "list" => Len(code) >= 1,
         \/ Len(code) + Margin(locals) <= Len(Code) + request
         \/ Len(code) + Margin(locals) <= bufp.allocated
  PROVE  Sound'
<1>1. Len(Code) \in Nat /\ Len(code) \in Nat /\ LocalsInside(cl, Len(Code))
  BY SoundCode, SeqLen, RunningLocals
<1>2. LocalsInside(locals, Len(code))
  BY <1>1, LocalsMove, Zenon
<1>3. QED BY <1>2, EmitKeeps, Zenon

\* The same outside a list, with locals whose list is the one they had.
LEMMA EmitInPattern ==
  ASSUME Sound, cl.pc = "pattern", NEW nsub, NEW request \in Nat, NEW code, NEW locals,
         EmitWith(nsub, request, code, locals),
         IsSeq(code), Len(Code) <= Len(code), Len(code) <= Len(Code) + request,
         DOMAIN locals = DOMAIN cl, locals.pc = cl.pc, locals.ret = cl.ret,
         Inside(locals.begalt, locals.fixup_alt_jump, locals.laststart, Len(code)),
         locals.stack = cl.stack \/ FramesInside(locals.stack, Len(code)),
         locals.list = cl.list
  PROVE  Sound'
<1>1. Len(Code) \in Nat /\ Len(code) \in Nat
  BY SoundCode, SeqLen
<1>2. Margin(locals) = 0
  BY DEF Margin
<1>3. Len(code) + Margin(locals) <= Len(Code) + request
  BY <1>1, <1>2
<1>4. cl.pc # "returned" /\ locals.pc \in {"pattern", "list"} /\ locals.pc # "list"
  OBVIOUS
<1>5. locals.list \subseteq 0..255
  BY <1>4, RunningLocals
<1>6. QED BY <1>3, <1>4, <1>5, EmitMoved, Zenon

LEMMA NormalCharKeeps ==
  ASSUME Sound, cl.pc = "pattern", NEW request \in Nat, NEW code, NEW c, NEW i,
         IsSeq(code), Len(Code) <= Len(code), Len(code) <= Len(Code) + request,
         NormalCharOn(code, request, c, i)
  PROVE  Sound'
<1> DEFINE k     == cl.pending_exact
           new   == k = 0 \/ k + code[k] # Len(code) \/ code[k] = 255 \/ RepetitionFollows(i)
           start == IF new THEN code \o <<op.exactn, 0>> ELSE code
           count == IF new THEN Len(start) ELSE k
           more  == request + (IF new THEN 3 ELSE 1)
           whole == [Append(start, Ord[c]) EXCEPT ![count] = @ + 1]
           locals == [cl EXCEPT !.p = i, !.pending_exact = count,
                                !.laststart = IF new THEN End(code) ELSE @]
<1>1. EmitWith(bufp.re_nsub, more, whole, locals)
  BY DEF NormalCharOn, Emit
<1> HIDE DEF new
<1>2. IsSeq(start) /\ Len(start) = Len(code) + (IF new THEN 2 ELSE 0)
  <2> DEFINE two == <<op.exactn, 0>>
  <2>1. IsSeq(two) /\ Len(two) = 2
    BY SeqTuple
  <2> HIDE DEF two
  <2>2. IsSeq(code \o two) /\ Len(code \o two) = Len(code) + 2
    BY <2>1, SeqConcat
  <2>3. Len(code) \in Nat
    BY SeqLen
  <2>4. QED BY <2>2, <2>3 DEF two
<1> HIDE DEF start
<1>3. IsSeq(whole) /\ Len(whole) = Len(code) + (IF new THEN 3 ELSE 1)
  <2> DEFINE longer == Append(start, Ord[c])
  <2>1. IsSeq(longer) /\ Len(longer) = Len(start) + 1
    BY <1>2, SeqAppend
  <2> HIDE DEF longer
  <2> DEFINE byte == longer[count] + 1
  <2>2. whole = [longer EXCEPT ![count] = byte]
    BY DEF longer
  <2> HIDE DEF byte, count, whole
  <2>3. IsSeq(whole) /\ Len(whole) = Len(longer)
    BY <2>1, <2>2, SeqExcept
  <2>4. Len(code) \in Nat
    BY SeqLen
  <2>5. QED BY <1>2, <2>1, <2>3, <2>4
<1> HIDE DEF whole
<1>4. /\ DOMAIN locals = DOMAIN cl /\ locals.pc = cl.pc /\ locals.ret = cl.ret
      /\ locals.begalt = cl.begalt /\ locals.fixup_alt_jump = cl.fixup_alt_jump
      /\ locals.laststart = IF new THEN End(code) ELSE cl.laststart
      /\ locals.stack = cl.stack /\ locals.list = cl.list
  BY RunningLocals DEF Fields
<1> HIDE DEF locals
<1>5. Len(code) \in Nat /\ more \in Nat /\ Len(Code) \in Nat
  BY SeqLen, SoundCode
<1>6. Inside(locals.begalt, locals.fixup_alt_jump, locals.laststart, Len(whole))
  BY <1>3, <1>4, <1>5, RunningLocals, SMTT(30) DEF Inside, End
<1>7. Len(Code) <= Len(whole) /\ Len(whole) <= Len(Code) + more
  BY <1>3, <1>5
<1>8. QED BY <1>1, <1>3, <1>4, <1>5, <1>6, <1>7, EmitInPattern, Zenon


\* Codes appended, and locals that stay or have laststart at the first of them.
LEMMA EmitAppended ==
  ASSUME Sound, cl.pc = "pattern", NEW n \in 0..3, NEW bytes, IsSeq(bytes), Len(bytes) = n,
         NEW code, code = Code \o bytes, NEW locals, EmitWith(bufp.re_nsub, n, code, locals),
         DOMAIN locals = DOMAIN cl, locals.pc = cl.pc, locals.ret = cl.ret,
         locals.begalt = cl.begalt, locals.fixup_alt_jump = cl.fixup_alt_jump,
         locals.laststart \in {cl.laststart, End(Code)}, locals.stack = cl.stack,
         locals.list = cl.list
  PROVE  Sound'
<1>1. IsSeq(Code) /\ Len(Code) \in Nat
  BY SoundCode
<1>2. IsSeq(code) /\ Len(code) = Len(Code) + n
  BY <1>1, SeqConcat
<1>3. Inside(locals.begalt, locals.fixup_alt_jump, locals.laststart, Len(code))
  BY <1>1, <1>2, RunningLocals, SMTT(30) DEF Inside, End
<1>4. Len(code) <= Len(Code) + n /\ Len(Code) <= Len(code) /\ n \in Nat
  BY <1>1, <1>2
<1>5. QED BY <1>2, <1>3, <1>4, EmitInPattern, Zenon

LEMMA AppendedByte ==
  ASSUME Sound, NEW x
  PROVE  Append(Code, x) = Code \o <<x>>
<1>1. PICK S : Code \in Seq(S)
  BY SoundCode DEF IsSeq
<1> DEFINE T == S \cup {x}
<1>2. Code \in Seq(T) /\ x \in T
  BY <1>1, SeqMonotonic
<1> HIDE DEF T
<1>3. QED BY <1>2, AppendIsConcat

LEMMA SimpleTokensKeep ==
  ASSUME Sound, NormalChar \/ BegLine \/ EndLine \/ AnyChar \/ SimpleOp \/ Duplicate \/ BadToken
  PROVE  Sound'
<1>1. CASE NormalChar
  <2>1. IsSeq(Code) /\ Len(Code) \in Nat
    BY SoundCode
  <2>2. /\ cl.pc = "pattern" /\ NormalCharOn(Code, 0, Token.c, Token.p)
    BY <1>1, Zenon DEF NormalChar, AtToken
  <2>3. 0 \in Nat /\ Len(Code) <= Len(Code) /\ Len(Code) <= Len(Code) + 0
    BY <2>1
  <2>4. QED BY <2>1, <2>2, <2>3, NormalCharKeeps, Zenon
<1>2. ASSUME NEW x, NEW locals, cl.pc = "pattern", Emit(1, Append(Code, x), locals),
             DOMAIN locals = DOMAIN cl, locals.pc = cl.pc, locals.ret = cl.ret,
             locals.begalt = cl.begalt, locals.fixup_alt_jump = cl.fixup_alt_jump,
             locals.laststart \in {cl.laststart, End(Code)}, locals.stack = cl.stack,
             locals.list = cl.list
      PROVE  Sound'
  <2> DEFINE one == <<x>>
             code == Append(Code, x)
  <2>1. IsSeq(one) /\ Len(one) = 1
    BY SeqTuple
  <2>4. code = Code \o one
    BY AppendedByte, Zenon
  <2>5. 1 \in 0..3
    OBVIOUS
  <2>2. EmitWith(bufp.re_nsub, 1, code, locals)
    BY <1>2 DEF Emit
  <2> HIDE DEF one, code
  <2>3. QED BY <1>2, <2>1, <2>2, <2>4, <2>5, EmitAppended, Zenon
<1>3. CASE BegLine
  <2> DEFINE locals == [cl EXCEPT !.p = Token.p]
  <2>1. cl.pc = "pattern" /\ Emit(1, Append(Code, op.begline), locals)
    BY <1>3, Zenon DEF BegLine, AtToken
  <2>2. /\ DOMAIN locals = DOMAIN cl /\ locals.pc = cl.pc /\ locals.ret = cl.ret
        /\ locals.begalt = cl.begalt /\ locals.fixup_alt_jump = cl.fixup_alt_jump
        /\ locals.laststart \in {cl.laststart, End(Code)} /\ locals.stack = cl.stack
        /\ locals.list = cl.list
    BY <2>1, RunningLocals DEF Fields
  <2> HIDE DEF locals
  <2>3. QED BY <1>2, <2>1, <2>2, Zenon
<1>4. CASE EndLine
  <2> DEFINE locals == [cl EXCEPT !.p = Token.p]
  <2>1. cl.pc = "pattern" /\ Emit(1, Append(Code, op.endline), locals)
    BY <1>4, Zenon DEF EndLine, AtToken
  <2>2. /\ DOMAIN locals = DOMAIN cl /\ locals.pc = cl.pc /\ locals.ret = cl.ret
        /\ locals.begalt = cl.begalt /\ locals.fixup_alt_jump = cl.fixup_alt_jump
        /\ locals.laststart \in {cl.laststart, End(Code)} /\ locals.stack = cl.stack
        /\ locals.list = cl.list
    BY <2>1, RunningLocals DEF Fields
  <2> HIDE DEF locals
  <2>3. QED BY <1>2, <2>1, <2>2, Zenon
<1>5. CASE AnyChar
  <2> DEFINE locals == [cl EXCEPT !.p = Token.p, !.laststart = End(Code)]
  <2>1. cl.pc = "pattern" /\ Emit(1, Append(Code, op.anychar), locals)
    BY <1>5, Zenon DEF AnyChar, AtToken
  <2>2. /\ DOMAIN locals = DOMAIN cl /\ locals.pc = cl.pc /\ locals.ret = cl.ret
        /\ locals.begalt = cl.begalt /\ locals.fixup_alt_jump = cl.fixup_alt_jump
        /\ locals.laststart \in {cl.laststart, End(Code)} /\ locals.stack = cl.stack
        /\ locals.list = cl.list
    BY <2>1, RunningLocals DEF Fields
  <2> HIDE DEF locals
  <2>3. QED BY <1>2, <2>1, <2>2, Zenon
<1>6. CASE SimpleOp
  <2> DEFINE locals == [cl EXCEPT !.p = Token.p,
                                  !.laststart = IF Token.c \in {"w", "W"} THEN End(Code) ELSE @]
  <2>1. cl.pc = "pattern" /\ Emit(1, Append(Code, SimpleOps[Token.c]), locals)
    BY <1>6, Zenon DEF SimpleOp, AtToken
  <2>2. /\ DOMAIN locals = DOMAIN cl /\ locals.pc = cl.pc /\ locals.ret = cl.ret
        /\ locals.begalt = cl.begalt /\ locals.fixup_alt_jump = cl.fixup_alt_jump
        /\ locals.laststart \in {cl.laststart, End(Code)} /\ locals.stack = cl.stack
        /\ locals.list = cl.list
    BY <2>1, RunningLocals DEF Fields
  <2> HIDE DEF locals
  <2>3. QED BY <1>2, <2>1, <2>2, Zenon
<1>7. CASE Duplicate
  <2> DEFINE locals == [cl EXCEPT !.p = Token.p, !.laststart = End(Code)]
             two == <<op.duplicate, Digit(Token.c)>>
             code == Code \o two
  <2>1. cl.pc = "pattern" /\ EmitWith(bufp.re_nsub, 2, code, locals)
    BY <1>7, Zenon DEF Duplicate, AtToken, Emit
  <2>2. /\ DOMAIN locals = DOMAIN cl /\ locals.pc = cl.pc /\ locals.ret = cl.ret
        /\ locals.begalt = cl.begalt /\ locals.fixup_alt_jump = cl.fixup_alt_jump
        /\ locals.laststart \in {cl.laststart, End(Code)} /\ locals.stack = cl.stack
        /\ locals.list = cl.list
    BY <2>1, RunningLocals DEF Fields
  <2>3. IsSeq(two) /\ Len(two) = 2
    BY SeqTuple
  <2>4. code = Code \o two /\ 2 \in 0..3
    OBVIOUS
  <2> HIDE DEF locals, two, code
  <2>5. QED BY <2>1, <2>2, <2>3, <2>4, EmitAppended, Zenon
<1>8. CASE BadToken
  <2>1. Token.label # "REG_NOERROR" /\ Return(Token.label)
    BY <1>8 DEF BadToken, AtToken
  <2>2. QED BY <2>1, ReturnKeeps, Zenon
<1>9. QED BY <1>1, <1>3, <1>4, <1>5, <1>6, <1>7, <1>8

\* Locals that stay where they are while the bytecode grows.
LEMMA InsideStays ==
  ASSUME Sound, cl.pc = "pattern", NEW k \in Nat, Len(Code) <= k
  PROVE  /\ Inside(cl.begalt, cl.fixup_alt_jump, cl.laststart, k)
         /\ FramesInside(cl.stack, k)
<1>1. Len(Code) \in Nat /\ cl.pc # "returned"
  BY SoundCode
<1>2. /\ Inside(cl.begalt, cl.fixup_alt_jump, cl.laststart, Len(Code))
      /\ FramesInside(cl.stack, Len(Code))
  BY <1>1, RunningLocals
<1>3. QED BY <1>1, <1>2, InsideLonger, FramesLonger

LEMMA LoopKeeps ==
  ASSUME Sound, cl.pc = "pattern", cl.laststart # 0, NEW end, Loop(end)
  PROVE  Sound'
<1> DEFINE ops == {Char(pattern, i) : i \in cl.p..(end - 1)} \cap {"*", "+", "?"}
           zero_times_ok == ops # {"+"}
           many_times_ok == ops # {"?"}
           keep_string == /\ Fetch(end - 2) = "." /\ zero_times_ok /\ Fetch(end) = "\n"
                          /\ ~Has("RE_DOT_NEWLINE")
           last  == cl.laststart
           body  == IF ~many_times_ok THEN Code
                    ELSE IF keep_string THEN StoreJump(op.jump, Code, End(Code), last)
                    ELSE StoreJump(op.maybe_pop_jump, Code, End(Code), last - 3)
           o     == IF many_times_ok /\ keep_string
                    THEN op.on_failure_keep_string_jump ELSE op.on_failure_jump
           loop  == InsertJump(o, body, last, End(body) + 3)
           whole == IF zero_times_ok THEN loop
                    ELSE InsertJump(op.dummy_failure_jump, loop, last, last + 6)
           request == 3 + (IF many_times_ok THEN 3 ELSE 0) + (IF zero_times_ok THEN 0 ELSE 3)
           locals == [cl EXCEPT !.p = end, !.pending_exact = 0]
<1>1. EmitWith(bufp.re_nsub, request, whole, locals)
  BY DEF Loop, Emit
<1> HIDE DEF zero_times_ok, many_times_ok, keep_string, o
<1>2. IsSeq(Code) /\ Len(Code) \in Nat /\ last \in 1..(Len(Code) + 1)
  BY SoundCode, RunningLocals DEF Inside
<1>3. IsSeq(body) /\ Len(body) = Len(Code) + (IF many_times_ok THEN 3 ELSE 0)
  <2>1. End(Code) \in 1..(Len(Code) + 1) /\ End(Code) = Len(Code) + 1
    BY <1>2 DEF End
  <2>2. \A x, to : /\ IsSeq(StoreJump(x, Code, End(Code), to))
                   /\ Len(StoreJump(x, Code, End(Code), to)) = Len(Code) + 3
    BY <1>2, <2>1, StoreJumpLen
  <2>3. QED BY <1>2, <2>2
<1> HIDE DEF body, last
<1>4. Len(body) \in Nat /\ last \in 1..(Len(body) + 1)
  BY <1>2, <1>3
<1>5. IsSeq(loop) /\ Len(loop) = Len(body) + 3
  BY <1>3, <1>4, InsertJumpLen
<1> HIDE DEF loop
<1>6. Len(loop) \in Nat /\ last \in 1..(Len(loop) + 1)
  BY <1>4, <1>5
<1>7. IsSeq(whole) /\ Len(whole) = Len(loop) + (IF zero_times_ok THEN 0 ELSE 3)
  <2> DEFINE longer == InsertJump(op.dummy_failure_jump, loop, last, last + 6)
  <2>1. IsSeq(longer) /\ Len(longer) = Len(loop) + 3
    BY <1>5, <1>6, InsertJumpLen
  <2> HIDE DEF longer
  <2>2. whole = IF zero_times_ok THEN loop ELSE longer
    BY DEF longer
  <2> HIDE DEF whole
  <2>3. QED BY <1>5, <1>6, <2>1, <2>2
<1> HIDE DEF whole
<1>8. request \in Nat /\ Len(whole) = Len(Code) + request
  <2> DEFINE many == IF many_times_ok THEN 3 ELSE 0
             zero == IF zero_times_ok THEN 0 ELSE 3
  <2>1. many \in Nat /\ zero \in Nat /\ request = 3 + many + zero
    OBVIOUS
  <2>2. Len(body) = Len(Code) + many /\ Len(whole) = Len(loop) + zero
    BY <1>3, <1>7
  <2> HIDE DEF many, zero, request
  <2>3. QED BY <1>2, <1>5, <2>1, <2>2
<1> HIDE DEF request
<1>9. Len(whole) \in Nat /\ Len(Code) <= Len(whole) /\ Len(whole) <= Len(Code) + request
  BY <1>2, <1>8
<1>10. /\ DOMAIN locals = DOMAIN cl /\ locals.pc = cl.pc /\ locals.ret = cl.ret
       /\ locals.begalt = cl.begalt /\ locals.fixup_alt_jump = cl.fixup_alt_jump
       /\ locals.laststart = cl.laststart /\ locals.stack = cl.stack
       /\ locals.list = cl.list
  BY RunningLocals DEF Fields
<1> HIDE DEF locals
<1>11. Inside(locals.begalt, locals.fixup_alt_jump, locals.laststart, Len(whole))
  BY <1>9, <1>10, InsideStays
<1>12. QED BY <1>1, <1>7, <1>8, <1>9, <1>10, <1>11, EmitInPattern, Zenon

LEMMA NormalCharHereKeeps ==
  ASSUME Sound, cl.pc = "pattern", NEW c, NEW i, NormalCharOn(Code, 0, c, i)
  PROVE  Sound'
<1>1. IsSeq(Code) /\ Len(Code) \in Nat
  BY SoundCode
<1>2. 0 \in Nat /\ Len(Code) <= Len(Code) /\ Len(Code) <= Len(Code) + 0
  BY <1>1
<1>3. QED BY <1>1, <1>2, NormalCharKeeps, Zenon

\* No byte is written: the locals that say where the pattern is read move.
LEMMA NothingWrittenKeeps ==
  ASSUME Sound, cl.pc # "returned", NEW locals, Emit(0, Code, locals),
         DOMAIN locals = DOMAIN cl, locals.pc = cl.pc, locals.ret = cl.ret,
         locals.begalt = cl.begalt, locals.fixup_alt_jump = cl.fixup_alt_jump,
         locals.laststart = cl.laststart, locals.stack = cl.stack,
         locals.list \subseteq 0..255
  PROVE  Sound'
<1>1. IsSeq(Code) /\ Len(Code) \in Nat /\ Len(Code) + Margin(cl) <= bufp.allocated
  BY SoundCode
<1>2. Margin(locals) = Margin(cl) /\ 0 \in Nat /\ Len(Code) <= Len(Code)
  BY <1>1 DEF Margin
<1>3. EmitWith(bufp.re_nsub, 0, Code, locals)
  BY DEF Emit
<1>4. Inside(locals.begalt, locals.fixup_alt_jump, locals.laststart, Len(Code))
  BY RunningLocals
<1>5. locals.pc \in {"pattern", "list"} /\ (locals.pc = "list" => Len(Code) >= 1)
  BY RunningLocals DEF LocalsInside
<1>6. Len(Code) + Margin(locals) <= bufp.allocated
  BY <1>1, <1>2
<1>7. QED BY <1>1, <1>2, <1>3, <1>4, <1>5, <1>6, EmitMoved, Zenon

LEMMA HandlePlusKeeps ==
  ASSUME Sound, HandlePlus
  PROVE  Sound'
<1> DEFINE end == RepeatEnd(cl.p)
           locals == [cl EXCEPT !.p = end]
<1>1. cl.pc = "pattern"
  BY Zenon DEF HandlePlus, AtToken
<1>2. \/ Return("REG_BADRPT") \/ Return("REG_EESCAPE")
      \/ NormalCharOn(Code, 0, Token.c, Token.p)
      \/ Emit(0, Code, locals)
      \/ cl.laststart # 0 /\ Loop(end)
  BY Zenon DEF HandlePlus
<1>3. CASE Emit(0, Code, locals)
  <2>1. /\ DOMAIN locals = DOMAIN cl /\ locals.pc = cl.pc /\ locals.ret = cl.ret
        /\ locals.begalt = cl.begalt /\ locals.fixup_alt_jump = cl.fixup_alt_jump
        /\ locals.laststart = cl.laststart /\ locals.stack = cl.stack
        /\ locals.list = cl.list
    BY <1>1, RunningLocals DEF Fields
  <2> HIDE DEF locals
  <2>2. locals.list \subseteq 0..255 /\ cl.pc # "returned"
    BY <1>1, <2>1, RunningLocals
  <2>3. QED BY <1>3, <2>1, <2>2, NothingWrittenKeeps, Zenon
<1> HIDE DEF end, locals
<1>4. "REG_BADRPT" # "REG_NOERROR" /\ "REG_EESCAPE" # "REG_NOERROR"
  OBVIOUS
<1>5. QED BY <1>1, <1>2, <1>3, <1>4, ReturnKeeps, NormalCharHereKeeps, LoopKeeps, Zenon

LEMMA HandleOpenKeeps ==
  ASSUME Sound, HandleOpen
  PROVE  Sound'
<1> DEFINE regnum == cl.regnum + 1
           kept   == regnum <= MAX_REGNUM
           saved  == [begalt |-> cl.begalt, fixup_alt_jump |-> cl.fixup_alt_jump,
                      laststart |-> End(Code), inner |-> End(Code) + 2, regnum |-> regnum]
           three  == <<op.start_memory, regnum, 0>>
           code   == IF kept THEN Code \o three ELSE Code
           room   == IF kept THEN 3 ELSE 0
           locals == [cl EXCEPT !.p = Token.p, !.regnum = regnum, !.stack = Append(@, saved),
                                !.fixup_alt_jump = 0, !.laststart = 0, !.begalt = End(code),
                                !.pending_exact = 0]
<1>1. cl.pc = "pattern" /\ EmitWith(bufp.re_nsub + 1, room, code, locals)
  BY Zenon DEF HandleOpen, AtToken
<1>2. IsSeq(three) /\ Len(three) = 3
  BY SeqTuple
<1> HIDE DEF three
<1>3. IsSeq(Code) /\ Len(Code) \in Nat
  BY SoundCode
<1>4. IsSeq(Code \o three) /\ Len(Code \o three) = Len(Code) + 3
  BY <1>2, <1>3, SeqConcat
<1>5. /\ IsSeq(code) /\ Len(code) = Len(Code) + room /\ room \in 0..3
      /\ kept => room = 3
  BY <1>3, <1>4
<1>6. /\ saved.begalt = cl.begalt /\ saved.fixup_alt_jump = cl.fixup_alt_jump
      /\ saved.laststart = Len(Code) + 1 /\ saved.inner = Len(Code) + 3
      /\ saved.regnum <= MAX_REGNUM => kept
  BY <1>3 DEF End
<1> DEFINE stack == Append(cl.stack, saved)
<1>7. /\ DOMAIN locals = DOMAIN cl /\ locals.pc = cl.pc /\ locals.ret = cl.ret
      /\ locals.begalt = Len(code) + 1 /\ locals.fixup_alt_jump = 0
      /\ locals.laststart = 0 /\ locals.stack = stack /\ locals.list = cl.list
  BY <1>1, RunningLocals DEF Fields, End
<1> HIDE DEF saved, locals, code, room, kept
<1>8. Len(code) \in Nat /\ Len(Code) <= Len(code) /\ Len(code) <= Len(Code) + room /\ room \in Nat
  BY <1>3, <1>5
<1>9. Inside(locals.begalt, locals.fixup_alt_jump, locals.laststart, Len(code))
  BY <1>7, <1>8 DEF Inside
<1>10. FramesInside(cl.stack, Len(code)) /\ Inside(cl.begalt, cl.fixup_alt_jump, cl.laststart, Len(code))
  BY <1>1, <1>8, InsideStays
<1>11. FramesInside(stack, Len(code))
  <2>1. /\ IsSeq(stack) /\ Len(stack) = Len(cl.stack) + 1
        /\ \A k \in 1..Len(cl.stack) : stack[k] = cl.stack[k]
        /\ stack[Len(cl.stack) + 1] = saved
    BY <1>10, SeqAppend DEF FramesInside
  <2>2. Len(cl.stack) \in Nat
    BY <1>10, SeqLen DEF FramesInside
  <2>3. ASSUME NEW k \in 1..Len(stack)
        PROVE  /\ Inside(stack[k].begalt, stack[k].fixup_alt_jump, stack[k].laststart, Len(code))
               /\ stack[k].regnum <= MAX_REGNUM => stack[k].inner \in 1..Len(code)
    <3>1. CASE k \in 1..Len(cl.stack)
      <4>1. stack[k] = cl.stack[k]
        BY <2>1, <3>1
      <4> HIDE DEF stack
      <4>2. QED BY <1>10, <3>1, <4>1 DEF FramesInside
    <3>2. CASE k \notin 1..Len(cl.stack)
      <4>1. k = Len(cl.stack) + 1
        BY <2>1, <2>2, <3>2
      <4>2. stack[k] = saved
        BY <2>1, <4>1
      <4> HIDE DEF stack
      <4>3. Inside(cl.begalt, cl.fixup_alt_jump, Len(Code) + 1, Len(code))
        BY <1>3, <1>8, <1>10 DEF Inside
      <4>4. kept => Len(Code) + 3 \in 1..Len(code)
        BY <1>3, <1>5
      <4>5. Inside(saved.begalt, saved.fixup_alt_jump, saved.laststart, Len(code))
        BY <1>6, <4>3, Zenon
      <4>6. saved.regnum <= MAX_REGNUM => saved.inner \in 1..Len(code)
        BY <1>6, <4>4, Zenon
      <4>7. QED BY <4>2, <4>5, <4>6, Zenon
    <3>3. QED BY <3>1, <3>2
  <2> HIDE DEF stack
  <2>4. QED BY <2>1, <2>3 DEF FramesInside
<1>12. locals.stack = cl.stack \/ FramesInside(locals.stack, Len(code))
  BY <1>7, <1>11, Zenon
<1>13. QED BY <1>1, <1>5, <1>7, <1>8, <1>9, <1>12, EmitInPattern, Zenon

\* The jump over the rest of the alternatives, over the gap left for it.
LEMMA FixedUp ==
  ASSUME NEW o, NEW code, NEW to, IsSeq(code), NEW n \in Nat, n <= Len(code),
         NEW begalt, NEW laststart, Inside(begalt, cl.fixup_alt_jump, laststart, n),
         cl.fixup_alt_jump # 0
  PROVE  /\ IsSeq(StoreJump(o, code, cl.fixup_alt_jump, to))
         /\ Len(StoreJump(o, code, cl.fixup_alt_jump, to)) = Len(code)
<1> DEFINE loc == cl.fixup_alt_jump
<1>1. Len(code) \in Nat
  BY SeqLen
<1>2. loc \in 1..(Len(code) + 1) /\ loc + 2 <= Len(code)
  BY <1>1 DEF Inside
<1> HIDE DEF loc
<1>3. IsSeq(StoreJump(o, code, loc, to)) /\ Len(StoreJump(o, code, loc, to)) = Len(code)
  BY <1>2, StoreJumpLen
<1>4. QED BY <1>3 DEF loc

LEMMA HandleAltKeeps ==
  ASSUME Sound, HandleAlt
  PROVE  Sound'
<1> DEFINE first == InsertJump(op.on_failure_jump, Code, cl.begalt, End(Code) + 6)
           fixed == IF cl.fixup_alt_jump = 0 THEN first
                    ELSE StoreJump(op.jump_past_alt, first, cl.fixup_alt_jump, End(first))
           gap   == <<Hole, Hole, Hole>>
           code  == fixed \o gap
           locals == [cl EXCEPT !.p = Token.p, !.pending_exact = 0, !.laststart = 0,
                                !.fixup_alt_jump = End(fixed), !.begalt = End(code)]
<1>1. /\ cl.pc = "pattern"
      /\ NormalCharOn(Code, 0, Token.c, Token.p) \/ EmitWith(bufp.re_nsub, 6, code, locals)
  BY Zenon DEF HandleAlt, AtToken, Emit
<1>2. CASE EmitWith(bufp.re_nsub, 6, code, locals)
  <2>1. /\ IsSeq(Code) /\ Len(Code) \in Nat /\ cl.begalt \in 1..(Len(Code) + 1)
        /\ Inside(cl.begalt, cl.fixup_alt_jump, cl.laststart, Len(Code))
    BY <1>1, SoundCode, RunningLocals DEF Inside
  <2>2. IsSeq(first) /\ Len(first) = Len(Code) + 3
    BY <2>1, InsertJumpLen
  <2> HIDE DEF first
  <2>3. Len(Code) <= Len(first)
    BY <2>1, <2>2
  <2>4. IsSeq(fixed) /\ Len(fixed) = Len(first)
    <3>1. CASE cl.fixup_alt_jump = 0
      BY <2>2, <3>1
    <3>2. CASE cl.fixup_alt_jump # 0
      <4> DEFINE jumped == StoreJump(op.jump_past_alt, first, cl.fixup_alt_jump, End(first))
      <4>1. IsSeq(jumped) /\ Len(jumped) = Len(first)
        BY <2>1, <2>2, <2>3, <3>2, FixedUp, Zenon
      <4>2. fixed = jumped
        BY <3>2
      <4> HIDE DEF fixed, jumped
      <4>3. QED BY <4>1, <4>2, Zenon
    <3>3. QED BY <3>1, <3>2
  <2>5. IsSeq(gap) /\ Len(gap) = 3
    BY SeqTuple
  <2> HIDE DEF fixed, gap
  <2>6. IsSeq(code) /\ Len(code) = Len(fixed) + 3
    BY <2>4, <2>5, SeqConcat
  <2>7. /\ DOMAIN locals = DOMAIN cl /\ locals.pc = cl.pc /\ locals.ret = cl.ret
        /\ locals.begalt = Len(code) + 1 /\ locals.fixup_alt_jump = Len(fixed) + 1
        /\ locals.laststart = 0 /\ locals.stack = cl.stack /\ locals.list = cl.list
    BY <1>1, RunningLocals DEF Fields, End
  <2> HIDE DEF code, locals
  <2>8. /\ Len(code) \in Nat /\ Len(Code) <= Len(code) /\ Len(code) <= Len(Code) + 6
        /\ Len(code) = Len(Code) + 6 /\ Len(fixed) = Len(Code) + 3 /\ 6 \in Nat
    BY <2>1, <2>2, <2>4, <2>6
  <2>9. Inside(locals.begalt, locals.fixup_alt_jump, locals.laststart, Len(code))
    BY <2>1, <2>7, <2>8 DEF Inside
  <2>10. QED BY <1>1, <1>2, <2>6, <2>7, <2>8, <2>9, EmitInPattern, Zenon
<1> HIDE DEF locals, code
<1>3. QED BY <1>1, <1>2, NormalCharHereKeeps, Zenon

LEMMA HandleCloseKeeps ==
  ASSUME Sound, HandleClose
  PROVE  Sound'
<1> DEFINE alt   == cl.fixup_alt_jump # 0
           more  == Append(Code, op.push_dummy_failure)
           code  == IF alt THEN StoreJump(op.jump_past_alt, more, cl.fixup_alt_jump, End(Code))
                    ELSE Code
           room  == IF alt THEN 1 ELSE 0
           top   == Last(cl.stack)
           kept  == top.regnum <= MAX_REGNUM
           inner == (cl.regnum - top.regnum) % 256
           three == <<op.stop_memory, top.regnum, inner>>
           one   == <<inner>>
           whole == IF kept THEN Put(code, top.inner, one) \o three ELSE code
           asked == room + (IF kept THEN 3 ELSE 0)
           locals == [cl EXCEPT !.p = Token.p, !.stack = Front(@), !.begalt = top.begalt,
                                !.fixup_alt_jump = top.fixup_alt_jump,
                                !.laststart = top.laststart, !.pending_exact = 0]
<1>1. /\ cl.pc = "pattern"
      /\ \/ NormalCharOn(code, room, Token.c, Token.p)
         \/ Return("REG_ERPAREN")
         \/ cl.stack # <<>> /\ EmitWith(bufp.re_nsub, asked, whole, locals)
  BY Zenon DEF HandleClose, AtToken, Emit
<1>2. /\ IsSeq(Code) /\ Len(Code) \in Nat
      /\ Inside(cl.begalt, cl.fixup_alt_jump, cl.laststart, Len(Code))
      /\ FramesInside(cl.stack, Len(Code))
  BY <1>1, SoundCode, RunningLocals
<1>3. IsSeq(more) /\ Len(more) = Len(Code) + 1
  BY <1>2, SeqAppend
<1>4. /\ IsSeq(code) /\ Len(code) = Len(Code) + room /\ room \in 0..1
  <2>1. CASE alt
    <3> DEFINE jumped == StoreJump(op.jump_past_alt, more, cl.fixup_alt_jump, End(Code))
    <3>1. Len(Code) <= Len(more)
      BY <1>2, <1>3
    <3>2. IsSeq(jumped) /\ Len(jumped) = Len(more)
      <4> HIDE DEF more
      <4>1. QED BY <1>2, <1>3, <2>1, <3>1, FixedUp, Zenon
    <3>3. code = jumped /\ room = 1
      BY <2>1
    <3> HIDE DEF jumped, more, room, code
    <3>4. QED BY <1>2, <1>3, <3>2, <3>3
  <2>2. CASE ~alt
    BY <1>2, <2>2
  <2>3. QED BY <2>1, <2>2
<1> HIDE DEF more, code, room
<1>5. room \in Nat /\ Len(code) \in Nat /\ Len(Code) <= Len(code) /\ Len(code) <= Len(Code) + room
  BY <1>2, <1>4
<1>6. CASE NormalCharOn(code, room, Token.c, Token.p)
  BY <1>1, <1>4, <1>5, <1>6, NormalCharKeeps, Zenon
<1>7. CASE cl.stack # <<>> /\ EmitWith(bufp.re_nsub, asked, whole, locals)
  <2> DEFINE n == Len(cl.stack)
  <2>1. n \in Nat /\ n # 0 /\ top = cl.stack[n]
    <3>1. PICK S : cl.stack \in Seq(S)
      BY <1>2 DEF FramesInside, IsSeq
    <3>2. QED BY <1>7, <3>1 DEF Last
  <2> HIDE DEF n, top
  <2>2. n \in 1..Len(cl.stack) /\ n = Len(cl.stack)
    BY <2>1 DEF n
  <2>3. /\ Inside(top.begalt, top.fixup_alt_jump, top.laststart, Len(Code))
        /\ kept => top.inner \in 1..Len(Code)
    BY <1>2, <2>1, <2>2 DEF FramesInside
  <2> HIDE DEF kept
  <2>4. IsSeq(one) /\ Len(one) = 1 /\ IsSeq(three) /\ Len(three) = 3
    BY SeqTuple
  <2> HIDE DEF one, three, inner
  <2>5. kept => /\ IsSeq(Put(code, top.inner, one) \o three)
                /\ Len(Put(code, top.inner, one) \o three) = Len(code) + 3
    <3> SUFFICES ASSUME kept
                 PROVE  /\ IsSeq(Put(code, top.inner, one) \o three)
                        /\ Len(Put(code, top.inner, one) \o three) = Len(code) + 3
      OBVIOUS
    <3> DEFINE loc == top.inner
               put == Put(code, loc, one)
    <3>1. loc \in 1..(Len(code) + 1) /\ loc + 1 <= Len(code) + 1
      BY <1>2, <1>5, <2>3
    <3> HIDE DEF loc
    <3>2. /\ IsSeq(put)
          /\ Len(put) = IF loc + Len(one) <= Len(code) + 1 THEN Len(code)
                        ELSE loc + Len(one) - 1
      BY <1>4, <2>4, <3>1, PutLen, Zenon
    <3> HIDE DEF put
    <3>3. Len(put) = Len(code)
      BY <2>4, <3>1, <3>2
    <3>4. IsSeq(put \o three) /\ Len(put \o three) = Len(put) + Len(three)
      BY <2>4, <3>2, SeqConcat, Zenon
    <3>5. QED BY <2>4, <3>3, <3>4 DEF put, loc
  <2>6. IsSeq(whole) /\ Len(whole) = Len(Code) + asked /\ asked \in Nat
    <3> DEFINE long == Put(code, top.inner, one) \o three
    <3>1. whole = IF kept THEN long ELSE code
      OBVIOUS
    <3>2. kept => IsSeq(long) /\ Len(long) = Len(code) + 3
      BY <2>5
    <3> HIDE DEF long, whole
    <3>3. CASE kept
      BY <1>2, <1>4, <1>5, <3>1, <3>2, <3>3
    <3>4. CASE ~kept
      BY <1>2, <1>4, <1>5, <3>1, <3>4
    <3>5. QED BY <3>3, <3>4
  <2> HIDE DEF whole, asked
  <2>7. Len(whole) \in Nat /\ Len(Code) <= Len(whole) /\ Len(whole) <= Len(Code) + asked
    BY <1>2, <2>6
  <2>8. /\ DOMAIN locals = DOMAIN cl /\ locals.pc = cl.pc /\ locals.ret = cl.ret
        /\ locals.begalt = top.begalt /\ locals.fixup_alt_jump = top.fixup_alt_jump
        /\ locals.laststart = top.laststart /\ locals.stack = Front(cl.stack)
        /\ locals.list = cl.list
    BY <1>1, RunningLocals DEF Fields
  <2> HIDE DEF locals
  <2>9. Inside(locals.begalt, locals.fixup_alt_jump, locals.laststart, Len(whole))
    BY <1>2, <2>3, <2>7, <2>8, InsideLonger
  <2>10. FramesInside(locals.stack, Len(whole))
    <3>1. FramesInside(cl.stack, Len(whole))
      BY <1>2, <2>7, FramesLonger
    <3> DEFINE front == Front(cl.stack)
    <3>2. /\ IsSeq(front) /\ Len(front) = n - 1
          /\ \A k \in 1..(n - 1) : front[k] = cl.stack[k]
      <4>1. 1 \in 1..(Len(cl.stack) + 1) /\ n - 1 \in (1 - 1)..Len(cl.stack)
        BY <2>1, <2>2
      <4>2. IsSeq(cl.stack)
        BY <1>2 DEF FramesInside
      <4> DEFINE piece == SubSeq(cl.stack, 1, n - 1)
      <4>3. /\ IsSeq(piece) /\ Len(piece) = (n - 1) - 1 + 1
            /\ \A k \in 1..((n - 1) - 1 + 1) : piece[k] = cl.stack[1 + k - 1]
        BY <4>1, <4>2, SeqPiece, Zenon
      <4>4. front = piece
        BY <2>2 DEF Front
      <4> HIDE DEF piece, front
      <4>5. \A k \in 1..(n - 1) : piece[k] = cl.stack[k]
        <5> SUFFICES ASSUME NEW k \in 1..(n - 1)
                     PROVE  piece[k] = cl.stack[k]
          OBVIOUS
        <5>1. k \in 1..((n - 1) - 1 + 1) /\ 1 + k - 1 = k
          BY <2>1
        <5>2. piece[k] = cl.stack[1 + k - 1]
          BY <4>3, <5>1
        <5>3. QED BY <5>1, <5>2
      <4>6. QED BY <2>1, <4>3, <4>4, <4>5
    <3>3. front = locals.stack
      BY <2>8
    <3> HIDE DEF front
    <3>4. \A k \in 1..Len(front) : k \in 1..Len(cl.stack) /\ front[k] = cl.stack[k]
      BY <2>1, <2>2, <3>2
    <3>5. FramesInside(front, Len(whole))
      BY <3>1, <3>2, <3>4 DEF FramesInside
    <3>6. QED BY <3>3, <3>5
  <2>11. QED BY <1>1, <1>7, <2>6, <2>7, <2>8, <2>9, <2>10, EmitInPattern, Zenon
<1> HIDE DEF whole, asked, locals
<1>8. "REG_ERPAREN" # "REG_NOERROR"
  OBVIOUS
<1>9. QED BY <1>1, <1>6, <1>7, <1>8, ReturnKeeps, Zenon

LEMMA InsertOp2Len ==
  ASSUME NEW o, NEW code, NEW x, NEW y, IsSeq(code), NEW loc \in 1..(Len(code) + 1)
  PROVE  /\ IsSeq(Insert(code, loc, Op2(o, x, y)))
         /\ Len(Insert(code, loc, Op2(o, x, y))) = Len(code) + 5
<1> DEFINE bytes == Op2(o, x, y)
<1>1. IsSeq(bytes) /\ Len(bytes) = 5
  BY OpLen
<1> HIDE DEF bytes
<1>2. IsSeq(Insert(code, loc, bytes)) /\ Len(Insert(code, loc, bytes)) = Len(code) + Len(bytes)
  BY <1>1, InsertLen
<1>3. QED BY <1>1, <1>2 DEF bytes

LEMMA AppendOp2Len ==
  ASSUME NEW o, NEW code, NEW x, NEW y, IsSeq(code)
  PROVE  /\ IsSeq(Put(code, End(code), Op2(o, x, y)))
         /\ Len(Put(code, End(code), Op2(o, x, y))) = Len(code) + 5
<1> DEFINE bytes == Op2(o, x, y)
           loc == Len(code) + 1
<1>1. IsSeq(bytes) /\ Len(bytes) = 5 /\ Len(code) \in Nat
  BY OpLen, SeqLen
<1> HIDE DEF bytes
<1>2. loc \in 1..(Len(code) + 1)
  BY <1>1
<1>3. /\ IsSeq(Put(code, loc, bytes))
      /\ Len(Put(code, loc, bytes)) =
           IF loc + Len(bytes) <= Len(code) + 1 THEN Len(code) ELSE loc + Len(bytes) - 1
  <2> HIDE DEF loc
  <2>1. QED BY <1>1, <1>2, PutLen
<1>4. QED BY <1>1, <1>3 DEF bytes, End

LEMMA RepeatedLen ==
  ASSUME NEW code, IsSeq(code), NEW last \in 1..(Len(code) + 1), NEW lower, NEW upper
  PROVE  /\ IsSeq(Repeated(code, last, lower, upper))
         /\ Len(Repeated(code, last, lower, upper)) =
              Len(code) + (IF upper = 0 THEN 3 ELSE IF upper > 1 THEN 20 ELSE 10)
<1> DEFINE more == upper > 1
           try  == InsertJump2(op.succeed_n, code, last,
                               End(code) + 5 + (IF more THEN 5 ELSE 0), lower)
           from == Insert(try, last, Op2(op.set_number_at, 5, lower))
           back == StoreJump2(op.jump_n, from, End(from), last + 5, upper - 1)
           upto == Insert(back, last, Op2(op.set_number_at, End(back) - last, upper - 1))
           none == InsertJump(op.jump, code, last, End(code) + 3)
           whole == Repeated(code, last, lower, upper)
<1>1. whole = IF upper = 0 THEN none ELSE IF more THEN upto ELSE from
  BY Zenon DEF Repeated
<1>2. Len(code) \in Nat
  BY SeqLen
<1>3. IsSeq(none) /\ Len(none) = Len(code) + 3
  BY InsertJumpLen
<1>4. IsSeq(try) /\ Len(try) = Len(code) + 5
  BY InsertOp2Len DEF InsertJump2
<1> HIDE DEF whole, none, try
<1>5. last \in 1..(Len(try) + 1)
  BY <1>2, <1>4
<1>6. IsSeq(from) /\ Len(from) = Len(try) + 5
  BY <1>4, <1>5, InsertOp2Len
<1> HIDE DEF from
<1>7. IsSeq(back) /\ Len(back) = Len(from) + 5
  BY <1>6, AppendOp2Len DEF StoreJump2
<1> HIDE DEF back
<1>8. last \in 1..(Len(back) + 1)
  BY <1>2, <1>4, <1>6, <1>7
<1>9. IsSeq(upto) /\ Len(upto) = Len(back) + 5
  BY <1>7, <1>8, InsertOp2Len
<1> HIDE DEF upto
<1>10. /\ IsSeq(whole)
       /\ Len(whole) = Len(code) + (IF upper = 0 THEN 3 ELSE IF more THEN 20 ELSE 10)
  <2> HIDE DEF more
  <2>1. Len(from) = Len(code) + 10 /\ Len(upto) = Len(code) + 20
    BY <1>2, <1>4, <1>6, <1>7, <1>9
  <2>2. CASE upper = 0
    BY <1>1, <1>3, <2>2
  <2>3. CASE upper # 0 /\ more
    BY <1>1, <1>9, <2>1, <2>3
  <2>4. CASE upper # 0 /\ ~more
    BY <1>1, <1>6, <2>1, <2>4
  <2>5. QED BY <2>2, <2>3, <2>4
<1>11. QED BY <1>10 DEF whole, more

LEMMA IntervalLabel ==
  ASSUME NEW low, NEW high
  PROVE  Interval(low, high).label # "REG_NOERROR"
BY DEF Interval

LEMMA HandleIntervalKeeps ==
  ASSUME Sound, HandleInterval
  PROVE  Sound'
<1>1. cl.pc = "pattern"
  BY Zenon DEF HandleInterval, AtToken
<1> DEFINE last == IF cl.laststart = 0 THEN End(Code) ELSE cl.laststart
           request(n) == IF n.upper = 0 THEN 3 ELSE IF n.upper > 1 THEN 20 ELSE 10
           whole(n) == Repeated(Code, last, n.lower, n.upper)
           locals(n) == [cl EXCEPT !.p = n.p, !.pending_exact = 0, !.laststart = last]
<1>2. PICK n : \/ NormalCharOn(Code, 0, "{", Token.p)
               \/ EmitWith(bufp.re_nsub, request(n), whole(n), locals(n))
               \/ Return(n.label) /\ n.label # "REG_NOERROR"
  <2>1. PICK low \in {GetUnsignedNumber(Token.p, Token.c)} :
          \E n \in {Interval(low, GetUnsignedNumber(low.p, low.c))} :
            \/ NormalCharOn(Code, 0, "{", Token.p)
            \/ EmitWith(bufp.re_nsub, request(n), whole(n), locals(n))
            \/ Return(n.label)
    BY Zenon DEF HandleInterval, Emit
  <2>2. Interval(low, GetUnsignedNumber(low.p, low.c)).label # "REG_NOERROR"
    BY IntervalLabel
  <2>3. QED BY <2>1, <2>2, Zenon
<1>3. CASE EmitWith(bufp.re_nsub, request(n), whole(n), locals(n))
  <2> DEFINE code == whole(n)
             asked == request(n)
             new == locals(n)
  <2>1. /\ IsSeq(Code) /\ Len(Code) \in Nat
        /\ Inside(cl.begalt, cl.fixup_alt_jump, cl.laststart, Len(Code))
    BY <1>1, SoundCode, RunningLocals
  <2>2. last \in 1..(Len(Code) + 1)
    BY <2>1 DEF Inside, End
  <2> HIDE DEF last
  <2>3. IsSeq(code) /\ Len(code) = Len(Code) + asked /\ asked \in Nat
    BY <2>1, <2>2, RepeatedLen
  <2>4. /\ DOMAIN new = DOMAIN cl /\ new.pc = cl.pc /\ new.ret = cl.ret
        /\ new.begalt = cl.begalt /\ new.fixup_alt_jump = cl.fixup_alt_jump
        /\ new.laststart = last /\ new.stack = cl.stack /\ new.list = cl.list
    BY <1>1, RunningLocals DEF Fields
  <2>5. EmitWith(bufp.re_nsub, asked, code, new)
    BY <1>3
  <2> HIDE DEF code, asked, new
  <2>6. Len(code) \in Nat /\ Len(Code) <= Len(code) /\ Len(code) <= Len(Code) + asked
    BY <2>1, <2>3
  <2>7. Inside(new.begalt, new.fixup_alt_jump, new.laststart, Len(code))
    BY <2>1, <2>2, <2>4, <2>6 DEF Inside
  <2>8. QED BY <1>1, <2>3, <2>4, <2>5, <2>6, <2>7, EmitInPattern, Zenon
<1> HIDE DEF locals, whole, request
<1>4. QED BY <1>1, <1>2, <1>3, NormalCharHereKeeps, ReturnKeeps, Zenon

\* What a step of a bracket expression may do to the list.
LEMMA ListGrows ==
  ASSUME Sound, cl.pc = "list", NEW locals, Emit(0, Code, locals),
         DOMAIN locals = DOMAIN cl, locals.pc = cl.pc, locals.ret = cl.ret,
         locals.begalt = cl.begalt, locals.fixup_alt_jump = cl.fixup_alt_jump,
         locals.laststart = cl.laststart, locals.stack = cl.stack,
         NEW more, more \subseteq 0..255, locals.list = cl.list \cup more
  PROVE  Sound'
<1>1. cl.pc # "returned"
  OBVIOUS
<1>2. locals.list \subseteq 0..255
  BY <1>1, RunningLocals
<1>3. QED BY <1>1, <1>2, NothingWrittenKeeps, Zenon

LEMMA CompileRangeKeeps ==
  ASSUME Sound, cl.pc = "list", NEW i, CompileRange(i)
  PROVE  Sound'
<1> DEFINE from == Ord[Char(pattern, i - 2)]
           to   == Ord[Char(pattern, i)]
           more == {IF bufp.translate THEN LowerCode(o) ELSE o : o \in from..to}
           locals == [cl EXCEPT !.p = i + 1, !.list = @ \cup more]
<1>1. Return("REG_ERANGE") \/ Emit(0, Code, locals)
  BY Zenon DEF CompileRange
<1>2. CASE Emit(0, Code, locals)
  <2>1. pattern \in Seq(DOMAIN Ord)
    BY DEF Sound, CompileInv
  <2>2. from \in 0..255 /\ to \in 0..255
    BY <2>1, CharHasACode
  <2> HIDE DEF from, to
  <2>3. more \subseteq 0..255
    <3> SUFFICES ASSUME NEW o \in from..to
                 PROVE  (IF bufp.translate THEN LowerCode(o) ELSE o) \in 0..255
      OBVIOUS
    <3>1. o \in 0..255
      BY <2>2
    <3>2. QED BY <3>1, LowerCodeIsACode
  <2> HIDE DEF more
  <2>4. /\ DOMAIN locals = DOMAIN cl /\ locals.pc = cl.pc /\ locals.ret = cl.ret
        /\ locals.begalt = cl.begalt /\ locals.fixup_alt_jump = cl.fixup_alt_jump
        /\ locals.laststart = cl.laststart /\ locals.stack = cl.stack
        /\ locals.list = cl.list \cup more
    BY RunningLocals DEF Fields
  <2> HIDE DEF locals
  <2>5. QED BY <1>2, <2>3, <2>4, ListGrows, Zenon
<1> HIDE DEF locals
<1>3. "REG_ERANGE" # "REG_NOERROR"
  OBVIOUS
<1>4. QED BY <1>1, <1>2, <1>3, ReturnKeeps, Zenon

LEMMA ClassKeeps ==
  ASSUME Sound, cl.pc = "list", NEW i, Class(i)
  PROVE  Sound'
<1> DEFINE stop == CHOOSE e \in i..(i + 6) :
                     /\ Fetch(e) \in {":", "]"} \/ e = Len(pattern) \/ e = i + 6
                     /\ \A k \in i..(e - 1) : Fetch(k) \notin {":", "]"} /\ k < Len(pattern)
           name == {n \in DOMAIN CharClass : Chars(n) = [k \in 1..(stop - i) |-> Fetch(i + k - 1)]}
           literal == {Ord["["], Ord[":"]}
           class == UNION {CharClass[n] : n \in name}
           plain == [cl EXCEPT !.p = i, !.list = @ \cup literal, !.had_char_class = FALSE]
           named == [cl EXCEPT !.p = stop + 2, !.had_char_class = TRUE, !.list = @ \cup class]
<1>1. \/ Return("REG_EBRACK") \/ Return("REG_ECTYPE")
      \/ Emit(0, Code, plain) \/ Emit(0, Code, named)
  BY Zenon DEF Class
<1>2. CASE Emit(0, Code, plain)
  <2>1. literal \subseteq 0..255
    BY LiteralAssumption, OrdIsACode
  <2> HIDE DEF literal
  <2>2. /\ DOMAIN plain = DOMAIN cl /\ plain.pc = cl.pc /\ plain.ret = cl.ret
        /\ plain.begalt = cl.begalt /\ plain.fixup_alt_jump = cl.fixup_alt_jump
        /\ plain.laststart = cl.laststart /\ plain.stack = cl.stack
        /\ plain.list = cl.list \cup literal
    BY RunningLocals DEF Fields
  <2> HIDE DEF plain
  <2>3. QED BY <1>2, <2>1, <2>2, ListGrows, Zenon
<1>3. CASE Emit(0, Code, named)
  <2> HIDE DEF stop
  <2>1. class \subseteq 0..255
    BY ClassIsOfCodes, ZenonT(30)
  <2> HIDE DEF class
  <2>2. /\ DOMAIN named = DOMAIN cl /\ named.pc = cl.pc /\ named.ret = cl.ret
        /\ named.begalt = cl.begalt /\ named.fixup_alt_jump = cl.fixup_alt_jump
        /\ named.laststart = cl.laststart /\ named.stack = cl.stack
        /\ named.list = cl.list \cup class
    BY RunningLocals DEF Fields
  <2> HIDE DEF named
  <2>3. QED BY <1>3, <2>1, <2>2, ListGrows, Zenon
<1> HIDE DEF plain, named
<1>4. "REG_EBRACK" # "REG_NOERROR" /\ "REG_ECTYPE" # "REG_NOERROR"
  OBVIOUS
<1>5. QED BY <1>1, <1>2, <1>3, <1>4, ReturnKeeps, Zenon

LEMMA ListElementsKeep ==
  ASSUME Sound, ListChar \/ ListEscape \/ ListRange \/ ListClass \/ ListBad
  PROVE  Sound'
<1>1. cl.pc = "list"
  BY Zenon DEF ListChar, ListEscape, ListRange, ListClass, ListBad, InList
<1>2. pattern \in Seq(DOMAIN Ord)
  BY DEF Sound, CompileInv
<1>3. CASE ListChar
  <2> DEFINE more == {Ord[Fetch(cl.p)]}
             locals == [cl EXCEPT !.p = @ + 1, !.had_char_class = FALSE, !.list = @ \cup more]
  <2>1. more \subseteq 0..255
    BY <1>2, CharHasACode
  <2>2. Emit(0, Code, locals)
    BY <1>3, Zenon DEF ListChar
  <2> HIDE DEF more
  <2>3. /\ DOMAIN locals = DOMAIN cl /\ locals.pc = cl.pc /\ locals.ret = cl.ret
        /\ locals.begalt = cl.begalt /\ locals.fixup_alt_jump = cl.fixup_alt_jump
        /\ locals.laststart = cl.laststart /\ locals.stack = cl.stack
        /\ locals.list = cl.list \cup more
    BY <1>1, RunningLocals DEF Fields
  <2> HIDE DEF locals
  <2>4. QED BY <1>1, <2>1, <2>2, <2>3, ListGrows, Zenon
<1>4. CASE ListEscape
  <2> DEFINE more == {Ord[Fetch(cl.p + 1)]}
             locals == [cl EXCEPT !.p = @ + 2, !.list = @ \cup more]
  <2>1. more \subseteq 0..255
    BY <1>2, CharHasACode
  <2>2. Emit(0, Code, locals)
    BY <1>4, Zenon DEF ListEscape
  <2> HIDE DEF more
  <2>3. /\ DOMAIN locals = DOMAIN cl /\ locals.pc = cl.pc /\ locals.ret = cl.ret
        /\ locals.begalt = cl.begalt /\ locals.fixup_alt_jump = cl.fixup_alt_jump
        /\ locals.laststart = cl.laststart /\ locals.stack = cl.stack
        /\ locals.list = cl.list \cup more
    BY <1>1, RunningLocals DEF Fields
  <2> HIDE DEF locals
  <2>4. QED BY <1>1, <2>1, <2>2, <2>3, ListGrows, Zenon
<1>5. CASE ListRange
  BY <1>1, <1>5, CompileRangeKeeps, Zenon DEF ListRange
<1>6. CASE ListClass
  BY <1>1, <1>6, ClassKeeps, Zenon DEF ListClass
<1>7. CASE ListBad
  <2>1. ListElement # "REG_NOERROR" /\ Return(ListElement)
    BY <1>7 DEF ListBad
  <2>2. QED BY <2>1, ReturnKeeps, Zenon
<1>8. QED BY <1>3, <1>4, <1>5, <1>6, <1>7

LEMMA ListStartKeeps ==
  ASSUME Sound, ListStart
  PROVE  Sound'
<1> DEFINE negated == Char(pattern, Token.p) = "^"
           p1   == IF negated THEN Token.p + 1 ELSE Token.p
           two  == <<IF negated THEN op.charset_not ELSE op.charset, 32>>
           list == IF negated /\ Has("RE_HAT_LISTS_NOT_NEWLINE") THEN {10} ELSE {}
           code == Code \o two
           locals == [cl EXCEPT !.pc = "list", !.p = p1, !.p1 = p1, !.laststart = End(Code),
                                !.had_char_class = FALSE, !.list = list]
<1>1. cl.pc = "pattern" /\ (Return("REG_EBRACK") \/ EmitWith(bufp.re_nsub, 34, code, locals))
  BY Zenon DEF ListStart, AtToken, Emit
<1>2. CASE EmitWith(bufp.re_nsub, 34, code, locals)
  <2>1. /\ IsSeq(Code) /\ Len(Code) \in Nat
        /\ Inside(cl.begalt, cl.fixup_alt_jump, cl.laststart, Len(Code))
    BY <1>1, SoundCode, RunningLocals
  <2>2. IsSeq(two) /\ Len(two) = 2
    BY SeqTuple
  <2>11. list \subseteq 0..255
    OBVIOUS
  <2> HIDE DEF two, list, p1
  <2>3. IsSeq(code) /\ Len(code) = Len(Code) + 2
    BY <2>1, <2>2, SeqConcat
  <2>4. /\ DOMAIN locals = DOMAIN cl /\ locals.pc = "list" /\ locals.ret = cl.ret
        /\ locals.begalt = cl.begalt /\ locals.fixup_alt_jump = cl.fixup_alt_jump
        /\ locals.laststart = Len(Code) + 1 /\ locals.stack = cl.stack
        /\ locals.list = list
    BY <1>1, RunningLocals DEF Fields, End
  <2> HIDE DEF code, locals
  <2>5. Len(code) \in Nat /\ Len(Code) <= Len(code) /\ Len(code) >= 1 /\ 34 \in Nat
    BY <2>1, <2>3
  <2>6. Inside(locals.begalt, locals.fixup_alt_jump, locals.laststart, Len(code))
    BY <2>1, <2>3, <2>4, <2>5 DEF Inside
  <2>7. Margin(locals) = 32
    BY <2>4 DEF Margin
  <2>8. Len(code) + Margin(locals) <= Len(Code) + 34
    BY <2>1, <2>3, <2>7
  <2>9. cl.pc # "returned" /\ locals.pc \in {"pattern", "list"} /\ locals.list \subseteq 0..255
    BY <1>1, <2>11, <2>4
  <2>10. QED BY <1>2, <2>3, <2>4, <2>5, <2>6, <2>8, <2>9, EmitMoved, Zenon
<1> HIDE DEF code, locals
<1>3. "REG_EBRACK" # "REG_NOERROR"
  OBVIOUS
<1>4. QED BY <1>1, <1>2, <1>3, ReturnKeeps, Zenon

LEMMA ListEndKeeps ==
  ASSUME Sound, ListEnd
  PROVE  Sound'
<1> DEFINE map    == Bitmap(cl.list)
           one    == <<Len(map)>>
           before == Front(Code)
           start  == before \o one
           code   == start \o map
           locals == [cl EXCEPT !.pc = "pattern", !.p = @ + 1, !.list = {}, !.p1 = 0,
                                !.had_char_class = FALSE]
<1>1. cl.pc = "list" /\ EmitWith(bufp.re_nsub, 0, code, locals)
  BY Zenon DEF ListEnd, InList, Emit
<1>2. /\ IsSeq(Code) /\ Len(Code) \in Nat /\ Len(Code) >= 1
      /\ Inside(cl.begalt, cl.fixup_alt_jump, cl.laststart, Len(Code))
      /\ cl.list \subseteq 0..255
  BY <1>1, SoundCode, RunningLocals DEF LocalsInside
<1>3. IsSeq(map) /\ Len(map) \in 0..32
  BY <1>2, BitmapLen, ZenonT(30)
<1> HIDE DEF map
<1>4. IsSeq(one) /\ Len(one) = 1
  BY SeqTuple
<1>5. IsSeq(before) /\ Len(before) = Len(Code) - 1
  <2> DEFINE piece == SubSeq(Code, 1, Len(Code) - 1)
  <2>1. 1 \in 1..(Len(Code) + 1) /\ Len(Code) - 1 \in (1 - 1)..Len(Code)
    BY <1>2
  <2>2. IsSeq(piece) /\ Len(piece) = (Len(Code) - 1) - 1 + 1
    BY <1>2, <2>1, SeqPiece, Zenon
  <2>3. before = piece
    BY DEF Front
  <2> HIDE DEF piece, before
  <2>4. QED BY <1>2, <2>2, <2>3
<1> HIDE DEF one, before
<1>6. IsSeq(start) /\ Len(start) = Len(before) + Len(one)
  BY <1>4, <1>5, SeqConcat, Zenon
<1> HIDE DEF start
<1>7. IsSeq(code) /\ Len(code) = Len(start) + Len(map)
  BY <1>3, <1>6, SeqConcat, Zenon
<1>8. /\ DOMAIN locals = DOMAIN cl /\ locals.pc = "pattern" /\ locals.ret = cl.ret
      /\ locals.begalt = cl.begalt /\ locals.fixup_alt_jump = cl.fixup_alt_jump
      /\ locals.laststart = cl.laststart /\ locals.stack = cl.stack
      /\ locals.list = {}
  BY <1>1, RunningLocals DEF Fields
<1> HIDE DEF code, locals
<1>9. Len(code) \in Nat /\ Len(Code) <= Len(code) /\ Len(code) <= Len(Code) + 32 /\ 0 \in Nat
  <2> DEFINE n == Len(map)
  <2>1. n \in 0..32 /\ Len(start) = Len(Code) - 1 + 1 /\ Len(code) = Len(start) + n
    BY <1>3, <1>4, <1>5, <1>6, <1>7
  <2> HIDE DEF n
  <2>2. QED BY <1>2, <2>1
<1>10. Margin(locals) = 0 /\ Margin(cl) = 32
  BY <1>1, <1>8 DEF Margin
<1>11. Len(Code) + 32 <= bufp.allocated /\ bufp.allocated \in Nat
  BY <1>10, SoundCode
<1>12. Len(code) + Margin(locals) <= bufp.allocated
  BY <1>2, <1>9, <1>10, <1>11
<1>13. Inside(locals.begalt, locals.fixup_alt_jump, locals.laststart, Len(code))
  BY <1>2, <1>8, <1>9, InsideLonger
<1>14. /\ cl.pc # "returned" /\ locals.pc \in {"pattern", "list"} /\ locals.pc # "list"
       /\ locals.list \subseteq 0..255
  BY <1>1, <1>8
<1>15. QED BY <1>1, <1>7, <1>8, <1>9, <1>12, <1>13, <1>14, EmitMoved, Zenon

LEMMA EndOfPatternKeeps ==
  ASSUME Sound, EndOfPattern
  PROVE  Sound'
<1> DEFINE jumped == StoreJump(op.jump_past_alt, Code, cl.fixup_alt_jump, End(Code))
<1>1. CASE Return("REG_EPAREN")
  <2>1. "REG_EPAREN" # "REG_NOERROR"
    OBVIOUS
  <2>2. QED BY <1>1, <2>1, ReturnKeeps, Zenon
<1>2. CASE ~Return("REG_EPAREN")
  <2>1. /\ cl.pc = "pattern" /\ pattern' = pattern
        /\ bufp' = IF cl.fixup_alt_jump = 0 THEN bufp ELSE [bufp EXCEPT !.buffer = jumped]
        /\ cl' = [NoLocals("REG_NOERROR") EXCEPT !.regnum = cl.regnum]
        /\ heap' = heap \ {"compile_stack"}
    BY <1>2, Zenon DEF EndOfPattern, Code
  <2>2. cl'.pc = "returned"
    BY <2>1, LocalsFields DEF Fields
  <2>3. /\ IsSeq(Code) /\ Len(Code) \in Nat /\ Code = bufp.buffer /\ DOMAIN bufp = BufferFields
        /\ Inside(cl.begalt, cl.fixup_alt_jump, cl.laststart, Len(Code))
    BY <2>1, SoundCode, RunningLocals
  <2>4. /\ IsSeq(Code') /\ Len(Code') = Len(Code) /\ bufp'.allocated = bufp.allocated
        /\ DOMAIN bufp' = BufferFields
    <3>1. CASE cl.fixup_alt_jump = 0
      <4>1. bufp' = bufp
        BY <2>1, <3>1
      <4>2. Code' = Code
        BY <4>1 DEF Code
      <4>3. QED BY <2>3, <4>1, <4>2
    <3>2. CASE cl.fixup_alt_jump # 0
      <4>1. bufp' = [bufp EXCEPT !.buffer = jumped]
        BY <2>1, <3>2
      <4>2. Len(Code) <= Len(Code) /\ Len(Code) \in Nat
        BY <2>3
      <4>3. IsSeq(jumped) /\ Len(jumped) = Len(Code)
        <5>1. \A o, to : /\ IsSeq(StoreJump(o, Code, cl.fixup_alt_jump, to))
                          /\ Len(StoreJump(o, Code, cl.fixup_alt_jump, to)) = Len(Code)
          BY <2>3, <3>2, <4>2, FixedUp
        <5>2. QED BY <5>1
      <4> HIDE DEF jumped
      <4>4. Code' = jumped /\ bufp'.allocated = bufp.allocated /\ DOMAIN bufp' = BufferFields
        BY <2>3, <4>1 DEF Code, BufferFields
      <4>5. QED BY <4>3, <4>4
    <3>3. QED BY <3>1, <3>2
  <2>5. Margin(cl') = 0
    BY <2>2 DEF Margin
  <2>6. Fits(Code', cl', bufp'.allocated)
    <3>1. Len(Code) + Margin(cl) <= bufp.allocated /\ Margin(cl) \in {0, 32}
          /\ bufp.allocated \in 1..MAX_BUF_SIZE /\ MAX_BUF_SIZE \in Nat
      BY SoundCode
    <3>2. QED BY <2>3, <2>4, <2>5, <3>1 DEF Fits
  <2>7. HeapInv'
    BY <2>1 DEF Sound, CompileInv, HeapInv
  <2>8. CompileInv'
    BY <2>1, <2>2, <2>4, <2>7, BufferHasFields DEF Sound, CompileInv
  <2>9. QED BY <2>6, <2>8 DEF Sound
<1>3. QED BY <1>1, <1>2

LEMMA CompileStepKeeps ==
  ASSUME Sound, CompileStep
  PROVE  Sound'
BY SimpleTokensKeep, HandlePlusKeeps, HandleOpenKeeps, HandleCloseKeeps, HandleAltKeeps,
   HandleIntervalKeeps, ListStartKeeps, ListElementsKeep, ListEndKeeps, EndOfPatternKeeps, Zenon
   DEF CompileStep

-----------------------------------------------------------------------------
(***************************************************************************)
(* The calls.                                                              *)
(***************************************************************************)
LEMMA CompileStarts ==
  ASSUME SafeInv, call = NoCall, NEW tree \in LuanetTrees \cup Trees, NEW buf,
         DOMAIN buf = BufferFields, buf.allocated \in {0, Min({200, MAX_BUF_SIZE})},
         buf.syntax \in Syntaxes \cup {RegcompBuffer(cflags).syntax :
                                         cflags \in CFlags \cup {LuanetFlags}},
         Compile(tree, buf), call'.fn # "none", call'.interface # "none"
  PROVE  SafeInv'
<1> DEFINE first == IF buf.allocated = 0 THEN INIT_BUF_SIZE ELSE buf.allocated
<1>1. call.interface = "none"
  BY DEF NoCall
<1>2. searches = 0 /\ m = Idle /\ heap \subseteq {"compile_stack"}
  BY <1>1 DEF SafeInv
<1>3. first \in 1..MAX_BUF_SIZE
  <2> DEFINE S == {200, MAX_BUF_SIZE}
  <2>1. S \in SUBSET Nat /\ S # {} /\ INIT_BUF_SIZE \in 1..MAX_BUF_SIZE /\ MAX_BUF_SIZE \in Nat \ {0}
    BY SizeAssumption
  <2> HIDE DEF S
  <2>2. Min(S) \in S
    BY <2>1, MinOf
  <2>3. \A k \in S : k <= MAX_BUF_SIZE \/ k = 200
    BY <2>1 DEF S
  <2>4. Min(S) <= MAX_BUF_SIZE
    BY <2>1, MinOf DEF S
  <2>5. Min(S) \in 1..MAX_BUF_SIZE
    BY <2>1, <2>2, <2>4 DEF S
  <2>6. buf.allocated \in {0, Min(S)}
    BY DEF S
  <2>7. QED BY <2>1, <2>5, <2>6
<1>4. /\ pattern' = TextOf(tree, buf.syntax)
      /\ bufp' = [buf EXCEPT !.buffer = <<>>, !.re_nsub = 0, !.not_bol = FALSE,
                             !.not_eol = FALSE, !.fastmap_accurate = FALSE,
                             !.allocated = IF @ = 0 THEN INIT_BUF_SIZE ELSE @]
      /\ cl' = [NoLocals("none") EXCEPT !.pc = "pattern", !.p = 1, !.begalt = 1]
      /\ heap' \subseteq heap \cup {"compile_stack", "buffer", "translate"}
      /\ m' = m /\ searches' = searches
  BY DEF Compile, StartCompile
<1>5. /\ bufp'.buffer = <<>> /\ bufp'.allocated = first /\ DOMAIN bufp' = BufferFields
  BY <1>4 DEF BufferFields
<1>6. /\ DOMAIN cl' = Fields /\ cl'.pc = "pattern" /\ cl'.ret = "none" /\ cl'.begalt = 1
      /\ cl'.fixup_alt_jump = 0 /\ cl'.laststart = 0 /\ cl'.stack = <<>> /\ cl'.list = {}
  BY <1>4 DEF Fields, NoLocals
<1>7. IsSeq(Code') /\ Len(Code') = 0 /\ IsSeq(cl'.stack) /\ Len(cl'.stack) = 0
  <2>1. Code' = <<>>
    BY <1>5 DEF Code
  <2>2. QED BY <1>6, <2>1, SeqTuple
<1>8. LocalsInside(cl', Len(Code'))
  <2>1. DOMAIN cl' = DOMAIN NoLocals("none")
    BY <1>6, LocalsFields
  <2>2. Inside(cl'.begalt, cl'.fixup_alt_jump, cl'.laststart, Len(Code'))
    BY <1>6, <1>7 DEF Inside
  <2>3. FramesInside(cl'.stack, Len(Code'))
    BY <1>7 DEF FramesInside
  <2>4. QED BY <1>6, <2>1, <2>2, <2>3 DEF LocalsInside
<1>9. Fits(Code', cl', bufp'.allocated)
  <2>1. Margin(cl') = 0
    BY <1>6 DEF Margin
  <2>2. bufp'.allocated \in 1..MAX_BUF_SIZE /\ 0 <= bufp'.allocated
    BY <1>3, <1>5, SizeAssumption
  <2>3. QED BY <1>7, <2>1, <2>2 DEF Fits
<1>10. pattern' \in Seq(DOMAIN Ord)
  BY <1>4, TextAssumption
<1>11. HeapInv'
  BY <1>2, <1>4, <1>6 DEF HeapInv
<1>12. CompileInv'
  BY <1>5, <1>8, <1>9, <1>10, <1>11, BufferHasFields DEF CompileInv
<1>13. m' = Idle' /\ searches' = 0
  BY <1>2, <1>4 DEF Idle
<1>14. QED BY <1>6, <1>9, <1>12, <1>13 DEF SafeInv

LEMMA CallCompileKeeps ==
  ASSUME SafeInv, Fresh, CallCompile
  PROVE  SafeInv'
<1>1. call = NoCall
  BY DEF Fresh
<1> DEFINE syntaxes == Syntaxes \cup {RegcompBuffer(cflags).syntax :
                                         cflags \in CFlags \cup {LuanetFlags}}
<1>2. ASSUME NEW flags PROVE /\ DOMAIN RegcompBuffer(flags) = BufferFields
                             /\ RegcompBuffer(flags).allocated = 0
  BY DEF RegcompBuffer, NoBuffer, BufferFields
<1>3. ASSUME NEW tree \in LuanetTrees, NEW chaine, RegexMatch(chaine, tree)
      PROVE  SafeInv'
  <2> DEFINE buf == RegcompBuffer(LuanetFlags)
  <2>1. Compile(tree, buf) /\ call'.fn # "none" /\ call'.interface # "none"
    BY <1>3 DEF RegexMatch, Enter
  <2>2. DOMAIN buf = BufferFields /\ buf.allocated \in {0, Min({200, MAX_BUF_SIZE})}
    BY <1>2
  <2>3. buf.syntax \in syntaxes /\ tree \in LuanetTrees \cup Trees
    OBVIOUS
  <2> HIDE DEF buf
  <2>4. QED BY <1>1, <2>1, <2>2, <2>3, CompileStarts, Zenon
<1>4. ASSUME NEW tree \in Trees, NEW flags \in CFlags, Regcomp(tree, flags)
      PROVE  SafeInv'
  <2> DEFINE buf == RegcompBuffer(flags)
  <2>1. Compile(tree, buf) /\ call'.fn # "none" /\ call'.interface # "none"
    BY <1>4 DEF Regcomp, Enter
  <2>2. DOMAIN buf = BufferFields /\ buf.allocated \in {0, Min({200, MAX_BUF_SIZE})}
    BY <1>2
  <2>3. buf.syntax \in syntaxes /\ tree \in LuanetTrees \cup Trees
    OBVIOUS
  <2> HIDE DEF buf
  <2>4. QED BY <1>1, <2>1, <2>2, <2>3, CompileStarts, Zenon
<1>5. ASSUME NEW tree \in Trees, NEW syntax \in Syntaxes, ReComp(tree, syntax)
      PROVE  SafeInv'
  <2> DEFINE least == Min({200, MAX_BUF_SIZE})
             buf == [NoBuffer EXCEPT !.syntax = syntax, !.newline_anchor = TRUE,
                                     !.fastmap = TRUE, !.allocated = least]
  <2>1. Compile(tree, buf) /\ call'.fn # "none" /\ call'.interface # "none"
    BY <1>5 DEF ReComp, Enter
  <2> HIDE DEF least
  <2>2. DOMAIN buf = BufferFields /\ buf.allocated = least /\ buf.syntax = syntax
    BY DEF NoBuffer, BufferFields
  <2>3. buf.allocated \in {0, Min({200, MAX_BUF_SIZE})}
    BY <2>2 DEF least
  <2>4. buf.syntax \in syntaxes /\ tree \in LuanetTrees \cup Trees
    BY <2>2
  <2> HIDE DEF buf
  <2>5. QED BY <1>1, <2>1, <2>2, <2>3, <2>4, CompileStarts, Zenon
<1>6. ASSUME NEW tree \in Trees, NEW syntax \in Syntaxes, NEW fastmap,
             ReCompilePattern(tree, syntax, fastmap)
      PROVE  SafeInv'
  <2> DEFINE buf == [NoBuffer EXCEPT !.syntax = syntax, !.newline_anchor = TRUE,
                                     !.fastmap = fastmap]
  <2>1. Compile(tree, buf) /\ call'.fn # "none" /\ call'.interface # "none"
    BY <1>6 DEF ReCompilePattern, Enter
  <2>2. DOMAIN buf = BufferFields /\ buf.allocated = 0 /\ buf.syntax = syntax
    BY DEF NoBuffer, BufferFields
  <2>3. buf.allocated \in {0, Min({200, MAX_BUF_SIZE})}
    BY <2>2
  <2>4. buf.syntax \in syntaxes /\ tree \in LuanetTrees \cup Trees
    BY <2>2
  <2> HIDE DEF buf
  <2>5. QED BY <1>1, <2>1, <2>2, <2>3, <2>4, CompileStarts, Zenon
<1>7. QED BY <1>3, <1>4, <1>5, <1>6, Zenon DEF CallCompile

LEMMA ResetKeeps ==
  ASSUME SafeInv, Reset, call' = NoCall
  PROVE  SafeInv'
<1>1. /\ heap' = heap \ {"buffer", "translate"} /\ bufp' = NoBuffer /\ pattern' = <<>>
      /\ cl' = NoLocals("none") /\ m' = Idle' /\ searches' = 0
  BY DEF Reset, Freed, Idle
<1>2. cl'.pc = "returned" /\ cl'.ret = "none"
  BY <1>1, LocalsFields
<1>3. HeapInv'
  BY <1>1, <1>2 DEF SafeInv, CompileInv, HeapInv
<1>4. CompileInv'
  BY <1>1, <1>2, <1>3 DEF CompileInv
<1>5. bufp'.allocated = 0 /\ call'.fn = "none"
  BY <1>1 DEF NoBuffer, NoCall
<1>6. heap' \subseteq {"compile_stack"}
  BY <1>1 DEF SafeInv, CompileInv, HeapInv
<1>7. QED BY <1>1, <1>2, <1>4, <1>5, <1>6 DEF SafeInv

\* What a search may change while a call is made or runs: what it finds, and
\* how the bytecode is executed.
LEMMA SearchKeeps ==
  ASSUME SafeInv, cl.pc = "returned", DOMAIN bufp' = DOMAIN bufp,
         UNCHANGED <<pattern, cl, heap>>, searches' \in Nat \ {0}, call'.interface # "none"
  PROVE  SafeInv'
<1>1. CompileInv'
  BY DEF SafeInv, CompileInv, HeapInv
<1>2. QED BY <1>1 DEF SafeInv

LEMMA SearchStarts ==
  ASSUME SafeInv, NEW text, NEW startpos, NEW range, NEW eflags,
         Search(text, startpos, range, eflags), cl.pc = "returned", call'.interface # "none"
  PROVE  SafeInv'
<1>1. PICK high_half \in BOOLEAN :
        StartSearch(text, startpos, range, "REG_NOTBOL" \in eflags, "REG_NOTEOL" \in eflags,
                    high_half)
  BY DEF Search
<1>2. DOMAIN bufp' = DOMAIN bufp
  <2>1. \E map, can, acc : bufp' = bufp
          \/ bufp' = [bufp EXCEPT !.map = map, !.can_be_null = can, !.fastmap_accurate = acc]
    BY <1>1, Zenon DEF StartSearch
  <2>2. QED BY <2>1
<1>3. searches' \in Nat \ {0} /\ UNCHANGED <<pattern, cl, heap>>
  BY DEF Search, SafeInv
<1>4. QED BY <1>2, <1>3, SearchKeeps, Zenon

LEMMA CallSearchKeeps ==
  ASSUME SafeInv, CallSearch
  PROVE  SafeInv'
<1>1. ASSUME NEW fn, NEW interface, interface # "none", NEW text, NEW startpos, NEW range,
             NEW eflags, Searching(fn, interface, text, startpos, range, eflags)
      PROVE  SafeInv'
  <2>1. /\ call = [NoCall EXCEPT !.interface = interface]
        /\ call' = [fn |-> fn, interface |-> interface, tree |-> result.tree, text |-> text,
                    startpos |-> startpos, range |-> range, eflags |-> eflags]
        /\ Search(text, startpos, range, eflags)
    BY <1>1, Zenon DEF Searching, Ready, Enter
  <2>2. call.fn = "none" /\ call'.interface # "none"
    BY <1>1, <2>1 DEF NoCall
  <2>3. cl.pc = "returned"
    BY <2>2 DEF SafeInv
  <2>4. QED BY <2>1, <2>2, <2>3, SearchStarts, Zenon
<1>2. "posix" # "none" /\ "bsd" # "none" /\ "gnu" # "none"
  OBVIOUS
<1>3. QED BY <1>1, <1>2, Zenon DEF CallSearch, Regexec, ReExec, ReSearch

LEMMA MatchStepKeeps ==
  ASSUME SafeInv, SearchRuns
  PROVE  SafeInv'
<1>1. m # Idle
  <2>1. m.pc # "idle"
    BY DEF SearchRuns, MatchStep, TryHere, Result, Backtrack, PatternEnd, ExactN, OneChar,
           Assertion, StartMemory, StopMemory, BackReference, OnFailureJump, KeepStringJump,
           DummyFailure, Jump, PopFailureJump, MaybePopJump, SucceedN, JumpN, SetNumberAt, At
  <2>2. QED BY <2>1 DEF Idle
<1>2. searches # 0 /\ cl.pc = "returned" /\ call.interface # "none"
  BY <1>1 DEF SafeInv
<1>3. UNCHANGED <<pattern, cl, heap, call, searches>> /\ DOMAIN bufp' = DOMAIN bufp
  <2>1. \/ \E new : Step(new)
        \/ \E code, new : Rewrite(code, new)
    BY Zenon
       DEF SearchRuns, MatchStep, TryHere, Result, Backtrack, PatternEnd, ExactN, OneChar,
           Assertion, StartMemory, StopMemory, BackReference, OnFailureJump, KeepStringJump,
           DummyFailure, Jump, PopFailureJump, MaybePopJump, SucceedN, JumpN, SetNumberAt
  <2>2. UNCHANGED <<call, searches>>
    BY DEF SearchRuns
  <2>3. UNCHANGED <<pattern, cl, heap>> /\ DOMAIN bufp' = DOMAIN bufp
    BY <2>1 DEF Step, Rewrite, compileVars
  <2>4. QED BY <2>2, <2>3
<1>4. searches' \in Nat \ {0} /\ call'.interface # "none"
  BY <1>2, <1>3 DEF SafeInv
<1>5. QED BY <1>2, <1>3, <1>4, SearchKeeps, Zenon

LEMMA CompileRunsKeeps ==
  ASSUME SafeInv, CompileRuns
  PROVE  SafeInv'
<1>1. call.fn # "none" /\ CompileStep /\ UNCHANGED <<m, call, result, searches>>
  BY DEF CompileRuns
<1>2. cl.pc # "returned"
  <2>1. cl.pc \in {"pattern", "list"}
    BY <1>1, Zenon
       DEF CompileStep, NormalChar, BegLine, EndLine, AnyChar, SimpleOp, Duplicate, BadToken,
           HandlePlus, HandleOpen, HandleClose, HandleAlt, HandleInterval, ListStart, ListChar,
           ListEscape, ListRange, ListClass, ListBad, ListEnd, EndOfPattern, AtToken, InList
  <2>2. QED BY <2>1
<1>3. CompileInv /\ Fits(Code, cl, bufp.allocated) /\ searches = 0 /\ m = Idle
  BY <1>2 DEF SafeInv, CompileInv
<1>4. Sound'
  BY <1>1, <1>3, CompileStepKeeps DEF Sound
<1>5. m' = Idle' /\ searches' = 0 /\ call' = call
  BY <1>1, <1>3 DEF Idle
<1>6. call.interface # "none"
  BY <1>1 DEF SafeInv
<1>7. QED BY <1>1, <1>4, <1>5, <1>6 DEF SafeInv, Sound

\* A call returns, and the program learns what it returned.
LEMMA ReturnsKeep ==
  ASSUME SafeInv, CompileReturns \/ SearchReturns
  PROVE  SafeInv'
<1>1. /\ call.fn # "none" /\ call' = [NoCall EXCEPT !.interface = call.interface]
      /\ UNCHANGED <<pattern, bufp, cl, heap, searches>>
  BY DEF CompileReturns, SearchReturns, compileVars
<1>2. call'.fn = "none" /\ call'.interface = call.interface /\ call.interface # "none"
  BY <1>1 DEF NoCall, SafeInv
<1>3. cl.pc = "returned" /\ (m' = m \/ m' = Idle)
  <2>1. CASE CompileReturns
    BY <2>1 DEF CompileReturns, Compiling
  <2>2. CASE SearchReturns
    <3>1. m.pc = "done" /\ m' = Idle
      BY <2>2 DEF SearchReturns
    <3>2. m # Idle
      BY <3>1 DEF Idle
    <3>3. QED BY <3>1, <3>2 DEF SafeInv
  <2>3. QED BY <2>1, <2>2
<1>4. CompileInv' /\ Code' = Code
  BY <1>1 DEF SafeInv, CompileInv, HeapInv, Code
<1>5. searches = 0 => m' = Idle' /\ (bufp'.allocated = 0 \/ Fits(Code', cl', bufp'.allocated))
  BY <1>1, <1>3, <1>4 DEF SafeInv, Idle
<1>6. QED BY <1>1, <1>2, <1>3, <1>4, <1>5 DEF SafeInv

LEMMA SafeInit ==
  ASSUME Init
  PROVE  SafeInv
<1>1. /\ pattern = <<>> /\ bufp = NoBuffer /\ cl = NoLocals("none") /\ heap = {}
      /\ m = Idle /\ call = NoCall /\ searches = 0
  BY DEF Init
<1>2. cl.pc = "returned" /\ cl.ret = "none" /\ bufp.allocated = 0 /\ call.fn = "none"
  BY <1>1, LocalsFields DEF NoBuffer, NoCall
<1>3. CompileInv
  BY <1>1, <1>2 DEF CompileInv, HeapInv
<1>4. QED BY <1>1, <1>2, <1>3 DEF SafeInv

LEMMA SafeNext ==
  ASSUME SafeInv, [Next]_regexVars
  PROVE  SafeInv'
<1>1. CASE Fresh /\ CallCompile
  BY <1>1, CallCompileKeeps
<1>2. CASE CallSearch
  BY <1>2, CallSearchKeeps
<1>3. CASE Regfree
  BY <1>3, ResetKeeps DEF Regfree
<1>4. CASE CompileRuns
  BY <1>4, CompileRunsKeeps
<1>5. CASE SearchRuns
  BY <1>5, MatchStepKeeps
<1>6. CASE CompileReturns \/ SearchReturns
  BY <1>6, ReturnsKeep
<1>7. CASE RegexMatchExec
  <2>1. /\ cl.pc = "returned" /\ call.fn # "none" /\ call' = call
        /\ Search(call.text, 0, Len(call.text), {})
    BY <1>7 DEF RegexMatchExec, Compiling
  <2>2. call'.interface # "none"
    BY <2>1 DEF SafeInv
  <2>3. QED BY <2>1, <2>2, SearchStarts, Zenon
<1>8. CASE RegexMatchReturns
  BY <1>8, ResetKeeps DEF RegexMatchReturns
<1>9. CASE UNCHANGED regexVars
  <2>1. UNCHANGED <<pattern, bufp, cl, heap, m, call, searches>>
    BY <1>9 DEF regexVars
  <2>2. CompileInv' /\ Code' = Code /\ Idle' = Idle
    BY <2>1 DEF SafeInv, CompileInv, HeapInv, Code, Idle
  <2>3. QED BY <2>1, <2>2 DEF SafeInv
<1>10. QED BY <1>1, <1>2, <1>3, <1>4, <1>5, <1>6, <1>7, <1>8, <1>9, Zenon DEF Next, Call, Run

LEMMA Safe == Spec => []SafeInv
BY SafeInit, SafeNext, PTL DEF Spec

-----------------------------------------------------------------------------
(* Of what an expression allocates, only the stack of the compiler is ever *)
(* left when it is freed, and only by a compilation that failed, whatever  *)
(* the pattern and whichever entry points are called (regex_compile,       *)
(* regfree, regex_match).                                                  *)
THEOREM OnlyTheStackLeaks == Spec => []NothingIsLeaked
<1>1. SafeInv => NothingIsLeaked
  <2> SUFFICES ASSUME SafeInv
               PROVE  NothingIsLeaked
    OBVIOUS
  <2>1. HeapInv
    BY DEF SafeInv, CompileInv
  <2>2. call = NoCall => heap \subseteq {"compile_stack"}
    BY DEF SafeInv, NoCall
  <2>3. QED BY <2>1, <2>2 DEF NothingIsLeaked, HeapInv, Compiled
<1>2. QED BY <1>1, Safe, PTL

(* From the first byte of the buffer to the first search, what is written  *)
(* fits what is allocated, the 32 bytes of a bracket expression included,  *)
(* and the buffer never passes MAX_BUF_SIZE: every construct asks          *)
(* GET_BUFFER_SPACE for what it writes, at least.                          *)
THEOREM CompiledCodeFits == Spec => [](searches = 0 => BufferHoldsTheCode)
<1>1. SafeInv => (searches = 0 => BufferHoldsTheCode)
  <2> SUFFICES ASSUME SafeInv, searches = 0, bufp.allocated # 0
               PROVE  /\ Len(Code) + (IF cl.pc = "list" THEN 32 ELSE 0) <= bufp.allocated
                      /\ bufp.allocated <= MAX_BUF_SIZE
    BY DEF BufferHoldsTheCode
  <2>1. Fits(Code, cl, bufp.allocated)
    BY DEF SafeInv
  <2>2. QED BY <2>1, SizeAssumption DEF Fits, Margin
<1>2. QED BY <1>1, Safe, PTL
==============================================================================
