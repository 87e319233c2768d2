------------------------- MODULE RegexBytecodeProofs --------------------------
(***************************************************************************)
(* The bytecode of GNU regex while regex_compile writes it: what it is for *)
(* the bytes to be instructions, and how the compiler's stores keep it so. *)
(*                                                                         *)
(* The bytecode is made of instructions up to its end, with gaps only where*)
(* a jump is still to be written, and no jump passes over a place before   *)
(* which the compiler may still insert.  The lemmas follow that through the*)
(* stores and insertions of jumps, through repetitions, alternatives and   *)
(* groups; RegexMatchProofs goes on to whole steps and to the theorems.    *)
(***************************************************************************)
EXTENDS RegexProofs

-------------------------------------------------------------------------------
(***************************************************************************)
(* What the bytecode is, while it is written and after.                    *)
(*                                                                         *)
(* at is the set of the places of its instructions, the end included; F of *)
(* those whose jump is not written yet (or not for good); Q of the places  *)
(* the compiler may still insert at.  No jump that is written passes over  *)
(* a place of Q, so that an insertion there moves the jump and its target  *)
(* together, or neither.                                                   *)
(***************************************************************************)
Cell == -1..255
Counting == {op.exactn, op.charset, op.charset_not}
Linking == Jumps \cup Jumps2 \cup {op.set_number_at}

Size(code, i) == IF code[i] = Hole THEN 3 ELSE 1 + ArgBytes(code, i)
Dest(code, i) ==
  i + Number(code, i + 1) + (IF code[i] = op.set_number_at THEN 0 ELSE 3)

Fitting(code, at, i) ==
  /\ code[i] \in Counting => i + 1 <= Len(code) /\ code[i + 1] \in 0..255
  /\ i + Size(code, i) \in at
  /\ \A k \in at : k <= i \/ i + Size(code, i) <= k
Shape(code, at) ==
  /\ code \in Seq(Cell)
  /\ at \subseteq 1..(Len(code) + 1) /\ 1 \in at /\ Len(code) + 1 \in at
  /\ \A i \in at : i # Len(code) + 1 => Fitting(code, at, i)

Gaps(code, at, F) ==
  /\ F \subseteq at /\ Len(code) + 1 \notin F
  /\ \A k \in 1..Len(code) : code[k] = Hole => \E h \in F : code[h] = Hole /\ k \in h..(h + 2)

Link(code, at, i) ==
  code[i] \in Linking =>
    /\ Dest(code, i) \in at
    /\ code[i] = op.set_number_at =>
         Dest(code, i) # Len(code) + 1 /\ code[Dest(code, i)] \in Jumps2
    /\ code[i] = op.jump_n => Dest(code, i) < i /\ code[Dest(code, i)] = op.succeed_n
Cut(code, i, q) ==
  code[i] \in Linking =>
    /\ i < q => Dest(code, i) <= q /\ (code[i] = op.set_number_at => Dest(code, i) < q)
    /\ i >= q => Dest(code, i) >= q
Linked(code, at, F, Q) ==
  \A i \in at : i \notin F /\ i # Len(code) + 1 =>
    Link(code, at, i) /\ \A q \in Q : Cut(code, i, q)

Good(code, at, F, Q) ==
  Shape(code, at) /\ Gaps(code, at, F) /\ Q \subseteq at /\ Linked(code, at, F, Q)

-----------------------------------------------------------------------------
(***************************************************************************)
(* The locals of regex_compile against the bytecode.                       *)
(***************************************************************************)
FrameFixups(stack) == {stack[k].fixup_alt_jump : k \in 1..Len(stack)} \ {0}
FrameMarks(stack) ==
  {stack[k].begalt : k \in 1..Len(stack)} \cup {stack[k].laststart : k \in 1..Len(stack)}
Fixups(fixup, stack) == ({fixup} \ {0}) \cup FrameFixups(stack)
Marks(begalt, laststart, stack) ==
  {begalt} \cup ({laststart} \ {0}) \cup FrameMarks(stack)

Kept(frame) == frame.regnum <= MAX_REGNUM
Level(begalt, fixup, laststart) ==
  (fixup # 0 => fixup < begalt) /\ (laststart # 0 => begalt <= laststart)
Above(frame, begalt, fixup) ==
  /\ frame.laststart <= begalt /\ (Kept(frame) => frame.laststart < begalt)
  /\ fixup # 0 => frame.laststart <= fixup
NestedIn(stack, begalt, fixup, laststart) ==
  /\ Level(begalt, fixup, laststart)
  /\ \A k \in 1..Len(stack) :
       /\ stack[k].regnum \in Nat /\ stack[k].laststart # 0
       /\ Level(stack[k].begalt, stack[k].fixup_alt_jump, stack[k].laststart)
       /\ Above(stack[k], begalt, fixup)
       /\ \A j \in 1..(k - 1) : Above(stack[j], stack[k].begalt, stack[k].fixup_alt_jump)
Opened(code, stack) ==
  \A k \in 1..Len(stack) : Kept(stack[k]) =>
    /\ stack[k].inner = stack[k].laststart + 2
    /\ stack[k].laststart # Len(code) + 1 /\ code[stack[k].laststart] = op.start_memory
Pending(code, at, pending, F, Q) ==
  /\ pending \in Nat
  /\ pending # 0 =>
       /\ pending - 1 \in at /\ pending <= Len(code) /\ code[pending - 1] = op.exactn
       /\ Len(code) + 1 \notin Q
       /\ \A i \in at : i \notin F /\ i # Len(code) + 1 /\ code[i] \in Linking =>
            Dest(code, i) # Len(code) + 1
Refilled(code, F) == \A h \in F : code[h] \in {Hole, op.jump_past_alt}

Written(code, at, begalt, fixup, stack, regnum, laststart, pending) ==
  /\ Good(code, at, Fixups(fixup, stack), Marks(begalt, laststart, stack))
  /\ Refilled(code, Fixups(fixup, stack))
  /\ IsSeq(stack) /\ regnum \in Nat
  /\ NestedIn(stack, begalt, fixup, laststart)
  /\ Opened(code, stack)
  /\ Pending(code, at, pending, Fixups(fixup, stack), Marks(begalt, laststart, stack))
Body(code, at, l) ==
  Written(code, at, l.begalt, l.fixup_alt_jump, l.stack, l.regnum, l.laststart, l.pending_exact)
Whole(code) == \E at : Good(code, at, {}, {})

-----------------------------------------------------------------------------
(***************************************************************************)
(* Opcodes, sizes and displacements.                                       *)
(***************************************************************************)
LEMMA OpValues ==
  /\ op.no_op = 0 /\ op.exactn = 1 /\ op.anychar = 2 /\ op.charset = 3 /\ op.charset_not = 4
  /\ op.start_memory = 5 /\ op.stop_memory = 6 /\ op.duplicate = 7 /\ op.begline = 8
  /\ op.endline = 9 /\ op.begbuf = 10 /\ op.endbuf = 11 /\ op.jump = 12
  /\ op.jump_past_alt = 13 /\ op.on_failure_jump = 14 /\ op.on_failure_keep_string_jump = 15
  /\ op.pop_failure_jump = 16 /\ op.maybe_pop_jump = 17 /\ op.dummy_failure_jump = 18
  /\ op.push_dummy_failure = 19 /\ op.succeed_n = 20 /\ op.jump_n = 21
  /\ op.set_number_at = 22 /\ op.wordchar = 23 /\ op.notwordchar = 24 /\ op.wordbeg = 25
  /\ op.wordend = 26 /\ op.wordbound = 27 /\ op.notwordbound = 28
BY DEF op

LEMMA OpSets ==
  /\ Counting = {1, 3, 4} /\ Jumps = 12..18 /\ Jumps2 = {20, 21}
  /\ Linking = (12..18) \cup (20..22)
<1>1. Counting = {1, 3, 4}
  BY OpValues DEF Counting
<1>2. Jumps = {12, 13, 14, 16, 15, 17, 18}
  BY OpValues DEF Jumps
<1>3. Jumps2 = {20, 21}
  BY OpValues DEF Jumps2
<1>4. Linking = {12, 13, 14, 16, 15, 17, 18, 20, 21, 22}
  BY <1>2, <1>3, OpValues DEF Linking
<1>5. QED BY <1>1, <1>2, <1>3, <1>4

\* The size of an instruction, by its opcode.
LEMMA SizeOf ==
  ASSUME NEW code, NEW i, code[i] \in Cell
  PROVE  /\ code[i] \in Counting /\ code[i + 1] \in 0..255 => Size(code, i) = 2 + code[i + 1]
         /\ code[i] \in {-1, 5, 6} \cup (12..18) => Size(code, i) = 3
         /\ code[i] = 7 => Size(code, i) = 2
         /\ code[i] \in 20..22 => Size(code, i) = 5
         /\ code[i] \notin {-1} \cup (3..7) \cup {1} \cup (12..18) \cup (20..22)
              => Size(code, i) = 1
<1> DEFINE c == code[i]
           n == code[i + 1]
<1>1. ArgBytes(code, i) =
        CASE c \in {op.exactn, op.charset, op.charset_not} -> 1 + n
          [] c \in {op.start_memory, op.stop_memory}        -> 2
          [] c = op.duplicate                               -> 1
          [] c \in Jumps                                    -> 2
          [] c \in Jumps2 \cup {op.set_number_at}           -> 4
          [] OTHER                                          -> 0
  BY DEF ArgBytes
<1>2. ArgBytes(code, i) =
        CASE c \in {1, 3, 4} -> 1 + n
          [] c \in {5, 6}     -> 2
          [] c = 7            -> 1
          [] c \in 12..18     -> 2
          [] c \in {20, 21} \cup {22}     -> 4
          [] OTHER            -> 0
  BY <1>1, OpValues, OpSets
<1>3. Size(code, i) = IF c = -1 THEN 3 ELSE 1 + ArgBytes(code, i)
  BY DEF Size, Hole
<1>4. Counting = {1, 3, 4} /\ c \in -1..255
  BY OpSets DEF Cell
<1> DEFINE b == ArgBytes(code, i)
           s == Size(code, i)
<1>5. /\ s = IF c = -1 THEN 3 ELSE 1 + b
      /\ b = CASE c \in {1, 3, 4} -> 1 + n
               [] c \in {5, 6}     -> 2
               [] c = 7            -> 1
               [] c \in 12..18     -> 2
               [] c \in {20, 21} \cup {22}     -> 4
               [] OTHER            -> 0
  BY <1>2, <1>3, Zenon
<1> HIDE DEF c, n, b, s
<1>6. /\ c \in {1, 3, 4} /\ n \in 0..255 => s = 2 + n
      /\ c \in {-1, 5, 6} \cup (12..18) => s = 3
      /\ c = 7 => s = 2
      /\ c \in 20..22 => s = 5
      /\ c \notin {-1} \cup (3..7) \cup {1} \cup (12..18) \cup (20..22) => s = 1
  <2>1. CASE c \in {1, 3, 4}
    <3>1. b = 1 + n /\ s = 1 + b
      BY <1>5, <2>1
    <3>2. QED BY <2>1, <3>1
  <2>2. CASE c = -1
    BY <1>5, <2>2
  <2>3. CASE c \in {5, 6} \/ c \in 12..18
    BY <1>5, <2>3
  <2>4. CASE c = 7
    BY <1>5, <2>4
  <2>5. CASE c \in 20..22
    BY <1>5, <2>5
  <2>6. CASE c \notin {-1} \cup (3..7) \cup {1} \cup (12..18) \cup (20..22)
    <3>1. b = 0 /\ s = 1 + b
      BY <1>5, <2>6
    <3>2. QED BY <2>6, <3>1
  <2>7. QED BY <1>4, <2>1, <2>2, <2>3, <2>4, <2>5, <2>6
<1>7. QED BY <1>4, <1>6 DEF c, n, s

LEMMA Halves ==
  ASSUME NEW d \in Int, -32768 <= d, d <= 32767
  PROVE  /\ d \div 256 \in Int /\ -128 <= d \div 256 /\ d \div 256 <= 127
         /\ d = (d % 256) + 256 * (d \div 256) /\ d % 256 \in 0..255
OBVIOUS

LEMMA HighByte ==
  ASSUME NEW h \in Int, -128 <= h, h <= 127
  PROVE  (IF h % 256 < 128 THEN h % 256 ELSE (h % 256) - 256) = h
OBVIOUS

\* A displacement of 16 bits is read back as it was written.
LEMMA NumberOf ==
  ASSUME NEW code, NEW i, NEW d \in Int, -32768 <= d, d <= 32767,
         code[i] = d % 256, code[i + 1] = (d \div 256) % 256
  PROVE  Number(code, i) = d
<1> DEFINE h == d \div 256
<1>1. h \in Int /\ -128 <= h /\ h <= 127 /\ d = (d % 256) + 256 * h
  BY Halves
<1>2. Number(code, i) = (d % 256) + 256 * (IF h % 256 < 128 THEN h % 256 ELSE (h % 256) - 256)
  BY DEF Number
<1> HIDE DEF h
<1>3. (IF h % 256 < 128 THEN h % 256 ELSE (h % 256) - 256) = h
  BY <1>1, HighByte
<1>4. QED BY <1>1, <1>2, <1>3

LEMMA NumberIsBytes ==
  ASSUME NEW d \in Int
  PROVE  /\ Len(NumberBytes(d)) = 2
         /\ NumberBytes(d)[1] = d % 256 /\ NumberBytes(d)[2] = (d \div 256) % 256
         /\ d % 256 \in 0..255 /\ (d \div 256) % 256 \in 0..255
<1>1. d % 256 \in 0..255 /\ d \div 256 \in Int
  OBVIOUS
<1> DEFINE h == d \div 256
<1>2. h % 256 \in 0..255
  <2> HIDE DEF h
  <2>1. QED BY <1>1 DEF h
<1>3. QED BY <1>1, <1>2 DEF NumberBytes

LEMMA NumberIsInt ==
  ASSUME NEW code, NEW i, code[i] \in Cell, code[i + 1] \in Cell
  PROVE  Number(code, i) \in Int
<1> DEFINE a == code[i]
           b == code[i + 1]
<1>1. a \in Int /\ b \in Int
  BY DEF Cell
<1>2. Number(code, i) = a + 256 * (IF b < 128 THEN b ELSE b - 256)
  BY DEF Number
<1> HIDE DEF a, b
<1>3. QED BY <1>1, <1>2

\* What an instruction is, wherever it is.
LEMMA Instruction ==
  ASSUME NEW code, NEW at, Shape(code, at), NEW i \in at, i # Len(code) + 1
  PROVE  /\ Len(code) \in Nat /\ i \in 1..Len(code) /\ code[i] \in Cell
         /\ Size(code, i) \in Nat \ {0}
         /\ i + Size(code, i) \in at /\ i + Size(code, i) <= Len(code) + 1
         /\ code[i] \in Counting => /\ i + 1 <= Len(code) /\ code[i + 1] \in 0..255
                                    /\ Size(code, i) = 2 + code[i + 1]
         /\ code[i] \in Linking =>
              /\ Size(code, i) \in {3, 5} /\ i + 2 <= Len(code)
              /\ code[i + 1] \in Cell /\ code[i + 2] \in Cell
              /\ Number(code, i + 1) \in Int /\ Dest(code, i) \in Int
<1> DEFINE s == Size(code, i)
           n == Len(code)
           c == code[i]
<1>1. n \in Nat /\ i \in 1..n /\ c \in Cell
  BY DEF Shape
<1>2. /\ i + s \in at
      /\ c \in Counting => i + 1 <= n /\ code[i + 1] \in 0..255
  BY DEF Shape, Fitting
<1>3. i + s \in 1..(n + 1)
  BY <1>2 DEF Shape
<1>4. /\ c \in Counting => s = 2 + code[i + 1]
      /\ c \in Linking => s \in {3, 5}
      /\ c \notin Counting => s \in {1, 2, 3, 5}
  <2>1. /\ c \in Counting /\ code[i + 1] \in 0..255 => s = 2 + code[i + 1]
        /\ c \in {-1, 5, 6} \cup (12..18) => s = 3
        /\ c = 7 => s = 2
        /\ c \in 20..22 => s = 5
        /\ c \notin {-1} \cup (3..7) \cup {1} \cup (12..18) \cup (20..22) => s = 1
        /\ Counting = {1, 3, 4} /\ Linking = (12..18) \cup (20..22) /\ c \in -1..255
    <3>1. c \in -1..255
      BY <1>1 DEF Cell
    <3>2. /\ c \in Counting /\ code[i + 1] \in 0..255 => s = 2 + code[i + 1]
          /\ c \in {-1, 5, 6} \cup (12..18) => s = 3
          /\ c = 7 => s = 2
          /\ c \in 20..22 => s = 5
          /\ c \notin {-1} \cup (3..7) \cup {1} \cup (12..18) \cup (20..22) => s = 1
      BY <1>1, SizeOf, Zenon
    <3>3. QED BY <3>1, <3>2, OpSets, Zenon
  <2> HIDE DEF s, c
  <2>2. QED BY <1>2, <2>1
<1>5. s \in Nat \ {0}
  <2> DEFINE b == code[i + 1]
  <2>1. /\ c \in Counting => b \in 0..255 /\ s = 2 + b
        /\ c \notin Counting => s \in {1, 2, 3, 5}
    BY <1>2, <1>4
  <2> HIDE DEF s, b, c
  <2>2. CASE c \in Counting
    <3>1. b \in 0..255 /\ s = 2 + b
      BY <2>1, <2>2
    <3>2. 2 + b \in Nat \ {0}
      BY <3>1
    <3>3. QED BY <3>1, <3>2
  <2>3. CASE c \notin Counting
    <3>1. s \in {1, 2, 3, 5}
      BY <2>1, <2>3
    <3>2. QED BY <3>1
  <2>4. QED BY <2>2, <2>3
<1>6. ASSUME c \in Linking
      PROVE  /\ i + 2 <= n /\ code[i + 1] \in Cell /\ code[i + 2] \in Cell
             /\ Number(code, i + 1) \in Int /\ Dest(code, i) \in Int
  <2>1. s \in {3, 5}
    BY <1>4, <1>6
  <2> HIDE DEF s, c
  <2>2. i + 2 <= n /\ i + 1 \in 1..n /\ i + 2 \in 1..n
    BY <1>1, <1>3, <2>1
  <2>3. code[i + 1] \in Cell /\ code[i + 2] \in Cell
    BY <2>2 DEF Shape
  <2>4. (i + 1) + 1 = i + 2
    BY <1>1
  <2>5. Number(code, i + 1) \in Int
    BY <2>3, <2>4, NumberIsInt
  <2>6. QED BY <1>1, <2>2, <2>3, <2>5 DEF Dest
<1>7. QED BY <1>1, <1>2, <1>3, <1>4, <1>5, <1>6

\* Two instructions do not overlap.
LEMMA Apart ==
  ASSUME NEW code, NEW at, Shape(code, at), NEW i \in at, NEW k \in at, i < k
  PROVE  i # Len(code) + 1 /\ i + Size(code, i) <= k
<1>1. i \in Int /\ k \in Int /\ k <= Len(code) + 1 /\ Len(code) \in Nat
  BY DEF Shape
<1>2. i # Len(code) + 1 /\ ~(k <= i)
  BY <1>1
<1>3. k <= i \/ i + Size(code, i) <= k
  BY <1>2 DEF Shape, Fitting
<1>4. QED BY <1>2, <1>3

\* The bytes of an instruction carried to another place.
SameBytes(code, i, code2, j) ==
  \A k \in 0..(Size(code, i) - 1) : code2[j + k] = code[i + k]
Alike(code, i, code2, j) ==
  /\ code2[j] = code[i] /\ Size(code2, j) = Size(code, i)
  /\ code[i] \in Counting => code2[j + 1] = code[i + 1]
  /\ code[i] \in Linking => /\ Number(code2, j + 1) = Number(code, i + 1)
                            /\ Dest(code2, j) = Dest(code, i) + j - i

LEMMA Carried ==
  ASSUME NEW code, NEW at, Shape(code, at), NEW i \in at, i # Len(code) + 1,
         NEW code2, NEW j \in Int, SameBytes(code, i, code2, j)
  PROVE  Alike(code, i, code2, j)
<1> DEFINE s == Size(code, i)
           c == code[i]
<1>1. /\ s \in Nat \ {0} /\ i \in Int /\ c \in Cell
      /\ c \in Counting => code[i + 1] \in 0..255 /\ s = 2 + code[i + 1]
      /\ c \in Linking => s \in {3, 5} /\ Number(code, i + 1) \in Int
  BY Instruction
<1>2. \A k \in 0..(s - 1) : code2[j + k] = code[i + k]
  BY DEF SameBytes
<1>3. code2[j] = c
  <2> HIDE DEF s
  <2>1. 0 \in 0..(s - 1)
    BY <1>1
  <2>2. code2[j + 0] = code[i + 0]
    BY <1>2, <2>1
  <2>3. j + 0 = j /\ i + 0 = i
    BY <1>1
  <2>4. QED BY <2>2, <2>3
<1>4. c \in Counting => code2[j + 1] = code[i + 1]
  <2> SUFFICES ASSUME c \in Counting
               PROVE  code2[j + 1] = code[i + 1]
    OBVIOUS
  <2>0. 1 \in 0..(s - 1)
    <3> DEFINE b == code[i + 1]
    <3>1. b \in 0..255 /\ s = 2 + b
      BY <1>1
    <3> HIDE DEF s, b
    <3>2. 2 + b \in Int /\ 2 + b >= 2
      BY <3>1
    <3>3. s \in Int /\ s >= 2
      BY <3>1, <3>2
    <3>4. QED BY <3>3
  <2>1. QED BY <1>2, <2>0
<1>5. Size(code2, j) = s
  <2>1. CASE c \in Counting
    <3>1. Size(code2, j) = 2 + code2[j + 1]
      BY <1>1, <1>3, <1>4, <2>1, SizeOf
    <3>2. QED BY <1>1, <1>4, <2>1, <3>1
  <2>2. CASE c \notin Counting
    <3>1. ArgBytes(code2, j) = ArgBytes(code, i)
      BY <1>3, <2>2 DEF ArgBytes, Counting
    <3>2. QED BY <1>3, <3>1 DEF Size
  <2>3. QED BY <2>1, <2>2
<1>6. ASSUME c \in Linking
      PROVE  /\ Number(code2, j + 1) = Number(code, i + 1)
             /\ Dest(code2, j) = Dest(code, i) + j - i
  <2>1. 1 \in 0..(s - 1) /\ 2 \in 0..(s - 1)
    <3> HIDE DEF s, c
    <3>1. QED BY <1>1, <1>6
  <2>2. code2[j + 1] = code[i + 1] /\ code2[j + 2] = code[i + 2]
    BY <1>2, <2>1
  <2>3. (i + 1) + 1 = i + 2 /\ (j + 1) + 1 = j + 2
    BY <1>1
  <2>4. Number(code2, j + 1) = Number(code, i + 1)
    BY <2>2, <2>3 DEF Number
  <2> DEFINE n == Number(code, i + 1)
             k == IF c = op.set_number_at THEN 0 ELSE 3
  <2>5. n \in Int /\ k \in Int
    BY <1>1, <1>6
  <2>6. Dest(code, i) = i + n + k /\ Dest(code2, j) = j + n + k
    BY <1>3, <2>4 DEF Dest
  <2> HIDE DEF n, k
  <2>7. QED BY <1>1, <2>4, <2>5, <2>6
<1>7. QED BY <1>3, <1>4, <1>5, <1>6 DEF Alike

-----------------------------------------------------------------------------
(***************************************************************************)
(* An instruction put in before the one at q, which may be the end.        *)
(***************************************************************************)
OneInstruction(mid) ==
  /\ Shape(mid, {1, Len(mid) + 1}) /\ Len(mid) # 0
  /\ mid[1] = Hole \/ \A k \in 1..Len(mid) : mid[k] # Hole
Inserted(code, q, mid, code2) ==
  /\ code2 \in Seq(Cell) /\ Len(code2) = Len(code) + Len(mid)
  /\ \A k \in 1..(q - 1) : code2[k] = code[k]
  /\ \A k \in 1..Len(mid) : code2[q - 1 + k] = mid[k]
  /\ \A k \in q..Len(code) : code2[k + Len(mid)] = code[k]
Insertion(code, at, q, mid, code2) ==
  Shape(code, at) /\ q \in at /\ OneInstruction(mid) /\ Inserted(code, q, mid, code2)

Shift(q, n, i) == IF i < q THEN i ELSE i + n
Shifted(q, n, S) == {Shift(q, n, i) : i \in S} \cup {q}

LEMMA InsertionNumbers ==
  ASSUME NEW code, NEW at, NEW q, NEW mid, NEW code2, Insertion(code, at, q, mid, code2)
  PROVE  /\ Len(code) \in Nat /\ Len(mid) \in Nat \ {0} /\ Len(code2) = Len(code) + Len(mid)
         /\ q \in 1..(Len(code) + 1) /\ at \subseteq 1..(Len(code) + 1)
         /\ Shape(code, at) /\ q \in at
BY DEF Insertion, Inserted, OneInstruction, Shape

\* The instructions that were there are carried, as they are.
LEMMA OldCarried ==
  ASSUME NEW code, NEW at, NEW q, NEW mid, NEW code2, Insertion(code, at, q, mid, code2),
         NEW i \in at, i # Len(code) + 1
  PROVE  Alike(code, i, code2, Shift(q, Len(mid), i))
<1> DEFINE n == Len(mid)
           j == Shift(q, n, i)
           s == Size(code, i)
<1>1. /\ Len(code) \in Nat /\ n \in Nat \ {0} /\ q \in 1..(Len(code) + 1)
      /\ Shape(code, at) /\ q \in at
  BY InsertionNumbers
<1>2. i \in 1..Len(code) /\ s \in Nat \ {0} /\ i + s <= Len(code) + 1
  BY <1>1, Instruction
<1>3. i < q => i + s <= q
  BY <1>1, Apart
<1>4. j = IF i < q THEN i ELSE i + n
  BY DEF Shift
<1> HIDE DEF j, s, n
<1>5. j \in Int
  BY <1>1, <1>2, <1>4
<1>6. ASSUME NEW k \in 0..(s - 1)
      PROVE  code2[j + k] = code[i + k]
  <2>1. CASE i < q
    <3>1. i + k \in 1..(q - 1)
      BY <1>1, <1>2, <1>3, <2>1
    <3>2. code2[i + k] = code[i + k]
      BY <3>1 DEF Insertion, Inserted
    <3>3. QED BY <1>4, <2>1, <3>2
  <2>2. CASE ~(i < q)
    <3>1. i + k \in q..Len(code) /\ j + k = (i + k) + n
      BY <1>1, <1>2, <1>4, <2>2
    <3>2. code2[(i + k) + n] = code[i + k]
      BY <3>1 DEF Insertion, Inserted, n
    <3>3. QED BY <3>1, <3>2
  <2>3. QED BY <2>1, <2>2
<1>7. SameBytes(code, i, code2, j)
  BY <1>6 DEF s, SameBytes
<1>8. Alike(code, i, code2, j)
  BY <1>1, <1>5, <1>7, Carried, Zenon
<1>9. QED BY <1>8 DEF j, n

\* So is the one that is put in.
LEMMA NewCarried ==
  ASSUME NEW code, NEW at, NEW q, NEW mid, NEW code2, Insertion(code, at, q, mid, code2)
  PROVE  /\ code2[q] = mid[1] /\ Size(code2, q) = Len(mid)
         /\ mid[1] \in Counting => code2[q + 1] \in 0..255
         /\ mid[1] \in Linking => Number(code2, q + 1) = Number(mid, 2)
<1>1. /\ Shape(mid, {1, Len(mid) + 1}) /\ Len(mid) # 0 /\ 1 \in {1, Len(mid) + 1}
  BY DEF Insertion, OneInstruction
<1>2. Len(mid) \in Nat \ {0} /\ q \in Int
  BY InsertionNumbers
<1>3. 1 # Len(mid) + 1
  BY <1>2
<1>4. /\ Size(mid, 1) \in Nat \ {0} /\ 1 + Size(mid, 1) \in {1, Len(mid) + 1}
      /\ mid[1] \in Counting => mid[1 + 1] \in 0..255
  <2> DEFINE ends == {1, Len(mid) + 1}
             i == 1
  <2>1. Shape(mid, ends) /\ i \in ends /\ i # Len(mid) + 1
    BY <1>1, <1>3
  <2> HIDE DEF ends, i
  <2>2. /\ Size(mid, i) \in Nat \ {0} /\ i + Size(mid, i) \in ends
        /\ mid[i] \in Counting => mid[i + 1] \in 0..255
    BY <2>1, Instruction
  <2>3. QED BY <2>2 DEF ends, i
<1>5. Size(mid, 1) = Len(mid)
  BY <1>2, <1>4
<1>6. SameBytes(mid, 1, code2, q)
  <2> SUFFICES ASSUME NEW k \in 0..(Len(mid) - 1)
               PROVE  code2[q + k] = mid[1 + k]
    BY <1>5 DEF SameBytes
  <2>1. 1 + k \in 1..Len(mid) /\ q - 1 + (1 + k) = q + k
    BY <1>2
  <2>2. code2[q - 1 + (1 + k)] = mid[1 + k]
    BY <2>1 DEF Insertion, Inserted
  <2>3. QED BY <2>1, <2>2
<1>7. Alike(mid, 1, code2, q)
  BY <1>1, <1>2, <1>3, <1>6, Carried, Zenon
<1>8. 1 + 1 = 2
  OBVIOUS
<1>9. QED BY <1>4, <1>5, <1>7, <1>8 DEF Alike

LEMMA ShiftIn ==
  ASSUME NEW q, NEW n, NEW S, NEW i \in S
  PROVE  Shift(q, n, i) \in Shifted(q, n, S)
BY DEF Shifted

LEMMA InsertKeepsShape ==
  ASSUME NEW code, NEW at, NEW q, NEW mid, NEW code2, Insertion(code, at, q, mid, code2)
  PROVE  Shape(code2, Shifted(q, Len(mid), at))
<1> DEFINE n == Len(mid)
           at2 == Shifted(q, n, at)
           e == Len(code) + 1
<1>1. /\ e \in Nat \ {0} /\ n \in Nat \ {0} /\ Len(code2) + 1 = e + n
      /\ q \in 1..e /\ at \subseteq 1..e /\ Shape(code, at) /\ q \in at
  BY InsertionNumbers
<1>2. 1 \in at /\ e \in at
  BY <1>1 DEF Shape
<1> HIDE DEF n, at2, e
<1>3. code2 \in Seq(Cell)
  BY DEF Insertion, Inserted
<1>4. \A k \in at2 : k = q \/ \E i \in at : k = Shift(q, n, i)
  BY DEF at2, Shifted
<1>5. q \in at2 /\ \A i \in at : Shift(q, n, i) \in at2
  BY ShiftIn DEF at2, Shifted
<1>6. at2 \subseteq 1..(e + n)
  <2> SUFFICES ASSUME NEW k \in at2
               PROVE  k \in 1..(e + n)
    OBVIOUS
  <2>1. CASE k = q
    BY <1>1, <2>1
  <2>2. ASSUME NEW i \in at, k = Shift(q, n, i)
        PROVE  k \in 1..(e + n)
    <3>1. i \in 1..e
      BY <1>1
    <3>2. QED BY <1>1, <2>2, <3>1 DEF Shift
  <2>3. QED BY <1>4, <2>1, <2>2
<1>7. 1 \in at2
  <2>1. CASE 1 < q
    <3>1. Shift(q, n, 1) = 1
      BY <2>1 DEF Shift
    <3>2. QED BY <1>2, <1>5, <3>1
  <2>2. CASE ~(1 < q)
    <3>1. q = 1
      BY <1>1, <2>2
    <3>2. QED BY <1>5, <3>1
  <2>3. QED BY <2>1, <2>2
<1>8. e + n \in at2
  <2>1. Shift(q, n, e) = e + n
    BY <1>1 DEF Shift
  <2>2. QED BY <1>2, <1>5, <2>1
<1>9. ASSUME NEW j \in at2, j # e + n
      PROVE  Fitting(code2, at2, j)
  <2>1. CASE j = q
    <3>1. /\ Size(code2, q) = n /\ code2[q] = mid[1]
          /\ mid[1] \in Counting => code2[q + 1] \in 0..255
      BY NewCarried DEF n
    <3>2. q + n \in at2
      <4>1. Shift(q, n, q) = q + n
        BY <1>1 DEF Shift
      <4>2. QED BY <1>1, <1>5, <4>1
    <3>3. ASSUME NEW k \in at2
          PROVE  k <= q \/ q + n <= k
      <4>1. ASSUME NEW i \in at, k = Shift(q, n, i)
            PROVE  k <= q \/ q + n <= k
        <5>1. i \in 1..e
          BY <1>1
        <5>2. QED BY <1>1, <4>1, <5>1 DEF Shift
      <4>2. q <= q
        BY <1>1
      <4>3. QED BY <1>4, <4>1, <4>2
    <3>4. mid[1] \in Counting => q + 1 <= Len(code2)
      <4> SUFFICES ASSUME mid[1] \in Counting
                   PROVE  q + 1 <= Len(code2)
        OBVIOUS
      <4>1. Len(mid) \in Nat \ {0} /\ Shape(mid, {1, Len(mid) + 1})
        BY <1>1 DEF n, Insertion, OneInstruction
      <4>2. 1 # Len(mid) + 1
        BY <4>1
      <4>3. 1 + 1 <= Len(mid)
        BY <4>1, <4>2, Instruction
      <4>4. QED BY <1>1, <4>3 DEF n
    <3>5. QED BY <2>1, <3>1, <3>2, <3>3, <3>4 DEF Fitting
  <2>2. CASE j # q
    <3>1. PICK i \in at : j = Shift(q, n, i)
      BY <1>4, <2>2
    <3>2. i # e
      <4>1. Shift(q, n, e) = e + n
        BY <1>1 DEF Shift
      <4>2. QED BY <1>9, <3>1, <4>1
    <3> DEFINE s == Size(code, i)
    <3>3. /\ code2[j] = code[i] /\ Size(code2, j) = s
          /\ code[i] \in Counting => code2[j + 1] = code[i + 1]
      BY <3>1, <3>2, OldCarried DEF n, e, Alike
    <3>4. /\ i \in 1..(e - 1) /\ s \in Nat \ {0} /\ i + s \in at /\ i + s <= e
          /\ code[i] \in Counting => i + 1 <= e - 1 /\ code[i + 1] \in 0..255
      <4>1. Len(code) \in Nat
        BY InsertionNumbers
      <4>2. /\ Len(code) \in Nat /\ i \in 1..Len(code)
            /\ s \in Nat \ {0}
            /\ i + s \in at /\ i + s <= Len(code) + 1
            /\ code[i] \in Counting => i + 1 <= Len(code) /\ code[i + 1] \in 0..255
        <5>1. Shape(code, at) /\ i \in at /\ i # Len(code) + 1
          BY <1>1, <3>2 DEF e
        <5>2. QED BY <5>1, Instruction
      <4> HIDE DEF s
      <4>3. QED BY <4>2 DEF e
    <3>5. ASSUME NEW k \in at
          PROVE  k <= i \/ i + s <= k
      <4>1. CASE i < k
        BY <1>1, <4>1, Apart
      <4>2. k \in 1..e
        BY <1>1
      <4>3. QED BY <3>4, <4>1, <4>2
    <3> HIDE DEF s
    <3>6. j + s \in at2
      <4>1. Shift(q, n, i + s) \in at2
        BY <1>5, <3>4
      <4>2. CASE i < q
        <5>1. j = i /\ i + s <= q
          BY <1>1, <3>1, <3>4, <3>5, <4>2 DEF Shift
        <5>2. CASE i + s = q
          BY <1>5, <5>1, <5>2
        <5>3. CASE i + s # q
          <6>1. Shift(q, n, i + s) = i + s
            BY <1>1, <3>4, <5>1, <5>3 DEF Shift
          <6>2. QED BY <4>1, <5>1, <6>1
        <5>4. QED BY <5>2, <5>3
      <4>3. CASE ~(i < q)
        <5>1. j = i + n /\ Shift(q, n, i + s) = i + s + n
          BY <1>1, <3>1, <3>4, <4>3 DEF Shift
        <5>2. j + s = i + s + n
          BY <1>1, <3>4, <5>1
        <5>3. QED BY <4>1, <5>1, <5>2
      <4>4. QED BY <4>2, <4>3
    <3>7. ASSUME NEW k \in at2
          PROVE  k <= j \/ j + s <= k
      <4>1. CASE k = q
        <5>1. q <= i \/ i + s <= q
          BY <1>1, <3>5
        <5>2. QED BY <1>1, <3>1, <3>4, <4>1, <5>1 DEF Shift
      <4>2. ASSUME NEW x \in at, k = Shift(q, n, x)
            PROVE  k <= j \/ j + s <= k
        <5>1. x \in 1..e /\ (x <= i \/ i + s <= x)
          BY <1>1, <3>5
        <5>2. QED BY <1>1, <3>1, <3>4, <4>2, <5>1 DEF Shift
      <4>3. QED BY <1>4, <4>1, <4>2
    <3>8. code[i] \in Counting => j + 1 <= Len(code2)
      BY <1>1, <3>1, <3>4 DEF Shift
    <3>9. QED BY <3>3, <3>4, <3>6, <3>7, <3>8 DEF Fitting
  <2>3. QED BY <2>1, <2>2
<1>10. QED BY <1>1, <1>3, <1>6, <1>7, <1>8, <1>9 DEF Shape, at2, n

LEMMA ShiftedElement ==
  ASSUME NEW q, NEW n, NEW S, NEW k \in Shifted(q, n, S), k # q
  PROVE  \E i \in S : k = Shift(q, n, i)
BY DEF Shifted

\* An end stays an end.
LEMMA ShiftEnd ==
  ASSUME NEW code, NEW at, NEW q, NEW mid, NEW code2, Insertion(code, at, q, mid, code2),
         NEW i \in at
  PROVE  /\ q # Len(code2) + 1
         /\ Shift(q, Len(mid), i) = Len(code2) + 1 <=> i = Len(code) + 1
<1> DEFINE n == Len(mid)
           e == Len(code) + 1
           e2 == Len(code2) + 1
<1>1. e \in Nat \ {0} /\ n \in Nat \ {0} /\ e2 = e + n /\ q \in 1..e /\ i \in 1..e
  BY InsertionNumbers
<1> HIDE DEF n, e, e2
<1>2. q # e2 /\ (Shift(q, n, i) = e2 <=> i = e)
  BY <1>1 DEF Shift
<1>3. QED BY <1>2 DEF n, e, e2

\* A jump that does not pass over q moves with its target, or neither moves.
LEMMA InsertKeepsLink ==
  ASSUME NEW code, NEW at, NEW q, NEW mid, NEW code2, Insertion(code, at, q, mid, code2),
         NEW i \in at, i # Len(code) + 1, Link(code, at, i), Cut(code, i, q)
  PROVE  LET j == Shift(q, Len(mid), i)
         IN /\ Link(code2, Shifted(q, Len(mid), at), j)
            /\ \A x \in Int : x <= q /\ Cut(code, i, x) => Cut(code2, j, x)
<1> DEFINE n == Len(mid)
           j == Shift(q, n, i)
           at2 == Shifted(q, n, at)
           e == Len(code) + 1
           d == Dest(code, i)
           d2 == Dest(code2, j)
<1>1. /\ e \in Nat \ {0} /\ n \in Nat \ {0} /\ Len(code2) + 1 = e + n
      /\ q \in 1..e /\ at \subseteq 1..e /\ Shape(code, at) /\ q \in at
  BY InsertionNumbers
<1>2. Alike(code, i, code2, j)
  BY OldCarried
<1>3. i \in 1..e /\ i # e
  BY <1>1
<1>4. code2[j] = code[i]
  BY <1>2 DEF Alike
<1> HIDE DEF n, j, at2, e
<1>5. CASE code[i] \notin Linking
  BY <1>4, <1>5 DEF Link, Cut, n, j, at2
<1>6. CASE code[i] \in Linking
  <2>1. d2 = d + j - i
    BY <1>2, <1>6 DEF Alike
  <2>2. /\ d \in at
        /\ code[i] = op.set_number_at => d # e /\ code[d] \in Jumps2
        /\ code[i] = op.jump_n => d < i /\ code[d] = op.succeed_n
    BY <1>6 DEF Link, e
  <2>3. /\ i < q => d <= q /\ (code[i] = op.set_number_at => d < q)
        /\ i >= q => d >= q
    BY <1>6 DEF Cut
  <2>4. d \in 1..e
    BY <1>1, <2>2
  <2>5. j = IF i < q THEN i ELSE i + n
    BY DEF j, Shift
  <2> HIDE DEF d, d2
  <2>6. d2 = IF i < q THEN d ELSE d + n
    BY <1>1, <1>3, <2>1, <2>4, <2>5
  <2>7. d2 = Shift(q, n, d) \/ (d2 = d /\ d = q /\ i < q)
    BY <1>1, <1>3, <2>3, <2>4, <2>6 DEF Shift
  <2>8. d2 \in at2
    <3>1. CASE d2 = Shift(q, n, d)
      BY <2>2, <3>1, ShiftIn DEF at2
    <3>2. CASE d2 = q
      BY <3>2 DEF at2, Shifted
    <3>3. QED BY <2>7, <3>1, <3>2
  <2>9. ASSUME d # e, d2 = Shift(q, n, d)
        PROVE  d2 # e + n /\ code2[d2] = code[d]
    <3>1. Alike(code, d, code2, d2)
      BY <2>2, <2>9, OldCarried DEF n, e
    <3>2. QED BY <1>1, <2>4, <2>9, <3>1 DEF Alike, Shift
  <2>10. code[i] = op.set_number_at => d2 # e + n /\ code2[d2] \in Jumps2
    <3> SUFFICES ASSUME code[i] = op.set_number_at
                 PROVE  d2 # e + n /\ code2[d2] \in Jumps2
      OBVIOUS
    <3>1. d # e /\ code[d] \in Jumps2 /\ (i < q => d < q)
      BY <2>2, <2>3
    <3>2. d2 = Shift(q, n, d)
      BY <1>1, <2>4, <2>7, <3>1
    <3>3. QED BY <2>9, <3>1, <3>2
  <2>11. code[i] = op.jump_n => d2 < j /\ code2[d2] = op.succeed_n
    <3> SUFFICES ASSUME code[i] = op.jump_n
                 PROVE  d2 < j /\ code2[d2] = op.succeed_n
      OBVIOUS
    <3>1. d < i /\ code[d] = op.succeed_n
      BY <2>2
    <3>2. d # e /\ d2 = Shift(q, n, d)
      BY <1>1, <1>3, <2>4, <2>7, <3>1
    <3>3. d2 < j
      BY <1>1, <1>3, <2>4, <2>5, <2>6, <3>1
    <3>4. QED BY <2>9, <3>1, <3>2, <3>3
  <2>12. Link(code2, at2, j)
    BY <1>1, <1>4, <2>8, <2>10, <2>11 DEF Link, d2
  <2>13. ASSUME NEW x \in Int, x <= q, Cut(code, i, x)
         PROVE  Cut(code2, j, x)
    <3>1. /\ i < x => d <= x /\ (code[i] = op.set_number_at => d < x)
          /\ i >= x => d >= x
      BY <1>6, <2>13 DEF Cut, d
    <3>2. /\ j < x => d2 <= x /\ (code[i] = op.set_number_at => d2 < x)
          /\ j >= x => d2 >= x
      BY <1>1, <1>3, <2>3, <2>4, <2>5, <2>6, <2>13, <3>1
    <3>3. QED BY <1>4, <3>2 DEF Cut, d2
  <2>14. QED BY <2>12, <2>13 DEF j, n, at2
<1>7. QED BY <1>5, <1>6

LEMMA InsertKeepsGaps ==
  ASSUME NEW code, NEW at, NEW q, NEW mid, NEW code2, Insertion(code, at, q, mid, code2),
         NEW F, Gaps(code, at, F)
  PROVE  Gaps(code2, Shifted(q, Len(mid), at), Shifted(q, Len(mid), F))
<1> DEFINE n == Len(mid)
           at2 == Shifted(q, n, at)
           F2 == Shifted(q, n, F)
           e == Len(code) + 1
<1>1. /\ e \in Nat \ {0} /\ n \in Nat \ {0} /\ Len(code2) = e + n - 1
      /\ q \in 1..e /\ at \subseteq 1..e /\ Shape(code, at) /\ q \in at
      /\ Len(code) \in Nat
  BY InsertionNumbers
<1>2. F \subseteq at /\ e \notin F
  BY DEF Gaps
<1> HIDE DEF n, at2, F2, e
<1>3. \A h \in F : /\ h \in at /\ h # e /\ h \in 1..e /\ code2[Shift(q, n, h)] = code[h]
                   /\ Shift(q, n, h) \in F2
  <2> SUFFICES ASSUME NEW h \in F
               PROVE  /\ h \in at /\ h # e /\ h \in 1..e /\ code2[Shift(q, n, h)] = code[h]
                      /\ Shift(q, n, h) \in F2
    OBVIOUS
  <2>1. h \in at /\ h # e /\ h \in 1..e
    BY <1>1, <1>2
  <2>2. Alike(code, h, code2, Shift(q, n, h))
    BY <2>1, OldCarried DEF e, n
  <2>3. QED BY <2>1, <2>2, ShiftIn DEF F2, Alike
<1>4. F2 \subseteq at2
  <2> SUFFICES ASSUME NEW k \in F2
               PROVE  k \in at2
    OBVIOUS
  <2>1. CASE k = q
    BY <2>1 DEF at2, Shifted
  <2>2. CASE k # q
    <3>1. PICK i \in F : k = Shift(q, n, i)
      BY <2>2, ShiftedElement DEF F2
    <3>2. QED BY <1>2, <3>1, ShiftIn DEF at2
  <2>3. QED BY <2>1, <2>2
<1>5. e + n \notin F2
  <2> SUFFICES ASSUME e + n \in F2
               PROVE  FALSE
    OBVIOUS
  <2>1. e + n # q
    BY <1>1
  <2>2. PICK i \in F : e + n = Shift(q, n, i)
    BY <2>1, ShiftedElement DEF F2
  <2>3. QED BY <1>1, <1>3, <2>2 DEF Shift
<1>6. ASSUME NEW k \in 1..Len(code2), code2[k] = Hole
      PROVE  \E h \in F2 : code2[h] = Hole /\ k \in h..(h + 2)
  <2>1. ASSUME NEW x \in 1..Len(code), code[x] = Hole, k = Shift(q, n, x)
        PROVE  \E h \in F2 : code2[h] = Hole /\ k \in h..(h + 2)
    <3>1. PICK h \in F : code[h] = Hole /\ x \in h..(h + 2)
      BY <2>1 DEF Gaps
    <3>2. h \in at /\ h \in 1..e /\ h # e
      BY <1>3
    <3>3. h < q => h + 3 <= q
      <4> SUFFICES ASSUME h < q
                   PROVE  h + 3 <= q
        OBVIOUS
      <4>1. h + Size(code, h) <= q
        BY <1>1, <3>2, Apart
      <4>2. Size(code, h) = 3
        BY <3>1 DEF Size
      <4>3. QED BY <4>1, <4>2
    <3>4. k \in Shift(q, n, h)..(Shift(q, n, h) + 2)
      BY <1>1, <2>1, <3>1, <3>2, <3>3 DEF Shift
    <3>5. code2[Shift(q, n, h)] = Hole /\ Shift(q, n, h) \in F2
      BY <1>3, <3>1
    <3>6. QED BY <3>4, <3>5
  <2>2. CASE k < q
    <3>1. k \in 1..(q - 1) /\ k \in 1..Len(code) /\ k = Shift(q, n, k)
      BY <1>1, <2>2 DEF Shift, e
    <3>2. code2[k] = code[k]
      BY <3>1 DEF Insertion, Inserted
    <3>3. QED BY <1>6, <2>1, <3>1, <3>2
  <2>3. CASE k >= q /\ k < q + n
    <3> DEFINE x == k - q + 1
    <3>1. x \in 1..n /\ q - 1 + x = k
      BY <1>1, <2>3
    <3>2. code2[q - 1 + x] = mid[x]
      BY <3>1 DEF Insertion, Inserted, n
    <3>3. mid[x] = Hole
      BY <1>6, <3>1, <3>2
    <3>4. mid[1] = Hole
      BY <3>1, <3>3 DEF Insertion, OneInstruction, n
    <3>5. code2[q] = Hole /\ Size(code2, q) = n
      BY <3>4, NewCarried DEF n
    <3>6. n = 3
      BY <3>5 DEF Size
    <3>7. q \in F2 /\ k \in q..(q + 2)
      BY <1>1, <2>3, <3>6 DEF F2, Shifted
    <3>8. QED BY <3>5, <3>7
  <2>4. CASE k >= q + n
    <3> DEFINE x == k - n
    <3>1. x \in q..Len(code) /\ x + n = k /\ x \in 1..Len(code) /\ k = Shift(q, n, x)
      BY <1>1, <2>4 DEF Shift, e
    <3>2. code2[x + n] = code[x]
      BY <3>1 DEF Insertion, Inserted, n
    <3>3. QED BY <1>6, <2>1, <3>1, <3>2
  <2>5. QED BY <1>1, <2>2, <2>3, <2>4
<1>7. e + n = Len(code2) + 1
  BY <1>1
<1>8. QED BY <1>4, <1>5, <1>6, <1>7 DEF Gaps, at2, F2, n

\* An insertion where no jump passes, not before a place to insert at.
LEMMA InsertKeeps ==
  ASSUME NEW code, NEW at, NEW q, NEW mid, NEW code2, Insertion(code, at, q, mid, code2),
         NEW F, NEW Q, Good(code, at, F, Q), \A x \in Q : x <= q,
         \A i \in at : i \notin F /\ i # Len(code) + 1 => Cut(code, i, q)
  PROVE  Good(code2, Shifted(q, Len(mid), at), Shifted(q, Len(mid), F), Q)
<1> DEFINE n == Len(mid)
           at2 == Shifted(q, n, at)
           F2 == Shifted(q, n, F)
<1>1. Shape(code2, at2) /\ Gaps(code2, at2, F2)
  BY InsertKeepsShape, InsertKeepsGaps DEF Good
<1>2. /\ at \subseteq 1..(Len(code) + 1) /\ q \in 1..(Len(code) + 1) /\ Len(code) \in Nat
      /\ Q \subseteq at
  BY InsertionNumbers DEF Good
<1>3. Q \subseteq at2
  <2> SUFFICES ASSUME NEW x \in Q
               PROVE  x \in at2
    OBVIOUS
  <2>1. CASE x = q
    BY <2>1 DEF Shifted
  <2>2. CASE x # q
    <3>1. x < q
      BY <1>2, <2>2
    <3>2. Shift(q, n, x) = x
      BY <3>1 DEF Shift
    <3> HIDE DEF at2
    <3>3. QED BY <1>2, <3>2, ShiftIn DEF at2
  <2>3. QED BY <2>1, <2>2
<1>4. ASSUME NEW j \in at2, j \notin F2, j # Len(code2) + 1
      PROVE  Link(code2, at2, j) /\ \A x \in Q : Cut(code2, j, x)
  <2>1. j # q
    BY <1>4 DEF Shifted
  <2>2. PICK i \in at : j = Shift(q, n, i)
    BY <2>1, ShiftedElement
  <2>3. i \notin F
    BY <1>4, <2>2, ShiftIn
  <2>4. i # Len(code) + 1
    BY <1>4, <2>2, ShiftEnd
  <2>5. Link(code, at, i) /\ Cut(code, i, q) /\ \A x \in Q : Cut(code, i, x)
    BY <2>3, <2>4 DEF Good, Linked
  <2>6. /\ Link(code2, at2, j)
        /\ \A x \in Int : x <= q /\ Cut(code, i, x) => Cut(code2, j, x)
    BY <2>2, <2>4, <2>5, InsertKeepsLink
  <2>7. \A x \in Q : x \in Int /\ x <= q
    BY <1>2
  <2>8. QED BY <2>5, <2>6, <2>7
<1> HIDE DEF at2, F2
<1>5. Good(code2, at2, F2, Q)
  BY <1>1, <1>3, <1>4 DEF Good, Linked
<1>6. QED BY <1>5 DEF at2, F2, n

-----------------------------------------------------------------------------
(***************************************************************************)
(* Jumps that are written, places to insert at, and appended instructions. *)
(***************************************************************************)
LEMMA GoodNumbers ==
  ASSUME NEW code, NEW at, NEW F, NEW Q, Good(code, at, F, Q)
  PROVE  /\ Len(code) \in Nat /\ at \subseteq 1..(Len(code) + 1)
         /\ F \subseteq at /\ Len(code) + 1 \notin F /\ Q \subseteq at
         /\ 1 \in at /\ Len(code) + 1 \in at /\ Shape(code, at) /\ code \in Seq(Cell)
BY DEF Good, Shape, Gaps

\* A jump that has been written for good.
LEMMA NowLinked ==
  ASSUME NEW code, NEW at, NEW F, NEW Q, Good(code, at, F, Q), NEW h, code[h] # Hole,
         Link(code, at, h), \A x \in Q : Cut(code, h, x)
  PROVE  Good(code, at, F \ {h}, Q)
<1>1. Gaps(code, at, F \ {h})
  BY DEF Good, Gaps
<1>2. Linked(code, at, F \ {h}, Q)
  BY DEF Good, Linked
<1>3. QED BY <1>1, <1>2 DEF Good

\* No jump passes over the end.
LEMMA EndIsCut ==
  ASSUME NEW code, NEW at, NEW F, NEW Q, Good(code, at, F, Q),
         NEW i \in at, i \notin F, i # Len(code) + 1
  PROVE  Cut(code, i, Len(code) + 1)
<1> DEFINE e == Len(code) + 1
           d == Dest(code, i)
<1>1. e \in Nat /\ at \subseteq 1..e
  BY GoodNumbers
<1>2. Link(code, at, i)
  BY DEF Good, Linked
<1>3. code[i] \in Linking => d \in at /\ (code[i] = op.set_number_at => d # e)
  BY <1>2 DEF Link
<1> HIDE DEF e, d
<1>4. code[i] \in Linking =>
        /\ i < e => d <= e /\ (code[i] = op.set_number_at => d < e)
        /\ i >= e => d >= e
  <2> SUFFICES ASSUME code[i] \in Linking
               PROVE  /\ i < e => d <= e /\ (code[i] = op.set_number_at => d < e)
                      /\ i >= e => d >= e
    OBVIOUS
  <2>1. d \in 1..e /\ (code[i] = op.set_number_at => d # e)
    BY <1>1, <1>3
  <2>2. i \in 1..e /\ i # e
    BY <1>1 DEF e
  <2> HIDE DEF e, d
  <2>3. ~(i >= e) /\ d <= e /\ (d # e => d < e)
    BY <1>1, <2>1, <2>2
  <2>4. QED BY <2>1, <2>3
<1>5. QED BY <1>4 DEF Cut, e, d

LEMMA OtherPlaces ==
  ASSUME NEW code, NEW at, NEW F, NEW Q, Good(code, at, F, Q),
         NEW Q2, Q2 \subseteq Q \cup {Len(code) + 1}
  PROVE  Good(code, at, F, Q2)
<1>1. Q2 \subseteq at
  BY GoodNumbers
<1>2. Linked(code, at, F, Q2)
  <2> SUFFICES ASSUME NEW i \in at, i \notin F, i # Len(code) + 1
               PROVE  Link(code, at, i) /\ \A x \in Q2 : Cut(code, i, x)
    BY DEF Linked
  <2>1. Link(code, at, i) /\ \A x \in Q : Cut(code, i, x)
    BY DEF Good, Linked
  <2>2. Cut(code, i, Len(code) + 1)
    BY EndIsCut
  <2>3. QED BY <2>1, <2>2
<1>3. QED BY <1>1, <1>2 DEF Good

LEMMA AppendIsInsertion ==
  ASSUME NEW code, NEW at, NEW mid, Shape(code, at), OneInstruction(mid)
  PROVE  /\ Insertion(code, at, Len(code) + 1, mid, code \o mid)
         /\ \A k \in 1..Len(code) : (code \o mid)[k] = code[k]
         /\ \A k \in 1..Len(mid) : (code \o mid)[Len(code) + k] = mid[k]
         /\ Len(code \o mid) = Len(code) + Len(mid)
<1> DEFINE both == code \o mid
           e == Len(code) + 1
<1>1. code \in Seq(Cell) /\ mid \in Seq(Cell) /\ Len(code) \in Nat /\ Len(mid) \in Nat
  BY DEF Shape, OneInstruction
<1>2. /\ both \in Seq(Cell) /\ Len(both) = Len(code) + Len(mid)
      /\ \A k \in 1..(Len(code) + Len(mid)) :
           both[k] = IF k <= Len(code) THEN code[k] ELSE mid[k - Len(code)]
  BY <1>1, ConcatProperties
<1> HIDE DEF both
<1>3. \A k \in 1..(e - 1) : both[k] = code[k]
  BY <1>1, <1>2
<1>4. \A k \in 1..Len(mid) : both[e - 1 + k] = mid[k]
  <2> SUFFICES ASSUME NEW k \in 1..Len(mid)
               PROVE  both[e - 1 + k] = mid[k]
    OBVIOUS
  <2>1. /\ e - 1 + k = Len(code) + k /\ Len(code) + k \in 1..(Len(code) + Len(mid))
        /\ ~(Len(code) + k <= Len(code)) /\ Len(code) + k - Len(code) = k
    BY <1>1
  <2>2. QED BY <1>2, <2>1
<1>5. \A k \in e..Len(code) : both[k + Len(mid)] = code[k]
  BY <1>1
<1>6. e \in at
  BY DEF Shape
<1>7. Insertion(code, at, e, mid, both)
  BY <1>2, <1>3, <1>4, <1>5, <1>6 DEF Insertion, Inserted
<1>8. \A k \in 1..Len(mid) : both[Len(code) + k] = mid[k]
  <2>1. \A k \in 1..Len(mid) : e - 1 + k = Len(code) + k
    BY <1>1
  <2>2. QED BY <1>4, <2>1
<1>9. e - 1 = Len(code)
  BY <1>1
<1>10. QED BY <1>2, <1>3, <1>7, <1>8, <1>9 DEF both

LEMMA AppendedReads ==
  ASSUME NEW code, NEW at, NEW mid, Shape(code, at), OneInstruction(mid),
         NEW code2, code2 = code \o mid
  PROVE  /\ \A k \in 1..Len(code) : code2[k] = code[k]
         /\ \A k \in 1..Len(mid) : code2[Len(code) + k] = mid[k]
         /\ Len(code2) = Len(code) + Len(mid)
BY AppendIsInsertion

LEMMA ShiftedAtEnd ==
  ASSUME NEW e \in Nat, NEW n \in Nat, NEW S, S \subseteq 1..e
  PROVE  /\ e \in S => Shifted(e, n, S) = S \cup {e + n}
         /\ e \notin S => Shifted(e, n, S) = S \cup {e}
<1>1. \A i \in S : Shift(e, n, i) = IF i = e THEN e + n ELSE i
  BY DEF Shift
<1>2. QED BY <1>1 DEF Shifted

LEMMA AppendKeeps ==
  ASSUME NEW code, NEW at, NEW F, NEW Q, Good(code, at, F, Q), NEW mid, OneInstruction(mid)
  PROVE  Good(code \o mid, at \cup {Len(code \o mid) + 1}, F \cup {Len(code) + 1},
              Q \cup {Len(code) + 1})
<1> DEFINE e == Len(code) + 1
           n == Len(mid)
           R == Q \cup {e}
           code2 == code \o mid
<1>1. /\ e \in Nat /\ n \in Nat /\ at \subseteq 1..e /\ e \in at /\ F \subseteq at /\ e \notin F
      /\ Q \subseteq at /\ Shape(code, at) /\ Len(code) \in Nat
  BY GoodNumbers DEF OneInstruction, Shape
<1>2. Good(code, at, F, R)
  BY OtherPlaces
<1>3. Insertion(code, at, e, mid, code2) /\ Len(code2) = Len(code) + n
  BY <1>1, AppendIsInsertion
<1>4. \A x \in R : x <= e
  BY <1>1
<1>5. \A i \in at : i \notin F /\ i # Len(code) + 1 => Cut(code, i, e)
  BY EndIsCut
<1> HIDE DEF e, n, R, code2
<1>6. Good(code2, Shifted(e, Len(mid), at), Shifted(e, Len(mid), F), R)
  BY <1>2, <1>3, <1>4, <1>5, InsertKeeps, Zenon
<1>7. Shifted(e, n, at) = at \cup {e + n} /\ Shifted(e, n, F) = F \cup {e}
  <2>1. F \subseteq 1..e
    BY <1>1
  <2>2. QED BY <1>1, <2>1, ShiftedAtEnd
<1>8. e + n = Len(code2) + 1
  BY <1>1, <1>3 DEF e
<1>9. QED BY <1>6, <1>7, <1>8 DEF e, n, R, code2

\* An instruction without a displacement at the end.
LEMMA AppendPlain ==
  ASSUME NEW code, NEW at, NEW F, NEW Q, Good(code, at, F, Q), NEW mid, OneInstruction(mid),
         mid[1] \notin Linking, mid[1] # Hole
  PROVE  LET code2 == code \o mid
             at2 == at \cup {Len(code2) + 1}
         IN /\ Good(code2, at2, F, Q \cup {Len(code) + 1})
            /\ \A i \in at2 : i \notin F /\ i # Len(code2) + 1 /\ code2[i] \in Linking =>
                 Dest(code2, i) # Len(code2) + 1
<1> DEFINE e == Len(code) + 1
           R == Q \cup {e}
           code2 == code \o mid
           e2 == Len(code2) + 1
           at2 == at \cup {e2}
<1>1. /\ e \in Nat /\ Len(mid) \in Nat \ {0} /\ at \subseteq 1..e /\ e \notin F
      /\ Shape(code, at) /\ Len(code) \in Nat
  BY GoodNumbers DEF OneInstruction, Shape
<1>2. /\ Insertion(code, at, e, mid, code2) /\ Len(code2) = Len(code) + Len(mid)
  BY <1>1, AppendIsInsertion
<1>3. code2[e] = mid[1] /\ e # e2
  BY <1>1, <1>2, NewCarried
<1>4. Good(code2, at2, F \cup {e}, R)
  BY AppendKeeps
<1> HIDE DEF e, R, code2, e2, at2
<1>5. Link(code2, at2, e) /\ \A x \in R : Cut(code2, e, x)
  BY <1>3 DEF Link, Cut
<1>6. Good(code2, at2, (F \cup {e}) \ {e}, R)
  BY <1>3, <1>4, <1>5, NowLinked
<1>7. (F \cup {e}) \ {e} = F
  BY <1>1
<1>8. ASSUME NEW i \in at2, i \notin F, i # e2, code2[i] \in Linking
      PROVE  Dest(code2, i) # e2
  <2>1. i \in at /\ i # e
    BY <1>3, <1>8 DEF at2
  <2>2. i \in 1..Len(code)
    BY <1>1, <2>1 DEF e
  <2>3. Shift(e, Len(mid), i) = i
    BY <1>1, <2>2 DEF Shift, e
  <2>4. Alike(code, i, code2, i)
    BY <1>2, <2>1, <2>3, OldCarried DEF e
  <2>5. code[i] \in Linking /\ Dest(code2, i) = Dest(code, i) + i - i
    BY <1>8, <2>4 DEF Alike
  <2>6. Dest(code, i) \in at
    BY <1>8, <2>1, <2>5 DEF Good, Linked, Link, e
  <2> DEFINE d == Dest(code, i)
             d2 == Dest(code2, i)
  <2>7. d \in 1..e /\ d2 = d + i - i /\ e2 = e + Len(mid) /\ i \in Int
    <3>1. d \in 1..e
      BY <1>1, <2>6
    <3>2. e2 = e + Len(mid)
      BY <1>1, <1>2 DEF e, e2
    <3>3. QED BY <2>2, <2>5, <3>1, <3>2
  <2> HIDE DEF d, d2
  <2>8. d2 # e2
    BY <1>1, <2>7
  <2>9. QED BY <2>8 DEF d2
<1>9. QED BY <1>6, <1>7, <1>8 DEF R, code2, at2, e2, e

-----------------------------------------------------------------------------
(***************************************************************************)
(* Bytes written over the bytecode, at its end, and into its middle.       *)
(***************************************************************************)
\* Before, over and after: a sequence cut in three.
LEMMA PutAt ==
  ASSUME NEW code \in Seq(Cell), NEW bytes \in Seq(Cell), NEW loc \in 1..(Len(code) + 1),
         loc + Len(bytes) <= Len(code) + 1
  PROVE  /\ Put(code, loc, bytes) \in Seq(Cell) /\ Len(Put(code, loc, bytes)) = Len(code)
         /\ \A k \in 1..Len(code) : k < loc \/ loc + Len(bytes) <= k =>
              Put(code, loc, bytes)[k] = code[k]
         /\ \A k \in 1..Len(bytes) : Put(code, loc, bytes)[loc - 1 + k] = bytes[k]
<1> DEFINE n == Len(code)
           b == Len(bytes)
           before == SubSeq(code, 1, loc - 1)
           after == SubSeq(code, loc + b, n)
           front == before \o bytes
           whole == front \o after
<1>1. n \in Nat /\ b \in Nat /\ loc \in 1..(n + 1) /\ loc + b <= n + 1 /\ DOMAIN code = 1..n
  OBVIOUS
<1>2. \A k \in 1..n : code[k] \in Cell
  BY <1>1
<1>3. /\ before \in Seq(Cell) /\ Len(before) = loc - 1
      /\ \A k \in 1..(loc - 1) : before[k] = code[k]
  <2>1. \A k \in 1..(loc - 1) : code[k] \in Cell
    BY <1>1, <1>2
  <2>2. loc - 1 \in Int /\ (loc - 1) - 1 + 1 = loc - 1
    BY <1>1
  <2>3. /\ before \in Seq(Cell)
        /\ Len(before) = IF 1 <= loc - 1 THEN (loc - 1) - 1 + 1 ELSE 0
        /\ \A k \in 1..((loc - 1) - 1 + 1) : before[k] = code[1 + k - 1]
    BY <2>1, <2>2, SubSeqProperties
  <2> HIDE DEF before
  <2>4. \A k \in 1..(loc - 1) : 1 + k - 1 = k
    BY <1>1
  <2>5. QED BY <1>1, <2>2, <2>3, <2>4
<1>4. /\ after \in Seq(Cell) /\ Len(after) = n - loc - b + 1
      /\ \A k \in 1..(n - loc - b + 1) : after[k] = code[loc + b - 1 + k]
  <2>1. \A k \in (loc + b)..n : code[k] \in Cell
    BY <1>1, <1>2
  <2>2. loc + b \in Int /\ n \in Int
    BY <1>1
  <2>3. /\ after \in Seq(Cell)
        /\ Len(after) = IF loc + b <= n THEN n - (loc + b) + 1 ELSE 0
        /\ \A k \in 1..(n - (loc + b) + 1) : after[k] = code[(loc + b) + k - 1]
    BY <2>1, <2>2, SubSeqProperties
  <2> HIDE DEF after, n, b
  <2>4. n - (loc + b) + 1 = n - loc - b + 1
    BY <1>1
  <2>5. \A k \in 1..(n - loc - b + 1) : (loc + b) + k - 1 = loc + b - 1 + k
    BY <1>1
  <2>6. Len(after) = n - loc - b + 1
    BY <1>1, <2>3
  <2>7. QED BY <2>3, <2>4, <2>5, <2>6
<1> HIDE DEF before, after
<1>5. /\ front \in Seq(Cell) /\ Len(front) = loc - 1 + b
      /\ \A k \in 1..(loc - 1) : front[k] = code[k]
      /\ \A k \in 1..b : front[loc - 1 + k] = bytes[k]
  <2>1. /\ front \in Seq(Cell) /\ Len(front) = Len(before) + Len(bytes)
        /\ \A k \in 1..(Len(before) + Len(bytes)) :
             front[k] = IF k <= Len(before) THEN before[k] ELSE bytes[k - Len(before)]
    BY <1>3, ConcatProperties
  <2> HIDE DEF front
  <2>2. /\ front \in Seq(Cell) /\ Len(front) = loc - 1 + b
        /\ \A k \in 1..(loc - 1 + b) :
             front[k] = IF k <= loc - 1 THEN before[k] ELSE bytes[k - (loc - 1)]
    BY <1>3, <2>1
  <2> HIDE DEF b
  <2>3. ASSUME NEW k \in 1..(loc - 1)
        PROVE  front[k] = code[k]
    <3>1. k \in 1..(loc - 1 + b) /\ k <= loc - 1
      BY <1>1
    <3>2. QED BY <1>3, <2>2, <3>1
  <2>4. ASSUME NEW k \in 1..b
        PROVE  front[loc - 1 + k] = bytes[k]
    <3>1. /\ loc - 1 + k \in 1..(loc - 1 + b) /\ ~(loc - 1 + k <= loc - 1)
          /\ (loc - 1 + k) - (loc - 1) = k
      BY <1>1
    <3>2. QED BY <2>2, <3>1
  <2>5. QED BY <2>2, <2>3, <2>4
<1> HIDE DEF front
<1>6. /\ whole \in Seq(Cell) /\ Len(whole) = n
      /\ \A k \in 1..n : whole[k] = IF k <= loc - 1 + b THEN front[k]
                                    ELSE after[k - (loc - 1 + b)]
  <2>1. /\ whole \in Seq(Cell) /\ Len(whole) = Len(front) + Len(after)
        /\ \A k \in 1..(Len(front) + Len(after)) :
             whole[k] = IF k <= Len(front) THEN front[k] ELSE after[k - Len(front)]
    <3>1. front \in Seq(Cell) /\ after \in Seq(Cell)
      BY <1>4, <1>5
    <3>2. QED BY <3>1, ConcatProperties
  <2>2. Len(front) + Len(after) = n
    BY <1>1, <1>4, <1>5
  <2> HIDE DEF whole, n, b
  <2>3. QED BY <1>5, <2>1, <2>2
<1>7. Put(code, loc, bytes) = whole
  BY DEF Put, whole, front, before, after
<1> HIDE DEF whole, n, b
<1>8. ASSUME NEW k \in 1..n, k < loc \/ loc + b <= k
      PROVE  whole[k] = code[k]
  <2>1. CASE k < loc
    <3>1. k \in 1..(loc - 1) /\ k <= loc - 1 + b
      BY <1>1, <2>1
    <3>2. QED BY <1>5, <1>6, <3>1
  <2>2. CASE loc + b <= k
    <3>1. /\ ~(k <= loc - 1 + b) /\ k - (loc - 1 + b) \in 1..(n - loc - b + 1)
          /\ loc + b - 1 + (k - (loc - 1 + b)) = k
      BY <1>1, <2>2
    <3>2. whole[k] = after[k - (loc - 1 + b)]
      BY <1>6, <3>1
    <3>3. after[k - (loc - 1 + b)] = code[loc + b - 1 + (k - (loc - 1 + b))]
      BY <1>4, <3>1
    <3>4. QED BY <3>1, <3>2, <3>3
  <2>3. QED BY <1>8, <2>1, <2>2
<1>9. ASSUME NEW k \in 1..b
      PROVE  whole[loc - 1 + k] = bytes[k]
  <2>1. loc - 1 + k \in 1..n /\ loc - 1 + k <= loc - 1 + b
    BY <1>1
  <2>2. QED BY <1>5, <1>6, <2>1
<1>10. QED BY <1>6, <1>7, <1>8, <1>9 DEF n, b

\* At the end they are appended.
LEMMA PutAtEnd ==
  ASSUME NEW code \in Seq(Cell), NEW bytes \in Seq(Cell)
  PROVE  Put(code, End(code), bytes) = code \o bytes
<1> DEFINE n == Len(code)
           loc == n + 1
           before == SubSeq(code, 1, loc - 1)
           after == SubSeq(code, loc + Len(bytes), n)
<1>1. n \in Nat /\ Len(bytes) \in Nat /\ loc - 1 = n
  OBVIOUS
<1>2. before = code
  BY <1>1
<1>3. after = <<>>
  <2>1. loc + Len(bytes) \in Int /\ n \in Int /\ n < loc + Len(bytes)
    BY <1>1
  <2>2. QED BY <2>1, SubSeqEmpty
<1>4. Put(code, End(code), bytes) = before \o bytes \o after
  BY DEF Put, End
<1> HIDE DEF before, after
<1>5. code \o bytes \in Seq(Cell)
  BY ConcatProperties
<1>6. (code \o bytes) \o <<>> = code \o bytes
  BY <1>5, ConcatEmptySeq
<1>7. QED BY <1>2, <1>3, <1>4, <1>6

LEMMA InsertedAt ==
  ASSUME NEW code \in Seq(Cell), NEW mid \in Seq(Cell), NEW q \in 1..(Len(code) + 1)
  PROVE  Inserted(code, q, mid, Insert(code, q, mid))
<1> DEFINE n == Len(code)
           b == Len(mid)
           before == SubSeq(code, 1, q - 1)
           after == SubSeq(code, q, n)
           front == before \o mid
           whole == front \o after
<1>1. n \in Nat /\ b \in Nat /\ q \in 1..(n + 1)
  OBVIOUS
<1>2. \A k \in 1..n : code[k] \in Cell
  BY <1>1
<1>3. /\ before \in Seq(Cell) /\ Len(before) = q - 1
      /\ \A k \in 1..(q - 1) : before[k] = code[k]
  <2>1. \A k \in 1..(q - 1) : code[k] \in Cell
    BY <1>1, <1>2
  <2>2. q - 1 \in Int /\ (q - 1) - 1 + 1 = q - 1
    BY <1>1
  <2>3. /\ before \in Seq(Cell)
        /\ Len(before) = IF 1 <= q - 1 THEN (q - 1) - 1 + 1 ELSE 0
        /\ \A k \in 1..((q - 1) - 1 + 1) : before[k] = code[1 + k - 1]
    BY <2>1, <2>2, SubSeqProperties
  <2> HIDE DEF before
  <2>4. \A k \in 1..(q - 1) : 1 + k - 1 = k
    BY <1>1
  <2>5. QED BY <1>1, <2>2, <2>3, <2>4
<1>4. /\ after \in Seq(Cell) /\ Len(after) = n - q + 1
      /\ \A k \in 1..(n - q + 1) : after[k] = code[q - 1 + k]
  <2>1. \A k \in q..n : code[k] \in Cell
    BY <1>1, <1>2
  <2>2. q \in Int /\ n \in Int
    BY <1>1
  <2>3. /\ after \in Seq(Cell)
        /\ Len(after) = IF q <= n THEN n - q + 1 ELSE 0
        /\ \A k \in 1..(n - q + 1) : after[k] = code[q + k - 1]
    BY <2>1, <2>2, SubSeqProperties
  <2> HIDE DEF after, n
  <2>4. \A k \in 1..(n - q + 1) : q + k - 1 = q - 1 + k
    BY <1>1
  <2>5. Len(after) = n - q + 1
    BY <1>1, <2>3
  <2>6. QED BY <2>3, <2>4, <2>5
<1> HIDE DEF before, after
<1>5. /\ front \in Seq(Cell) /\ Len(front) = q - 1 + b
      /\ \A k \in 1..(q - 1) : front[k] = code[k]
      /\ \A k \in 1..b : front[q - 1 + k] = mid[k]
  <2>1. /\ front \in Seq(Cell) /\ Len(front) = Len(before) + Len(mid)
        /\ \A k \in 1..(Len(before) + Len(mid)) :
             front[k] = IF k <= Len(before) THEN before[k] ELSE mid[k - Len(before)]
    BY <1>3, ConcatProperties
  <2> HIDE DEF front
  <2>2. /\ front \in Seq(Cell) /\ Len(front) = q - 1 + b
        /\ \A k \in 1..(q - 1 + b) :
             front[k] = IF k <= q - 1 THEN before[k] ELSE mid[k - (q - 1)]
    BY <1>3, <2>1
  <2> HIDE DEF b
  <2>3. ASSUME NEW k \in 1..(q - 1)
        PROVE  front[k] = code[k]
    <3>1. k \in 1..(q - 1 + b) /\ k <= q - 1
      BY <1>1
    <3>2. QED BY <1>3, <2>2, <3>1
  <2>4. ASSUME NEW k \in 1..b
        PROVE  front[q - 1 + k] = mid[k]
    <3>1. /\ q - 1 + k \in 1..(q - 1 + b) /\ ~(q - 1 + k <= q - 1)
          /\ (q - 1 + k) - (q - 1) = k
      BY <1>1
    <3>2. QED BY <2>2, <3>1
  <2>5. QED BY <2>2, <2>3, <2>4
<1> HIDE DEF front
<1>6. /\ whole \in Seq(Cell) /\ Len(whole) = n + b
      /\ \A k \in 1..(n + b) : whole[k] = IF k <= q - 1 + b THEN front[k]
                                          ELSE after[k - (q - 1 + b)]
  <2>1. /\ whole \in Seq(Cell) /\ Len(whole) = Len(front) + Len(after)
        /\ \A k \in 1..(Len(front) + Len(after)) :
             whole[k] = IF k <= Len(front) THEN front[k] ELSE after[k - Len(front)]
    <3>1. front \in Seq(Cell) /\ after \in Seq(Cell)
      BY <1>4, <1>5
    <3>2. QED BY <3>1, ConcatProperties
  <2>2. Len(front) + Len(after) = n + b
    BY <1>1, <1>4, <1>5
  <2> HIDE DEF whole, n, b
  <2>3. QED BY <1>5, <2>1, <2>2
<1>7. Insert(code, q, mid) = whole
  BY DEF Insert, whole, front, before, after
<1> HIDE DEF whole, n, b
<1>8. ASSUME NEW k \in 1..(q - 1)
      PROVE  whole[k] = code[k]
  <2>1. k \in 1..(n + b) /\ k <= q - 1 + b
    BY <1>1
  <2>2. QED BY <1>5, <1>6, <2>1
<1>9. ASSUME NEW k \in 1..b
      PROVE  whole[q - 1 + k] = mid[k]
  <2>1. q - 1 + k \in 1..(n + b) /\ q - 1 + k <= q - 1 + b
    BY <1>1
  <2>2. QED BY <1>5, <1>6, <2>1
<1>10. ASSUME NEW k \in q..n
       PROVE  whole[k + b] = code[k]
  <2>1. /\ k + b \in 1..(n + b) /\ ~(k + b <= q - 1 + b)
        /\ (k + b) - (q - 1 + b) \in 1..(n - q + 1)
        /\ q - 1 + ((k + b) - (q - 1 + b)) = k
    BY <1>1
  <2>2. whole[k + b] = after[(k + b) - (q - 1 + b)]
    BY <1>6, <2>1
  <2>3. after[(k + b) - (q - 1 + b)] = code[q - 1 + ((k + b) - (q - 1 + b))]
    BY <1>4, <2>1
  <2>4. QED BY <2>1, <2>2, <2>3
<1>11. QED BY <1>6, <1>7, <1>8, <1>9, <1>10 DEF Inserted, n, b

-----------------------------------------------------------------------------
(***************************************************************************)
(* Instructions, byte by byte.                                             *)
(***************************************************************************)
LEMMA TupleOf3 ==
  ASSUME NEW o \in Cell, NEW x \in Cell, NEW y \in Cell
  PROVE  LET t == <<o>> \o <<x, y>>
         IN t \in Seq(Cell) /\ Len(t) = 3 /\ t[1] = o /\ t[2] = x /\ t[3] = y
<1> DEFINE a == <<o>>
           b == <<x, y>>
           t == a \o b
<1>1. a \in Seq(Cell) /\ b \in Seq(Cell) /\ Len(a) = 1 /\ Len(b) = 2
  OBVIOUS
<1>2. a[1] = o /\ b[1] = x /\ b[2] = y
  OBVIOUS
<1> HIDE DEF a, b
<1>3. /\ t \in Seq(Cell) /\ Len(t) = Len(a) + Len(b)
      /\ \A i \in 1..(Len(a) + Len(b)) : t[i] = IF i <= Len(a) THEN a[i] ELSE b[i - Len(a)]
  BY <1>1, ConcatProperties
<1> HIDE DEF t
<1>4. Len(t) = 3 /\ \A i \in 1..3 : t[i] = IF i <= 1 THEN a[i] ELSE b[i - 1]
  BY <1>1, <1>3
<1>5. t[1] = a[1] /\ t[2] = b[1] /\ t[3] = b[2]
  BY <1>4
<1>6. QED BY <1>2, <1>3, <1>4, <1>5 DEF t, a, b

LEMMA TupleOf5 ==
  ASSUME NEW o \in Cell, NEW x \in Cell, NEW y \in Cell, NEW z \in Cell, NEW w \in Cell
  PROVE  LET t == <<o>> \o <<x, y>> \o <<z, w>>
         IN /\ t \in Seq(Cell) /\ Len(t) = 5 /\ t[1] = o /\ t[2] = x /\ t[3] = y
            /\ t[4] = z /\ t[5] = w
<1> DEFINE a == <<o>> \o <<x, y>>
           b == <<z, w>>
           t == a \o b
<1>1. a \in Seq(Cell) /\ Len(a) = 3 /\ a[1] = o /\ a[2] = x /\ a[3] = y
  BY TupleOf3
<1>2. b \in Seq(Cell) /\ Len(b) = 2 /\ b[1] = z /\ b[2] = w
  OBVIOUS
<1> HIDE DEF a, b
<1>3. /\ t \in Seq(Cell) /\ Len(t) = Len(a) + Len(b)
      /\ \A i \in 1..(Len(a) + Len(b)) : t[i] = IF i <= Len(a) THEN a[i] ELSE b[i - Len(a)]
  BY <1>1, <1>2, ConcatProperties
<1> HIDE DEF t
<1>4. Len(t) = 5 /\ \A i \in 1..5 : t[i] = IF i <= 3 THEN a[i] ELSE b[i - 3]
  BY <1>1, <1>2, <1>3
<1>5. t[1] = a[1] /\ t[2] = a[2] /\ t[3] = a[3] /\ t[4] = b[1] /\ t[5] = b[2]
  BY <1>4
<1>6. QED BY <1>1, <1>2, <1>3, <1>4, <1>5 DEF t, a, b

\* The opcodes that have no length byte, by the sizes of their instructions.
LEMMA SizeOfOpcode ==
  ASSUME NEW code, NEW i
  PROVE  /\ code[i] \in Jumps \cup {Hole} => Size(code, i) = 3
         /\ code[i] \in {op.start_memory, op.stop_memory} => Size(code, i) = 3
         /\ code[i] \in Jumps2 \cup {op.set_number_at} => Size(code, i) = 5
         /\ code[i] \in EmptyOps \cup {op.anychar, op.wordchar, op.notwordchar,
                                       op.push_dummy_failure} => Size(code, i) = 1
<1>1. /\ EmptyOps = {0, 8, 9, 10, 11, 25, 26, 27, 28} /\ Jumps = 12..18 /\ Jumps2 = {20, 21}
      /\ Hole = -1
  BY OpValues, OpSets DEF EmptyOps, Hole
<1>2. \A c \in -1..255 : code[i] = c => c \in Cell
  BY DEF Cell
<1>3. CASE code[i] \in Jumps \cup {Hole}
  <2>1. code[i] \in {-1} \cup (12..18) /\ code[i] \in -1..255
    BY <1>1, <1>3
  <2>2. code[i] \in Cell /\ code[i] \in {-1, 5, 6} \cup (12..18)
    BY <1>2, <2>1
  <2>3. Size(code, i) = 3
    BY <2>2, SizeOf
  <2>4. QED BY <1>1, <2>1, <2>3, OpValues
<1>4. CASE code[i] \in {op.start_memory, op.stop_memory}
  <2>1. code[i] \in {5, 6} /\ code[i] \in -1..255
    BY <1>4, OpValues
  <2>2. code[i] \in Cell /\ code[i] \in {-1, 5, 6} \cup (12..18)
    BY <1>2, <2>1
  <2>3. Size(code, i) = 3
    BY <2>2, SizeOf
  <2>4. QED BY <1>1, <2>1, <2>3, OpValues
<1>5. CASE code[i] \in Jumps2 \cup {op.set_number_at}
  <2>1. code[i] \in 20..22 /\ code[i] \in -1..255
    BY <1>1, <1>5, OpValues
  <2>2. Size(code, i) = 5
    BY <1>2, <2>1, SizeOf
  <2>3. QED BY <1>1, <2>1, <2>2, OpValues
<1>6. CASE code[i] \in EmptyOps \cup {op.anychar, op.wordchar, op.notwordchar,
                                      op.push_dummy_failure}
  <2>1. code[i] \in {0, 2, 8, 9, 10, 11, 19, 23, 24, 25, 26, 27, 28} /\ code[i] \in -1..255
    BY <1>1, <1>6, OpValues
  <2>2. code[i] \notin {-1} \cup (3..7) \cup {1} \cup (12..18) \cup (20..22)
    BY <2>1
  <2>3. Size(code, i) = 1
    BY <1>2, <2>1, <2>2, SizeOf
  <2>4. QED BY <1>1, <2>1, <2>3, OpValues
<1>7. QED BY <1>3, <1>4, <1>5, <1>6

InstructionBytes(mid) ==
  /\ mid \in Seq(Cell) /\ Len(mid) # 0 /\ Size(mid, 1) = Len(mid)
  /\ mid[1] \in Counting => 2 <= Len(mid) /\ mid[2] \in 0..255
  /\ mid[1] = Hole \/ \A k \in 1..Len(mid) : mid[k] # Hole

LEMMA IsOneInstruction ==
  ASSUME NEW mid, InstructionBytes(mid)
  PROVE  OneInstruction(mid)
<1> USE DEF InstructionBytes
<1> DEFINE n == Len(mid)
           at == {1, n + 1}
<1>1. n \in Nat \ {0} /\ 1 + n = n + 1
  OBVIOUS
<1>2. at \subseteq 1..(n + 1) /\ 1 \in at /\ n + 1 \in at
  BY <1>1
<1>3. ASSUME NEW i \in at, i # n + 1
      PROVE  Fitting(mid, at, i)
  <2>1. i = 1 /\ 1 + 1 = 2
    BY <1>3
  <2>2. \A k \in at : k <= 1 \/ 1 + n <= k
    BY <1>1
  <2> HIDE DEF at
  <2>3. QED BY <1>1, <1>2, <2>1, <2>2 DEF Fitting
<1>4. QED BY <1>2, <1>3 DEF OneInstruction, Shape

Low(n) == n % 256
High(n) == (n \div 256) % 256

LEMMA NumberWritten ==
  ASSUME NEW code, NEW i, NEW d \in Int, -32768 <= d, d <= 32767,
         code[i] = Low(d), code[i + 1] = High(d)
  PROVE  Number(code, i) = d
<1>1. code[i] = d % 256 /\ code[i + 1] = (d \div 256) % 256
  BY DEF Low, High
<1>2. QED BY <1>1, NumberOf

\* The three jumps' bytes, and the gap that is left for one.
LEMMA Op1Bytes ==
  ASSUME NEW o \in Jumps, NEW d \in Int
  PROVE  /\ OneInstruction(Op1(o, d)) /\ Op1(o, d) \in Seq(Cell) /\ Len(Op1(o, d)) = 3
         /\ Op1(o, d)[1] = o /\ \A k \in 1..3 : Op1(o, d)[k] # Hole
         /\ Op1(o, d)[2] = Low(d) /\ Op1(o, d)[3] = High(d)
<1> DEFINE x == d % 256
           y == (d \div 256) % 256
           mid == Op1(o, d)
<1>1. x \in 0..255 /\ y \in 0..255 /\ o \in 12..18
  BY NumberIsBytes, OpSets
<1>2. mid = <<o>> \o <<x, y>>
  BY DEF Op1, NumberBytes
<1> HIDE DEF x, y, mid
<1>3. x \in Cell /\ y \in Cell /\ o \in Cell /\ x # Hole /\ y # Hole /\ o # Hole
  BY <1>1 DEF Cell, Hole
<1>4. mid \in Seq(Cell) /\ Len(mid) = 3 /\ mid[1] = o /\ mid[2] = x /\ mid[3] = y
  BY <1>2, <1>3, TupleOf3
<1>5. \A k \in 1..3 : mid[k] # Hole
  BY <1>3, <1>4
<1>6. Size(mid, 1) = Len(mid)
  BY <1>4, SizeOfOpcode
<1>7. mid[1] \notin Counting
  BY <1>1, <1>4, OpSets
<1>8. OneInstruction(mid)
  <2>1. InstructionBytes(mid)
    BY <1>4, <1>5, <1>6, <1>7 DEF InstructionBytes
  <2>2. QED BY <2>1, IsOneInstruction
<1>9. QED BY <1>4, <1>5, <1>8 DEF mid, x, y, Low, High

Numbered(o, d, mid) ==
  /\ OneInstruction(mid) /\ mid \in Seq(Cell) /\ Len(mid) = 5 /\ mid[1] = o
  /\ mid[2] = Low(d) /\ mid[3] = High(d)

LEMMA Op2Bytes ==
  ASSUME NEW o \in Jumps2 \cup {op.set_number_at}, NEW d \in Int, NEW n \in Int
  PROVE  Numbered(o, d, Op2(o, d, n))
<1> DEFINE x == d % 256
           y == (d \div 256) % 256
           z == n % 256
           w == (n \div 256) % 256
           mid == Op2(o, d, n)
<1>1. x \in 0..255 /\ y \in 0..255 /\ z \in 0..255 /\ w \in 0..255 /\ o \in 20..22
  <2>1. o \in 20..22
    BY OpSets, OpValues
  <2>2. QED BY <2>1, NumberIsBytes
<1>2. mid = <<o>> \o <<x, y>> \o <<z, w>>
  BY DEF Op2, NumberBytes
<1> HIDE DEF x, y, z, w, mid
<1>3. /\ x \in Cell /\ y \in Cell /\ z \in Cell /\ w \in Cell /\ o \in Cell
      /\ x # Hole /\ y # Hole /\ z # Hole /\ w # Hole /\ o # Hole
  BY <1>1 DEF Cell, Hole
<1>4. /\ mid \in Seq(Cell) /\ Len(mid) = 5 /\ mid[1] = o /\ mid[2] = x /\ mid[3] = y
      /\ mid[4] = z /\ mid[5] = w
  BY <1>2, <1>3, TupleOf5
<1>5. \A k \in 1..5 : mid[k] # Hole
  BY <1>3, <1>4
<1>6. Size(mid, 1) = Len(mid)
  BY <1>4, SizeOfOpcode
<1>7. mid[1] \notin Counting
  BY <1>1, <1>4, OpSets
<1>8. OneInstruction(mid)
  <2>1. InstructionBytes(mid)
    BY <1>4, <1>5, <1>6, <1>7 DEF InstructionBytes
  <2>2. QED BY <2>1, IsOneInstruction
<1>9. QED BY <1>4, <1>8 DEF Numbered, mid, x, y, Low, High

LEMMA GapBytes == OneInstruction(<<Hole, Hole, Hole>>)
<1> DEFINE mid == <<Hole, Hole, Hole>>
<1>1. mid \in Seq(Cell) /\ Len(mid) = 3 /\ mid[1] = Hole
  BY DEF Hole, Cell
<1> HIDE DEF mid
<1>2. Size(mid, 1) = Len(mid) /\ mid[1] \notin Counting
  BY <1>1, SizeOfOpcode, OpSets DEF Hole
<1>3. OneInstruction(mid)
  <2>1. InstructionBytes(mid)
    BY <1>1, <1>2 DEF InstructionBytes
  <2>2. QED BY <2>1, IsOneInstruction
<1>4. QED BY <1>3 DEF mid

\* One byte, a byte with its argument, a group's three bytes.
LEMMA ByteInstruction ==
  ASSUME NEW o \in EmptyOps \cup {op.anychar, op.wordchar, op.notwordchar, op.push_dummy_failure}
  PROVE  /\ OneInstruction(<<o>>) /\ <<o>>[1] \notin Linking /\ <<o>>[1] # Hole
<1> DEFINE mid == <<o>>
<1>1. o \in {0, 2, 8, 9, 10, 11, 19, 23, 24, 25, 26, 27, 28}
  BY OpValues DEF EmptyOps
<1>2. o \in Cell /\ o # Hole /\ o \notin Linking /\ o \notin Counting
  BY <1>1, OpSets DEF Cell, Hole
<1>3. mid \in Seq(Cell) /\ Len(mid) = 1 /\ mid[1] = o
  BY <1>2
<1> HIDE DEF mid
<1>4. Size(mid, 1) = Len(mid) /\ \A k \in 1..Len(mid) : mid[k] # Hole
  BY <1>2, <1>3, SizeOfOpcode
<1>5. OneInstruction(mid)
  <2>1. InstructionBytes(mid)
    BY <1>2, <1>3, <1>4 DEF InstructionBytes
  <2>2. QED BY <2>1, IsOneInstruction
<1>6. QED BY <1>2, <1>3, <1>5 DEF mid

LEMMA PairInstruction ==
  ASSUME NEW r \in 0..255
  PROVE  LET mid == <<op.duplicate, r>>
         IN OneInstruction(mid) /\ mid[1] \notin Linking /\ mid[1] # Hole
<1> DEFINE mid == <<op.duplicate, r>>
<1>1. op.duplicate = 7
  BY OpValues
<1>2. r \in Cell /\ 7 \in Cell /\ r # Hole /\ 7 # Hole /\ 7 \notin Linking /\ 7 \notin Counting
  BY OpSets DEF Cell, Hole
<1>3. mid \in Seq(Cell) /\ Len(mid) = 2 /\ mid[1] = 7 /\ mid[2] = r
  BY <1>1, <1>2
<1> HIDE DEF mid
<1>4. Size(mid, 1) = 2
  BY <1>2, <1>3, SizeOf
<1>5. \A k \in 1..Len(mid) : mid[k] # Hole
  BY <1>2, <1>3
<1>6. OneInstruction(mid)
  <2>1. InstructionBytes(mid)
    BY <1>2, <1>3, <1>4, <1>5 DEF InstructionBytes
  <2>2. QED BY <2>1, IsOneInstruction
<1>7. QED BY <1>2, <1>3, <1>6 DEF mid

GroupOpcode(mid, o, r, n) ==
  /\ o \in {op.start_memory, op.stop_memory} /\ r \in 0..255 /\ n \in 0..255
  /\ mid = <<o, r, n>>

LEMMA GroupInstruction ==
  ASSUME NEW mid, NEW o, NEW r, NEW n, GroupOpcode(mid, o, r, n)
  PROVE  OneInstruction(mid) /\ mid[1] = o /\ mid[1] \notin Linking /\ mid[1] # Hole
<1>0. /\ o \in {op.start_memory, op.stop_memory} /\ r \in 0..255 /\ n \in 0..255
      /\ mid = <<o, r, n>>
  BY DEF GroupOpcode
<1>1. o \in {5, 6}
  BY <1>0, OpValues
<1>2. /\ r \in Cell /\ o \in Cell /\ n \in Cell /\ r # Hole /\ n # Hole /\ o # Hole
      /\ o \notin Linking /\ o \notin Counting
  BY <1>0, <1>1, OpSets DEF Cell, Hole
<1>3. mid \in Seq(Cell) /\ Len(mid) = 3 /\ mid[1] = o /\ mid[2] = r /\ mid[3] = n
  <2> DEFINE three == <<o, r, n>>
  <2>1. /\ three \in Seq(Cell) /\ Len(three) = 3
        /\ three[1] = o /\ three[2] = r /\ three[3] = n
    BY <1>2
  <2>2. mid = three
    BY <1>0
  <2> HIDE DEF three
  <2>3. QED BY <2>1, <2>2
<1>4. Size(mid, 1) = 3
  <2>1. mid[1] \in {op.start_memory, op.stop_memory}
    BY <1>0, <1>3
  <2>2. QED BY <2>1, SizeOfOpcode
<1>5. \A k \in 1..Len(mid) : mid[k] # Hole
  BY <1>2, <1>3
<1>6. OneInstruction(mid)
  <2>1. InstructionBytes(mid)
    BY <1>2, <1>3, <1>4, <1>5 DEF InstructionBytes
  <2>2. QED BY <2>1, IsOneInstruction
<1>7. QED BY <1>2, <1>3, <1>6

\* A new exactn, and a list with its bitmap.
LEMMA ExactInstruction ==
  ASSUME NEW c \in 0..255
  PROVE  LET mid == <<op.exactn, 1, c>>
         IN /\ OneInstruction(mid) /\ mid[1] = op.exactn /\ mid[1] \notin Linking
            /\ mid[1] # Hole
<1> DEFINE mid == <<op.exactn, 1, c>>
<1>1. op.exactn = 1
  BY OpValues
<1>2. c \in Cell /\ 1 \in Cell /\ c # Hole /\ 1 # Hole /\ 1 \notin Linking /\ 1 \in Counting
  BY OpSets DEF Cell, Hole
<1>3. mid \in Seq(Cell) /\ Len(mid) = 3 /\ mid[1] = 1 /\ mid[2] = 1 /\ mid[3] = c
  BY <1>1, <1>2
<1> HIDE DEF mid
<1>4. Size(mid, 1) = 3 /\ mid[2] \in 0..255
  <2>1. mid[1 + 1] = 1 /\ mid[1] \in Cell
    BY <1>2, <1>3
  <2>2. Size(mid, 1) = 2 + mid[1 + 1]
    BY <1>2, <1>3, <2>1, SizeOf
  <2>3. QED BY <1>3, <2>1, <2>2
<1>5. \A k \in 1..Len(mid) : mid[k] # Hole
  BY <1>2, <1>3
<1>6. OneInstruction(mid)
  <2>1. InstructionBytes(mid)
    BY <1>3, <1>4, <1>5 DEF InstructionBytes
  <2>2. QED BY <2>1, IsOneInstruction
<1>7. QED BY <1>1, <1>2, <1>3, <1>6 DEF mid

-----------------------------------------------------------------------------
(***************************************************************************)
(* An instruction written over another one of the same size.               *)
(***************************************************************************)
Overwritten(code, s, code2) ==
  /\ code2 \in Seq(Cell) /\ Len(code2) = Len(code)
  /\ \A k \in 1..Len(code) : k < s \/ s + Size(code, s) <= k => code2[k] = code[k]
  /\ Size(code2, s) = Size(code, s) /\ code2[s] \notin Counting
  /\ \A k \in s..(s + Size(code, s) - 1) : code2[k] # Hole
  /\ code[s] \in Jumps2 => code2[s] = code[s]

\* The bytes of an instruction that is not a gap are no gap.
LEMMA NoHoleInside ==
  ASSUME NEW code, NEW at, NEW F, NEW Q, Good(code, at, F, Q),
         NEW s \in at, s # Len(code) + 1, code[s] # Hole,
         NEW k \in s..(s + Size(code, s) - 1)
  PROVE  code[k] \in Cell /\ code[k] # Hole
<1> DEFINE n == Size(code, s)
<1>1. /\ Len(code) \in Nat /\ Shape(code, at) /\ F \subseteq at /\ code \in Seq(Cell)
      /\ Len(code) + 1 \notin F
  BY GoodNumbers
<1>2. n \in Nat /\ s \in 1..Len(code) /\ s + n <= Len(code) + 1
  BY <1>1, Instruction
<1>3. k \in 1..Len(code)
  <2> HIDE DEF n
  <2>1. k \in s..(s + n - 1)
    BY DEF n
  <2>2. QED BY <1>1, <1>2, <2>1
<1>4. code[k] \in Cell
  BY <1>1, <1>3
<1>5. ASSUME code[k] = Hole
      PROVE  FALSE
  <2>1. \E h \in F : code[h] = Hole /\ k \in h..(h + 2)
    BY <1>3, <1>5 DEF Good, Gaps
  <2>2. PICK h \in F : code[h] = Hole /\ k \in h..(h + 2)
    BY <2>1
  <2>3. h \in at /\ h # s /\ h # Len(code) + 1 /\ Size(code, h) = 3
    BY <1>1, <2>2 DEF Size
  <2>4. h \in Int /\ (h < s \/ s < h)
    BY <1>1, <1>2, <2>3 DEF Shape
  <2>5. h < s => h + 3 <= s
    BY <1>1, <2>3, Apart
  <2>6. s < h => s + n <= h
    BY <1>1, <2>3, Apart
  <2>7. k \in s..(s + n - 1)
    OBVIOUS
  <2> HIDE DEF n
  <2>8. QED BY <1>2, <2>2, <2>4, <2>5, <2>6, <2>7
<1>6. QED BY <1>4, <1>5

\* What was not written over is as it was.
LEMMA OthersStay ==
  ASSUME NEW code, NEW at, Shape(code, at), NEW s \in at, s # Len(code) + 1,
         NEW code2, Overwritten(code, s, code2), NEW i \in at, i # Len(code) + 1, i # s
  PROVE  Alike(code, i, code2, i)
<1> DEFINE n == Size(code, s)
           z == Size(code, i)
<1>1. /\ Len(code) \in Nat /\ n \in Nat \ {0} /\ s \in 1..Len(code)
      /\ z \in Nat \ {0} /\ i \in 1..Len(code) /\ i + z <= Len(code) + 1
  BY Instruction
<1>2. i < s \/ s < i
  BY <1>1
<1>3. i < s => i + z <= s
  BY Apart
<1>4. s < i => s + n <= i
  BY Apart
<1>5. ASSUME NEW k \in 0..(z - 1)
      PROVE  code2[i + k] = code[i + k]
  <2> HIDE DEF n, z
  <2>1. i + k \in 1..Len(code) /\ (i + k < s \/ s + n <= i + k)
    BY <1>1, <1>2, <1>3, <1>4
  <2>2. QED BY <2>1 DEF Overwritten, n
<1>6. SameBytes(code, i, code2, i)
  BY <1>5 DEF SameBytes
<1>7. i \in Int
  BY <1>1
<1>8. QED BY <1>6, <1>7, Carried

LEMMA Rewritten ==
  ASSUME NEW code, NEW at, NEW F, NEW Q, Good(code, at, F, Q),
         NEW s \in at, s # Len(code) + 1, NEW code2, Overwritten(code, s, code2)
  PROVE  Good(code2, at, F \cup {s}, Q)
<1> DEFINE e == Len(code) + 1
           G == F \cup {s}
<1>1. /\ Len(code) \in Nat /\ Shape(code, at) /\ F \subseteq at /\ Q \subseteq at
      /\ e \notin F /\ Len(code2) = Len(code) /\ code2 \in Seq(Cell)
  BY GoodNumbers DEF Overwritten
<1>2. ASSUME NEW i \in at, i # e, i # s
      PROVE  /\ Alike(code, i, code2, i) /\ code2[i] = code[i] /\ i \in Int
             /\ Size(code2, i) = Size(code, i)
             /\ code[i] \in Counting => code2[i + 1] = code[i + 1]
             /\ code[i] \in Linking => Dest(code2, i) = Dest(code, i)
  <2>1. Alike(code, i, code2, i)
    BY <1>1, <1>2, OthersStay
  <2>2. i \in Int
    BY <1>1 DEF Shape
  <2>3. code[i] \in Linking => Dest(code, i) \in Int
    BY <1>1, <1>2, Instruction
  <2>4. code[i] \in Linking => Dest(code, i) + i - i = Dest(code, i)
    BY <2>2, <2>3
  <2>5. QED BY <2>1, <2>2, <2>4 DEF Alike
<1>3. Shape(code2, at)
  <2>1. ASSUME NEW i \in at, i # e
        PROVE  Fitting(code2, at, i)
    <3>1. Fitting(code, at, i)
      BY <1>1, <2>1 DEF Shape
    <3>2. CASE i = s
      BY <3>1, <3>2 DEF Overwritten, Fitting
    <3>3. CASE i # s
      BY <1>1, <1>2, <2>1, <3>1, <3>3 DEF Fitting
    <3>4. QED BY <3>2, <3>3
  <2>2. QED BY <1>1, <2>1 DEF Shape
<1>4. Gaps(code2, at, G)
  <2>1. G \subseteq at /\ e \notin G
    BY <1>1
  <2>2. ASSUME NEW k \in 1..Len(code), code2[k] = Hole
        PROVE  \E h \in G : code2[h] = Hole /\ k \in h..(h + 2)
    <3> DEFINE n == Size(code, s)
    <3>1. n \in Nat \ {0} /\ s \in 1..Len(code)
      BY <1>1, Instruction
    <3>2. k \notin s..(s + n - 1)
      BY <2>2 DEF Overwritten
    <3>3. k < s \/ s + n <= k
      <4> HIDE DEF n
      <4>1. QED BY <3>1, <3>2
    <3>4. code[k] = Hole
      BY <2>2, <3>3 DEF Overwritten
    <3>5. \E h \in F : code[h] = Hole /\ k \in h..(h + 2)
      BY <3>4 DEF Good, Gaps
    <3>6. PICK h \in F : code[h] = Hole /\ k \in h..(h + 2)
      BY <3>5
    <3>7. CASE h = s
      <4>1. n = 3
        BY <3>6, <3>7 DEF Size
      <4>2. k \in s..(s + 2)
        BY <3>6, <3>7
      <4> HIDE DEF n
      <4>3. QED BY <3>1, <3>2, <4>1, <4>2
    <3>8. CASE h # s
      <4>1. h \in at /\ h # e
        BY <1>1, <3>6
      <4>2. code2[h] = code[h]
        BY <1>2, <3>8, <4>1
      <4>3. QED BY <3>6, <4>2
    <3>9. QED BY <3>7, <3>8
  <2>3. QED BY <1>1, <2>1, <2>2 DEF Gaps
<1>5. ASSUME NEW i \in at, i \notin G, i # e
      PROVE  Link(code2, at, i) /\ \A q \in Q : Cut(code2, i, q)
  <2>1. i # s /\ i \notin F
    BY <1>5
  <2>2. Link(code, at, i) /\ \A q \in Q : Cut(code, i, q)
    BY <1>5, <2>1 DEF Good, Linked
  <2>3. /\ code2[i] = code[i] /\ i \in Int
        /\ code[i] \in Linking => Dest(code2, i) = Dest(code, i)
    BY <1>2, <1>5, <2>1
  <2>4. \A q \in Q : Cut(code2, i, q)
    BY <2>2, <2>3 DEF Cut
  <2> SUFFICES ASSUME code[i] \in Linking
               PROVE  Link(code2, at, i)
    BY <2>3, <2>4 DEF Link
  <2> DEFINE d == Dest(code, i)
  <2>5. Dest(code2, i) = d /\ d \in at
    BY <2>2, <2>3 DEF Link
  <2>6. d = s => /\ code[s] \in Jumps2 => code2[s] = code[s]
    BY DEF Overwritten
  <2>7. d # s /\ d # e => code2[d] = code[d]
    BY <1>2, <2>5
  <2>8. op.succeed_n \in Jumps2
    BY DEF Jumps2
  <2>9. code[i] = op.jump_n => d < i /\ i < e
    <3>1. i \in 1..e
      BY <1>1 DEF Shape
    <3>2. code[i] = op.jump_n => d < i
      BY <2>2 DEF Link
    <3>3. QED BY <1>1, <1>5, <3>1, <3>2
  <2>10. code[i] = op.jump_n => d # e
    <3>1. d \in 1..e
      BY <1>1, <2>5 DEF Shape
    <3>2. QED BY <1>1, <2>3, <2>9, <3>1
  <2>11. code[i] = op.set_number_at =>
           d # Len(code2) + 1 /\ code2[d] \in Jumps2
    BY <1>1, <2>2, <2>6, <2>7 DEF Link
  <2>12. code[i] = op.jump_n => d < i /\ code2[d] = op.succeed_n
    BY <2>2, <2>6, <2>7, <2>8, <2>10 DEF Link
  <2> HIDE DEF d
  <2>13. QED BY <2>3, <2>5, <2>11, <2>12 DEF Link
<1>6. QED BY <1>1, <1>3, <1>4, <1>5 DEF Good, Linked

\* A jump written where there is a gap, or over another one.
LEMMA JumpStored ==
  ASSUME NEW code, NEW at, Shape(code, at), NEW loc \in at, loc # Len(code) + 1,
         code[loc] \in Jumps \cup {Hole}, NEW o \in Jumps, NEW to \in Int
  PROVE  LET code2 == StoreJump(o, code, loc, to)
         IN /\ Overwritten(code, loc, code2) /\ code2[loc] = o
            /\ -32768 <= to - loc - 3 /\ to - loc - 3 <= 32767 => Dest(code2, loc) = to
<1> DEFINE d == to - loc - 3
           bytes == Op1(o, d)
           code2 == StoreJump(o, code, loc, to)
<1>1. /\ Size(code, loc) = 3 /\ Len(code) \in Nat /\ loc \in 1..Len(code)
      /\ loc + 3 <= Len(code) + 1 /\ code \in Seq(Cell)
  <2> HIDE DEF d, bytes, code2
  <2>1. Size(code, loc) = 3
    BY SizeOfOpcode
  <2>2. Len(code) \in Nat /\ loc \in 1..Len(code) /\ loc + Size(code, loc) <= Len(code) + 1
    BY Instruction
  <2>3. code \in Seq(Cell)
    BY DEF Shape
  <2>4. QED BY <2>1, <2>2, <2>3
<1>2. d \in Int
  BY <1>1
<1> HIDE DEF d
<1>3. /\ bytes \in Seq(Cell) /\ Len(bytes) = 3 /\ bytes[1] = o
      /\ \A k \in 1..3 : bytes[k] # Hole
      /\ bytes[2] = Low(d) /\ bytes[3] = High(d)
  BY <1>2, Op1Bytes
<1>4. code2 = Put(code, loc, bytes)
  BY DEF StoreJump, d
<1> HIDE DEF bytes, code2
<1>5. loc \in 1..(Len(code) + 1) /\ loc + Len(bytes) <= Len(code) + 1
  BY <1>1, <1>3
<1>6. /\ code2 \in Seq(Cell) /\ Len(code2) = Len(code)
      /\ \A k \in 1..Len(code) : k < loc \/ loc + Len(bytes) <= k => code2[k] = code[k]
      /\ \A k \in 1..Len(bytes) : code2[loc - 1 + k] = bytes[k]
  <2>1. code \in Seq(Cell) /\ bytes \in Seq(Cell)
    BY <1>1, <1>3
  <2>2. /\ Put(code, loc, bytes) \in Seq(Cell) /\ Len(Put(code, loc, bytes)) = Len(code)
        /\ \A k \in 1..Len(code) : k < loc \/ loc + Len(bytes) <= k =>
             Put(code, loc, bytes)[k] = code[k]
        /\ \A k \in 1..Len(bytes) : Put(code, loc, bytes)[loc - 1 + k] = bytes[k]
    BY <1>5, <2>1, PutAt, Zenon
  <2>3. QED BY <1>4, <2>2, Zenon
<1>7. code2[loc] = o /\ code2[loc + 1] = bytes[2] /\ code2[loc + 2] = bytes[3]
  <2>1. loc - 1 + 1 = loc /\ loc - 1 + 2 = loc + 1 /\ loc - 1 + 3 = loc + 2
    BY <1>1
  <2>2. code2[loc - 1 + 1] = bytes[1] /\ code2[loc - 1 + 2] = bytes[2]
        /\ code2[loc - 1 + 3] = bytes[3]
    BY <1>3, <1>6
  <2>3. QED BY <1>3, <2>1, <2>2
<1>8. ASSUME NEW k \in loc..(loc + 3 - 1)
      PROVE  code2[k] # Hole
  <2>1. k - loc + 1 \in 1..3 /\ loc - 1 + (k - loc + 1) = k
    BY <1>1
  <2>2. code2[loc - 1 + (k - loc + 1)] = bytes[k - loc + 1]
    BY <1>3, <1>6, <2>1
  <2>3. QED BY <1>3, <2>1, <2>2
<1>9. Size(code2, loc) = 3 /\ o \notin Counting /\ o \in Linking
  BY <1>7, SizeOfOpcode, OpSets DEF Linking
<1>10. code[loc] \notin Jumps2
  BY OpSets DEF Hole
<1>11. Overwritten(code, loc, code2)
  BY <1>1, <1>3, <1>6, <1>7, <1>8, <1>9, <1>10 DEF Overwritten
<1>12. ASSUME -32768 <= d, d <= 32767
       PROVE  Dest(code2, loc) = to
  <2>1. (loc + 1) + 1 = loc + 2
    BY <1>1
  <2>2. code2[loc + 1] = Low(d) /\ code2[(loc + 1) + 1] = High(d)
    BY <1>3, <1>7, <2>1
  <2>3. Number(code2, loc + 1) = d
    BY <1>2, <1>12, <2>2, NumberWritten
  <2>4. code2[loc] # op.set_number_at
    BY <1>7, OpSets, OpValues
  <2>5. Dest(code2, loc) = loc + d + 3
    BY <2>3, <2>4 DEF Dest
  <2>6. QED BY <1>1, <2>5 DEF d
<1>13. QED BY <1>7, <1>11, <1>12 DEF d, code2

\* Bytes written into the arguments of an instruction.
LEMMA ArgumentStored ==
  ASSUME NEW code, NEW at, NEW F, NEW Q, Good(code, at, F, Q),
         NEW s \in at, s # Len(code) + 1, code[s] \in {op.start_memory} \cup Jumps2,
         NEW bytes \in Seq(Cell), \A k \in 1..Len(bytes) : bytes[k] # Hole,
         NEW loc \in Int, s < loc, loc + Len(bytes) <= s + Size(code, s)
  PROVE  LET code2 == Put(code, loc, bytes)
         IN /\ Overwritten(code, s, code2)
            /\ \A k \in 1..Len(code) : k < loc \/ loc + Len(bytes) <= k => code2[k] = code[k]
<1> DEFINE n == Size(code, s)
           b == Len(bytes)
           code2 == Put(code, loc, bytes)
<1>1. /\ Shape(code, at) /\ code \in Seq(Cell)
  BY GoodNumbers
<1>2. /\ Len(code) \in Nat /\ s \in 1..Len(code) /\ n \in Nat /\ s + n <= Len(code) + 1
  BY <1>1, Instruction
<1>3. b \in Nat /\ s < loc /\ loc + b <= s + n
  OBVIOUS
<1> HIDE DEF n, b, code2
<1>4. loc \in 1..(Len(code) + 1) /\ loc + b <= Len(code) + 1
  BY <1>2, <1>3
<1>5. /\ code2 \in Seq(Cell) /\ Len(code2) = Len(code)
      /\ \A k \in 1..Len(code) : k < loc \/ loc + b <= k => code2[k] = code[k]
      /\ \A k \in 1..b : code2[loc - 1 + k] = bytes[k]
  BY <1>1, <1>4, PutAt DEF b, code2
<1>6. code2[s] = code[s]
  BY <1>2, <1>3, <1>5
<1>7. code[s] \notin Counting /\ code[s] # Hole
  <2>1. code[s] \in {5} \cup {20, 21}
    BY OpValues, OpSets
  <2>2. QED BY <2>1, OpSets DEF Hole
<1>8. Size(code2, s) = n
  <2>1. ArgBytes(code2, s) = ArgBytes(code, s)
    BY <1>6, <1>7 DEF ArgBytes, Counting
  <2>2. QED BY <1>6, <2>1 DEF Size, n
<1>9. ASSUME NEW k \in s..(s + n - 1)
      PROVE  code2[k] # Hole
  <2>1. k \in 1..Len(code)
    BY <1>2
  <2>2. CASE k < loc \/ loc + b <= k
    <3>1. code2[k] = code[k]
      BY <1>5, <2>1, <2>2
    <3>2. code[k] # Hole
      BY <1>7, NoHoleInside DEF n
    <3>3. QED BY <3>1, <3>2
  <2>3. CASE ~(k < loc \/ loc + b <= k)
    <3>1. k - loc + 1 \in 1..b /\ loc - 1 + (k - loc + 1) = k
      BY <1>3, <2>1, <2>3
    <3>2. code2[loc - 1 + (k - loc + 1)] = bytes[k - loc + 1]
      BY <1>5, <3>1
    <3>3. QED BY <3>1, <3>2 DEF b
  <2>4. QED BY <2>2, <2>3
<1>10. ASSUME NEW k \in 1..Len(code), k < s \/ s + n <= k
       PROVE  code2[k] = code[k]
  BY <1>2, <1>3, <1>5, <1>10
<1>11. Overwritten(code, s, code2)
  BY <1>5, <1>6, <1>7, <1>8, <1>9, <1>10 DEF Overwritten, n
<1>12. QED BY <1>5, <1>11 DEF code2, b

\* Another opcode for a jump.
LEMMA OpcodeStored ==
  ASSUME NEW code, NEW at, NEW F, NEW Q, Good(code, at, F, Q),
         NEW s \in at, s # Len(code) + 1, code[s] \in Jumps, NEW o \in Jumps
  PROVE  LET code2 == [code EXCEPT ![s] = o]
         IN Overwritten(code, s, code2) /\ code2[s] = o /\ Dest(code2, s) = Dest(code, s)
<1> DEFINE code2 == [code EXCEPT ![s] = o]
<1>1. Shape(code, at) /\ code \in Seq(Cell)
  BY GoodNumbers
<1>2. /\ Size(code, s) = 3 /\ Len(code) \in Nat /\ s \in 1..Len(code)
      /\ s + 3 <= Len(code) + 1
  BY <1>1, SizeOfOpcode, Instruction
<1>3. o \in 12..18 /\ o \in Cell /\ o # Hole /\ o \notin Counting /\ code[s] \in 12..18
  BY OpSets DEF Cell, Hole
<1>4. /\ code2 \in Seq(Cell) /\ Len(code2) = Len(code) /\ code2[s] = o
      /\ \A k \in 1..Len(code) : k # s => code2[k] = code[k]
  BY <1>1, <1>2, <1>3
<1> HIDE DEF code2
<1>5. Size(code2, s) = 3
  BY <1>4, SizeOfOpcode
<1>6. code[s] \notin Jumps2 /\ code[s] # Hole
  BY <1>3, OpSets DEF Hole
<1>7. ASSUME NEW k \in s..(s + 3 - 1)
      PROVE  code2[k] # Hole
  <2>1. CASE k = s
    BY <1>3, <1>4, <2>1
  <2>2. CASE k # s
    <3>1. k \in 1..Len(code)
      BY <1>2
    <3>2. k \in s..(s + Size(code, s) - 1)
      BY <1>2
    <3>3. code[k] # Hole
      BY <1>6, <3>2, NoHoleInside
    <3>4. QED BY <1>4, <2>2, <3>1, <3>3
  <2>3. QED BY <2>1, <2>2
<1>8. ASSUME NEW k \in 1..Len(code), k < s \/ s + 3 <= k
      PROVE  code2[k] = code[k]
  BY <1>2, <1>4, <1>8
<1>9. Overwritten(code, s, code2)
  BY <1>2, <1>3, <1>4, <1>5, <1>6, <1>7, <1>8 DEF Overwritten
<1>10. Dest(code2, s) = Dest(code, s)
  <2>1. s + 1 \in 1..Len(code) /\ s + 2 \in 1..Len(code) /\ s + 1 # s /\ s + 2 # s
        /\ (s + 1) + 1 = s + 2
    BY <1>2
  <2>2. code2[s + 1] = code[s + 1] /\ code2[s + 2] = code[s + 2]
    BY <1>4, <2>1
  <2>3. Number(code2, s + 1) = Number(code, s + 1)
    BY <2>1, <2>2 DEF Number
  <2>4. code2[s] # op.set_number_at /\ code[s] # op.set_number_at
    <3>1. op.set_number_at = 22
      BY OpValues
    <3>2. o # 22 /\ code[s] # 22
      BY <1>3
    <3>3. QED BY <1>4, <3>1, <3>2
  <2>5. QED BY <2>3, <2>4 DEF Dest
<1>11. QED BY <1>4, <1>9, <1>10 DEF code2

-----------------------------------------------------------------------------
(***************************************************************************)
(* The bytecode and the compiler's locals together.                        *)
(***************************************************************************)
LEMMA GoodEmpty == Good(<<>>, {1}, {}, {1})
<1> DEFINE code == <<>>
           at == {1}
<1>1. code \in Seq(Cell) /\ Len(code) = 0
  OBVIOUS
<1> HIDE DEF code
<1>2. Shape(code, at)
  BY <1>1 DEF Shape
<1>3. Gaps(code, at, {})
  BY <1>1 DEF Gaps
<1>4. Linked(code, at, {}, {1})
  BY <1>1 DEF Linked
<1>5. QED BY <1>2, <1>3, <1>4 DEF Good, code

\* It does no harm to take a jump for not written yet.
LEMMA MoreExempt ==
  ASSUME NEW code, NEW at, NEW F, NEW Q, Good(code, at, F, Q),
         NEW G, F \subseteq G, G \subseteq at, Len(code) + 1 \notin G
  PROVE  Good(code, at, G, Q)
<1>1. Gaps(code, at, G)
  BY DEF Good, Gaps
<1>2. Linked(code, at, G, Q)
  BY DEF Good, Linked
<1>3. QED BY <1>1, <1>2 DEF Good

\* An instruction without a displacement needs no exemption.
LEMMA NoLinkNeeded ==
  ASSUME NEW code, NEW at, NEW F, NEW Q, NEW s, Good(code, at, F \cup {s}, Q),
         code[s] \notin Linking, code[s] # Hole, F \subseteq at, Len(code) + 1 \notin F
  PROVE  Good(code, at, F, Q)
<1>1. Link(code, at, s) /\ \A x \in Q : Cut(code, s, x)
  BY DEF Link, Cut
<1> DEFINE G == F \cup {s}
<1>2. Good(code, at, G \ {s}, Q)
  <2>1. Good(code, at, G, Q)
    OBVIOUS
  <2> HIDE DEF G
  <2>2. QED BY <1>1, <2>1, NowLinked
<1>3. G \ {s} \subseteq F
  OBVIOUS
<1> HIDE DEF G
<1>4. QED BY <1>2, <1>3, MoreExempt

\* A frame's places lie below what was opened after it.
LEMMA FramesBelow ==
  ASSUME NEW stack, NEW begalt \in Int, NEW fixup \in Int, NEW laststart \in Int,
         NestedIn(stack, begalt, fixup, laststart),
         FrameFixups(stack) \subseteq Int, FrameMarks(stack) \subseteq Int
  PROVE  /\ \A q \in FrameMarks(stack) : q <= begalt /\ (fixup # 0 => q <= fixup)
         /\ \A h \in FrameFixups(stack) : h < begalt
<1>1. ASSUME NEW k \in 1..Len(stack)
      PROVE  /\ stack[k].laststart \in Int /\ stack[k].begalt \in Int
             /\ stack[k].laststart <= begalt /\ stack[k].begalt <= stack[k].laststart
             /\ fixup # 0 => stack[k].laststart <= fixup
             /\ stack[k].fixup_alt_jump # 0 =>
                  /\ stack[k].fixup_alt_jump \in Int
                  /\ stack[k].fixup_alt_jump < stack[k].begalt
  <2>1. stack[k].laststart \in FrameMarks(stack) /\ stack[k].begalt \in FrameMarks(stack)
    BY DEF FrameMarks
  <2>2. stack[k].fixup_alt_jump # 0 => stack[k].fixup_alt_jump \in FrameFixups(stack)
    BY DEF FrameFixups
  <2>3. /\ stack[k].laststart # 0
        /\ Level(stack[k].begalt, stack[k].fixup_alt_jump, stack[k].laststart)
        /\ Above(stack[k], begalt, fixup)
    BY DEF NestedIn
  <2>4. QED BY <2>1, <2>2, <2>3 DEF Level, Above
<1>2. ASSUME NEW q \in FrameMarks(stack)
      PROVE  q <= begalt /\ (fixup # 0 => q <= fixup)
  <2>1. \E k \in 1..Len(stack) : q = stack[k].begalt \/ q = stack[k].laststart
    BY DEF FrameMarks
  <2>2. PICK k \in 1..Len(stack) : q = stack[k].begalt \/ q = stack[k].laststart
    BY <2>1
  <2> DEFINE a == stack[k].begalt
             z == stack[k].laststart
  <2>3. /\ a \in Int /\ z \in Int /\ z <= begalt /\ a <= z /\ (fixup # 0 => z <= fixup)
        /\ q = a \/ q = z
    BY <1>1, <2>2
  <2> HIDE DEF a, z
  <2>4. QED BY <2>3
<1>3. ASSUME NEW h \in FrameFixups(stack)
      PROVE  h < begalt
  <2>1. \E k \in 1..Len(stack) : h = stack[k].fixup_alt_jump
    BY DEF FrameFixups
  <2>2. PICK k \in 1..Len(stack) : h = stack[k].fixup_alt_jump
    BY <2>1
  <2>3. h # 0
    BY DEF FrameFixups
  <2> DEFINE a == stack[k].begalt
             z == stack[k].laststart
  <2>4. a \in Int /\ z \in Int /\ z <= begalt /\ a <= z /\ h \in Int /\ h < a
    BY <1>1, <2>2, <2>3
  <2> HIDE DEF a, z
  <2>5. QED BY <2>4
<1>4. QED BY <1>2, <1>3

\* What the parts of Written say of its numbers.
LEMMA WrittenNumbers ==
  ASSUME NEW code, NEW at, NEW begalt, NEW fixup, NEW stack, NEW regnum, NEW laststart,
         NEW pending, Written(code, at, begalt, fixup, stack, regnum, laststart, pending)
  PROVE  LET F == Fixups(fixup, stack)
             Q == Marks(begalt, laststart, stack)
             e == Len(code) + 1
         IN /\ Len(code) \in Nat /\ code \in Seq(Cell) /\ Shape(code, at) /\ at \subseteq 1..e
            /\ Good(code, at, F, Q) /\ F \subseteq at /\ e \notin F /\ Q \subseteq at /\ e \in at
            /\ begalt \in at /\ (laststart # 0 => laststart \in at /\ begalt <= laststart)
            /\ fixup # 0 => fixup \in F /\ fixup < begalt
            /\ \A q \in FrameMarks(stack) : q \in Q /\ q <= begalt /\ (fixup # 0 => q <= fixup)
            /\ \A h \in F : h < begalt
            /\ FrameFixups(stack) \subseteq F
            /\ IsSeq(stack) /\ regnum \in Nat
<1> DEFINE F == Fixups(fixup, stack)
           Q == Marks(begalt, laststart, stack)
           e == Len(code) + 1
<1>1. Good(code, at, F, Q)
  BY DEF Written
<1>2. /\ Len(code) \in Nat /\ code \in Seq(Cell) /\ Shape(code, at) /\ at \subseteq 1..e
      /\ F \subseteq at /\ e \notin F /\ Q \subseteq at /\ e \in at
  <2> HIDE DEF F, Q
  <2>1. QED BY <1>1, GoodNumbers
<1>3. /\ begalt \in Q /\ (laststart # 0 => laststart \in Q)
      /\ FrameMarks(stack) \subseteq Q /\ FrameFixups(stack) \subseteq F
      /\ fixup # 0 => fixup \in F
      /\ \A h \in F : (h = fixup /\ fixup # 0) \/ h \in FrameFixups(stack)
  BY DEF Marks, Fixups
<1>4. /\ NestedIn(stack, begalt, fixup, laststart)
      /\ fixup # 0 => fixup < begalt
      /\ laststart # 0 => begalt <= laststart
      /\ IsSeq(stack) /\ regnum \in Nat
  BY DEF Written, NestedIn, Level
<1> HIDE DEF F, Q, e
<1>5. at \subseteq Int
  BY <1>2
<1>6. begalt \in Int /\ (laststart # 0 => laststart \in Int) /\ (fixup # 0 => fixup \in Int)
  BY <1>2, <1>3, <1>5
<1>7. begalt \in Int /\ laststart \in Int /\ fixup \in Int
  <2>1. 0 \in Int
    OBVIOUS
  <2>2. QED BY <1>6, <2>1
<1>8. FrameFixups(stack) \subseteq Int /\ FrameMarks(stack) \subseteq Int
  BY <1>2, <1>3, <1>5
<1>9. /\ \A q \in FrameMarks(stack) : q <= begalt /\ (fixup # 0 => q <= fixup)
      /\ \A h \in FrameFixups(stack) : h < begalt
  BY <1>4, <1>7, <1>8, FramesBelow
<1>10. \A h \in F : h < begalt
  BY <1>3, <1>4, <1>9
<1>11. QED BY <1>1, <1>2, <1>3, <1>4, <1>9, <1>10 DEF F, Q, e

-----------------------------------------------------------------------------
(***************************************************************************)
(* The constructs that only append.                                        *)
(***************************************************************************)
\* An opened group's start_memory stays where it is if what is before it does.
LEMMA OpenedStays ==
  ASSUME NEW code, NEW code2, NEW stack, NEW n, Opened(code, stack),
         Len(code) \in Nat, Len(code2) \in Nat, n \in Int, n <= Len(code2) + 1,
         \A k \in 1..Len(stack) : Kept(stack[k]) =>
           /\ stack[k].laststart \in Int /\ stack[k].laststart < n
           /\ code2[stack[k].laststart] = code[stack[k].laststart]
  PROVE  Opened(code2, stack)
<1>1. ASSUME NEW k \in 1..Len(stack), Kept(stack[k])
      PROVE  /\ stack[k].inner = stack[k].laststart + 2
             /\ stack[k].laststart # Len(code2) + 1
             /\ code2[stack[k].laststart] = op.start_memory
  <2>1. /\ stack[k].inner = stack[k].laststart + 2
        /\ code[stack[k].laststart] = op.start_memory
    BY <1>1 DEF Opened
  <2>2. /\ stack[k].laststart \in Int /\ stack[k].laststart < n
        /\ code2[stack[k].laststart] = code[stack[k].laststart]
    BY <1>1
  <2>3. QED BY <2>1, <2>2
<1>2. QED BY <1>1 DEF Opened

Extended(code, mid, begalt, fixup, stack, regnum, laststart, pending) ==
  \E at2 : Written(code \o mid, at2, begalt, fixup, stack, regnum, laststart, pending)

LEMMA Appended ==
  ASSUME NEW code, NEW at, NEW begalt, NEW fixup, NEW stack, NEW regnum, NEW laststart,
         NEW pending, Written(code, at, begalt, fixup, stack, regnum, laststart, pending),
         NEW mid, OneInstruction(mid), mid[1] \notin Linking, mid[1] # Hole,
         NEW laststart2 \in {laststart, Len(code) + 1},
         NEW pending2, \/ pending2 \in {0, pending}
                       \/ pending2 = Len(code) + 2 /\ mid[1] = op.exactn
  PROVE  Extended(code, mid, begalt, fixup, stack, regnum, laststart2, pending2)
<1> DEFINE F == Fixups(fixup, stack)
           Q == Marks(begalt, laststart, stack)
           Q2 == Marks(begalt, laststart2, stack)
           e == Len(code) + 1
           code2 == code \o mid
           e2 == Len(code2) + 1
           at2 == at \cup {e2}
<1>1. /\ Len(code) \in Nat /\ code \in Seq(Cell) /\ Shape(code, at) /\ at \subseteq 1..e
      /\ Good(code, at, F, Q) /\ F \subseteq at /\ e \notin F /\ Q \subseteq at /\ e \in at
      /\ begalt \in at /\ (laststart # 0 => laststart \in at /\ begalt <= laststart)
  BY WrittenNumbers
<1>2. /\ Good(code2, at2, F, Q \cup {e})
      /\ \A i \in at2 : i \notin F /\ i # e2 /\ code2[i] \in Linking => Dest(code2, i) # e2
  <2> HIDE DEF F, Q
  <2>1. QED BY <1>1, AppendPlain
<1>3. Q2 \subseteq Q \cup {e}
  BY DEF Marks
<1>4. /\ \A k \in 1..Len(code) : code2[k] = code[k]
      /\ \A k \in 1..Len(mid) : code2[Len(code) + k] = mid[k]
      /\ Len(code2) = Len(code) + Len(mid)
  BY <1>1, AppendIsInsertion
<1>5. Len(mid) \in Nat \ {0}
  BY DEF OneInstruction, Shape
<1>6. \A i \in at : i # e => code2[i] = code[i]
  <2> HIDE DEF code2
  <2>1. QED BY <1>1, <1>4
<1> HIDE DEF F, Q, Q2, code2, e2, at2
<1>7. Good(code2, at2, F, Q2)
  <2>1. Q2 \subseteq (Q \cup {e}) \cup {Len(code2) + 1}
    BY <1>3
  <2>2. QED BY <1>2, <2>1, OtherPlaces
<1>8. e2 \in Int /\ e < e2 /\ e2 \notin at
  BY <1>1, <1>4, <1>5 DEF e2
<1>9. Refilled(code2, F)
  <2>1. \A h \in F : h \in at /\ h # e
    BY <1>1
  <2>2. QED BY <1>6, <2>1 DEF Written, Refilled, F
<1>10. NestedIn(stack, begalt, fixup, laststart2)
  <2>1. NestedIn(stack, begalt, fixup, laststart)
    BY DEF Written
  <2>2. CASE laststart2 = laststart
    BY <2>1, <2>2
  <2>3. CASE laststart2 = e
    <3>1. begalt <= e
      BY <1>1
    <3>2. QED BY <2>1, <2>3, <3>1 DEF NestedIn, Level
  <2>4. QED BY <2>2, <2>3
<1>11. Opened(code2, stack)
  <2>1. Opened(code, stack)
    BY DEF Written
  <2>2. ASSUME NEW k \in 1..Len(stack), Kept(stack[k])
        PROVE  /\ stack[k].laststart \in Int /\ stack[k].laststart < e2
               /\ code2[stack[k].laststart] = code[stack[k].laststart]
    <3> DEFINE z == stack[k].laststart
    <3>1. z \in at
      <4>1. z \in FrameMarks(stack)
        BY DEF FrameMarks
      <4>2. QED BY <1>1, <4>1 DEF Q, Marks
    <3>2. z # e
      BY <2>1, <2>2 DEF Opened
    <3>3. code2[z] = code[z]
      BY <1>6, <3>1, <3>2
    <3>4. z \in 1..e
      BY <1>1, <3>1
    <3> HIDE DEF z
    <3>5. z \in Int /\ z < e2
      BY <1>1, <1>8, <3>4
    <3>6. QED BY <3>3, <3>5 DEF z
  <2>3. Len(code2) \in Nat /\ e2 <= Len(code2) + 1
    BY <1>1, <1>4, <1>5 DEF e2
  <2>4. QED BY <1>1, <1>8, <2>1, <2>2, <2>3, OpenedStays
<1>12. Pending(code2, at2, pending2, F, Q2)
  <2>1. e2 \notin Q2
    BY <1>1, <1>3, <1>8
  <2>2. pending \in Nat
    BY DEF Written, Pending
  <2>3. CASE pending2 = 0
    BY <2>3 DEF Pending
  <2>4. CASE pending2 = pending /\ pending # 0
    <3>1. /\ pending - 1 \in at /\ pending <= Len(code) /\ code[pending - 1] = op.exactn
      BY <2>4 DEF Written, Pending
    <3>2. pending - 1 # e
      BY <1>1, <2>2, <3>1
    <3>3. pending - 1 \in at2 /\ code2[pending - 1] = op.exactn
      BY <1>6, <3>1, <3>2 DEF at2
    <3>4. pending <= Len(code2)
      BY <1>1, <1>4, <1>5, <2>2, <3>1
    <3>5. QED BY <1>2, <2>1, <2>2, <2>4, <3>3, <3>4 DEF Pending, e2
  <2>5. CASE pending2 = Len(code) + 2 /\ mid[1] = op.exactn
    <3>1. pending2 - 1 = e /\ pending2 \in Nat
      BY <1>1, <2>5
    <3>2. code2[e] = op.exactn
      <4>1. 1 \in 1..Len(mid)
        BY <1>5
      <4>2. code2[Len(code) + 1] = mid[1]
        BY <1>4, <4>1
      <4>3. QED BY <2>5, <4>2
    <3>3. pending2 <= Len(code2)
      <4>1. Len(mid) # 1
        <5>1. /\ Shape(mid, {1, Len(mid) + 1}) /\ 1 \in {1, Len(mid) + 1} /\ 1 # Len(mid) + 1
          BY <1>5 DEF OneInstruction
        <5>2. mid[1] \in Counting
          BY <2>5 DEF Counting
        <5>3. 1 + 1 <= Len(mid)
          BY <5>1, <5>2, Instruction
        <5> DEFINE n == Len(mid)
        <5>4. n \in Nat /\ 1 + 1 <= n
          BY <1>5, <5>3
        <5> HIDE DEF n
        <5>5. n # 1
          BY <5>4
        <5>6. QED BY <5>5 DEF n
      <4> DEFINE a == Len(code)
                 n == Len(mid)
                 b == Len(code2)
      <4>2. a \in Nat /\ n \in Nat \ {0} /\ b = a + n /\ n # 1 /\ pending2 = a + 2
        BY <1>1, <1>4, <1>5, <2>5, <4>1
      <4> HIDE DEF a, n, b
      <4>3. pending2 <= b
        BY <4>2
      <4>4. QED BY <4>3 DEF b
    <3>4. e \in at2
      BY <1>1 DEF at2
    <3>5. QED BY <1>2, <2>1, <3>1, <3>2, <3>3, <3>4 DEF Pending, e2
  <2>6. QED BY <2>3, <2>4, <2>5
<1>13. IsSeq(stack) /\ regnum \in Nat
  BY DEF Written
<1>14. Written(code2, at2, begalt, fixup, stack, regnum, laststart2, pending2)
  BY <1>7, <1>9, <1>10, <1>11, <1>12, <1>13 DEF Written, F, Q2, e2
<1> HIDE DEF at2
<1>15. QED BY <1>14 DEF Extended, code2

-----------------------------------------------------------------------------
(***************************************************************************)
(* A character more in the exactn at the end.                              *)
(***************************************************************************)
ExactAtEnd(code, at, k) ==
  /\ k - 1 \in at /\ k \in 1..Len(code) /\ code[k - 1] = op.exactn
  /\ k + code[k] = Len(code) /\ code[k] # 255
Grew(code, k, code2) ==
  /\ code2 \in Seq(Cell) /\ Len(code2) = Len(code) + 1
  /\ \A i \in 1..Len(code) : i # k => code2[i] = code[i]
  /\ code2[k] = code[k] + 1 /\ code2[Len(code) + 1] \in 0..255

LEMMA GrewBytes ==
  ASSUME NEW code \in Seq(Cell), NEW k \in 1..Len(code), code[k] \in 0..254, NEW c \in 0..255
  PROVE  Grew(code, k, [Append(code, c) EXCEPT ![k] = @ + 1])
<1> DEFINE a == Append(code, c)
           x == code[k] + 1
           code2 == [a EXCEPT ![k] = @ + 1]
<1>1. Len(code) \in Nat /\ c \in Cell /\ x \in Cell /\ x \in 0..255
  <2> DEFINE y == code[k]
  <2>1. y \in 0..254 /\ x = y + 1
    OBVIOUS
  <2> HIDE DEF x, y
  <2>2. x \in 0..255
    BY <2>1
  <2>3. QED BY <2>2 DEF Cell
<1>2. /\ a \in Seq(Cell) /\ Len(a) = Len(code) + 1 /\ a[Len(code) + 1] = c
      /\ \A i \in 1..Len(code) : a[i] = code[i]
  BY <1>1
<1> HIDE DEF a
<1>3. a[k] + 1 = x /\ k \in 1..Len(a) /\ k # Len(code) + 1
  BY <1>1, <1>2
<1>4. code2 = [a EXCEPT ![k] = x]
  BY <1>3
<1> HIDE DEF x, code2
<1>5. /\ code2 \in Seq(Cell) /\ Len(code2) = Len(a) /\ code2[k] = x
      /\ \A i \in 1..Len(a) : i # k => code2[i] = a[i]
  BY <1>1, <1>2, <1>3, <1>4
<1>6. /\ code2[Len(code) + 1] = c
      /\ \A i \in 1..Len(code) : i # k => code2[i] = code[i]
  <2>1. Len(code) + 1 \in 1..Len(a) /\ \A i \in 1..Len(code) : i \in 1..Len(a)
    BY <1>1, <1>2
  <2>2. QED BY <1>2, <1>3, <1>5, <2>1
<1>7. Grew(code, k, code2)
  BY <1>2, <1>5, <1>6 DEF Grew, x
<1>8. QED BY <1>7 DEF code2, a

LEMMA GrownExact ==
  ASSUME NEW code, NEW at, Shape(code, at), NEW k, ExactAtEnd(code, at, k)
  PROVE  /\ code[k] \in 0..254 /\ k - 1 \in at /\ k - 1 # Len(code) + 1 /\ k \in Int
         /\ Size(code, k - 1) = 2 + code[k] /\ k - 1 + Size(code, k - 1) = Len(code) + 1
<1>1. /\ k \in Int /\ Len(code) \in Nat /\ k - 1 # Len(code) + 1 /\ k - 1 + 1 = k
  BY DEF ExactAtEnd, Shape
<1>2. k - 1 \in at /\ code[k - 1] \in Counting
  BY DEF ExactAtEnd, Counting
<1>3. code[k] \in 0..255 /\ Size(code, k - 1) = 2 + code[k]
  <2>1. code[k - 1 + 1] \in 0..255 /\ Size(code, k - 1) = 2 + code[k - 1 + 1]
    BY <1>1, <1>2, Instruction
  <2>2. QED BY <1>1, <2>1
<1>4. code[k] # 255 /\ k + code[k] = Len(code)
  BY DEF ExactAtEnd
<1> DEFINE x == code[k]
           z == Size(code, k - 1)
           n == Len(code)
<1>5. x \in 0..255 /\ z = 2 + x /\ x # 255 /\ k + x = n /\ n \in Nat
  BY <1>1, <1>3, <1>4
<1> HIDE DEF x, z, n
<1>6. x \in 0..254 /\ k - 1 + z = n + 1
  BY <1>1, <1>5
<1>7. QED BY <1>1, <1>2, <1>3, <1>6 DEF x, z, n

\* The instructions before it are as they were.
LEMMA GrownOthers ==
  ASSUME NEW code, NEW at, Shape(code, at), NEW k, ExactAtEnd(code, at, k),
         NEW code2, Grew(code, k, code2), NEW i \in at, i # Len(code) + 1, i # k - 1
  PROVE  /\ Alike(code, i, code2, i) /\ code2[i] = code[i] /\ i \in Int
         /\ Size(code2, i) = Size(code, i) /\ Size(code, i) \in Nat \ {0}
         /\ i + Size(code, i) \in at /\ i + Size(code, i) <= k - 1 /\ k - 1 <= Len(code)
         /\ code[i] \in Counting => code2[i + 1] = code[i + 1]
         /\ code[i] \in Linking => Dest(code2, i) = Dest(code, i)
<1> DEFINE z == Size(code, i)
           w == Size(code, k - 1)
<1>1. /\ Len(code) \in Nat /\ i \in 1..Len(code) /\ z \in Nat \ {0}
      /\ i + z \in at /\ i + z <= Len(code) + 1
      /\ code[i] \in Linking => Dest(code, i) \in Int
  BY Instruction
<1>2. /\ k - 1 \in at /\ k - 1 # Len(code) + 1 /\ k \in Int
      /\ k - 1 + w = Len(code) + 1 /\ k \in 1..Len(code)
  <2>1. k \in 1..Len(code)
    BY DEF ExactAtEnd
  <2>2. QED BY <2>1, GrownExact
<1>3. i < k - 1 \/ k - 1 < i
  BY <1>1, <1>2
<1>4. k - 1 < i => k - 1 + w <= i
  BY <1>2, Apart
<1>5. i < k - 1 => i + z <= k - 1
  BY <1>2, Apart
<1> HIDE DEF z, w
<1>6. i + z <= k - 1
  BY <1>1, <1>2, <1>3, <1>4, <1>5
<1>7. ASSUME NEW j \in 0..(z - 1)
      PROVE  code2[i + j] = code[i + j]
  <2>1. i + j \in 1..Len(code) /\ i + j # k
    BY <1>1, <1>2, <1>6
  <2>2. QED BY <2>1 DEF Grew
<1>8. SameBytes(code, i, code2, i)
  BY <1>7 DEF SameBytes, z
<1>9. i \in Int
  BY <1>1
<1>10. Alike(code, i, code2, i)
  BY <1>8, <1>9, Carried
<1>11. code[i] \in Linking => Dest(code, i) + i - i = Dest(code, i)
  BY <1>1, <1>9
<1>12. k - 1 <= Len(code)
  BY <1>1, <1>2
<1>13. QED BY <1>1, <1>6, <1>9, <1>10, <1>11, <1>12 DEF Alike, z

LEMMA GrownShape ==
  ASSUME NEW code, NEW at, Shape(code, at), NEW k, ExactAtEnd(code, at, k),
         NEW code2, Grew(code, k, code2)
  PROVE  Shape(code2, (at \ {Len(code) + 1}) \cup {Len(code) + 2})
<1> DEFINE e == Len(code) + 1
           at2 == (at \ {e}) \cup {e + 1}
           z == Size(code, k - 1)
<1>1. /\ Len(code) \in Nat /\ at \subseteq 1..e /\ 1 \in at /\ e \in Nat
      /\ code2 \in Seq(Cell) /\ Len(code2) = e
  BY DEF Shape, Grew
<1>2. /\ code[k] \in 0..254 /\ k - 1 \in at /\ k - 1 # e /\ k \in Int
      /\ z = 2 + code[k] /\ k - 1 + z = e
  BY GrownExact
<1>3. 1 # e
  <2> DEFINE x == code[k]
  <2>1. x \in 0..254 /\ k - 1 \in 1..e /\ z = 2 + x /\ k - 1 + z = e /\ k \in Int
    BY <1>1, <1>2
  <2> HIDE DEF x, z, e
  <2>2. QED BY <1>1, <2>1
<1>4. ASSUME NEW i \in at2, i # e + 1
      PROVE  Fitting(code2, at2, i)
  <2>1. i \in at /\ i # e /\ i \in Int
    BY <1>1, <1>4
  <2>2. CASE i = k - 1
    <3>1. code2[k] = code[k] + 1 /\ code2[k - 1] = op.exactn
      <4>1. k - 1 \in 1..Len(code) /\ k - 1 # k
        <5>1. k \in Int /\ k - 1 \in 1..e /\ k - 1 # e
          BY <1>1, <1>2
        <5> HIDE DEF z
        <5>2. QED BY <1>1, <5>1
      <4>2. code[k - 1] = op.exactn
        BY DEF ExactAtEnd
      <4>3. QED BY <4>1, <4>2 DEF Grew
    <3>2. k - 1 + 1 = k /\ code2[k] \in 0..255
      <4> DEFINE x == code[k]
                 y == code2[k]
      <4>1. x \in 0..254 /\ y = x + 1
        BY <1>2, <3>1
      <4> HIDE DEF x, y
      <4>2. y \in 0..255
        BY <4>1
      <4>3. QED BY <1>2, <4>2 DEF y
    <3>3. Size(code2, k - 1) = 2 + code2[k]
      <4>1. code2[k - 1] \in Cell /\ code2[k - 1] \in Counting
        BY <3>1, OpValues DEF Cell, Counting
      <4>2. QED BY <3>2, <4>1, SizeOf
    <3>4. k - 1 + Size(code2, k - 1) = e + 1
      <4> DEFINE x == code[k]
                 y == code2[k]
                 s == Size(code2, k - 1)
      <4>1. x \in 0..254 /\ y = x + 1 /\ s = 2 + y /\ k - 1 + (2 + x) = e /\ z = 2 + x
        BY <1>2, <3>1, <3>3
      <4> HIDE DEF x, y, s, z
      <4>2. k - 1 + s = e + 1
        BY <1>1, <1>2, <4>1
      <4>3. QED BY <4>2 DEF s
    <3>5. ASSUME NEW j \in at2
          PROVE  j <= k - 1 \/ e + 1 <= j
      <4>1. CASE j = e + 1
        BY <1>1, <4>1
      <4>2. CASE j \in at /\ j # e
        <5>1. j \in 1..e
          BY <1>1, <4>2
        <5>2. k - 1 < j => k - 1 + z <= j
          BY <1>2, <4>2, Apart
        <5>3. k \in Int /\ k - 1 + z = e /\ j # e
          BY <1>2, <4>2
        <5> HIDE DEF z
        <5>4. QED BY <1>1, <5>1, <5>2, <5>3
      <4>3. QED BY <4>1, <4>2
    <3>6. k <= Len(code2)
      <4>1. k \in 1..Len(code)
        BY DEF ExactAtEnd
      <4>2. QED BY <1>1, <4>1
    <3>7. QED BY <2>2, <3>1, <3>2, <3>4, <3>5, <3>6 DEF Fitting
  <2>3. CASE i # k - 1
    <3> DEFINE s == Size(code, i)
    <3>1. /\ code2[i] = code[i] /\ Size(code2, i) = s /\ s \in Nat \ {0}
          /\ i + s \in at /\ i + s <= k - 1 /\ k - 1 <= Len(code)
          /\ code[i] \in Counting => code2[i + 1] = code[i + 1]
      BY <2>1, <2>3, GrownOthers
    <3>2. Fitting(code, at, i)
      BY <2>1 DEF Shape
    <3> HIDE DEF s
    <3>3. i + s \in at2
      BY <1>1, <1>2, <3>1
    <3>4. ASSUME NEW j \in at2
          PROVE  j <= i \/ i + s <= j
      <4>1. CASE j = e + 1
        BY <1>1, <1>2, <2>1, <3>1, <4>1
      <4>2. CASE j \in at
        BY <3>1, <3>2, <4>2 DEF Fitting, s
      <4>3. QED BY <4>1, <4>2
    <3>5. code[i] \in Counting => i + 1 <= Len(code2) /\ code2[i + 1] \in 0..255
      <4>1. code[i] \in Counting => i + 1 <= Len(code) /\ code[i + 1] \in 0..255
        BY <3>2 DEF Fitting
      <4>2. code[i] \in Counting => i + 1 <= Len(code2)
        <5>1. i + 1 <= Len(code) => i + 1 <= Len(code2)
          BY <1>1, <2>1
        <5>2. QED BY <4>1, <5>1
      <4>3. QED BY <3>1, <4>1, <4>2
    <3>6. QED BY <3>1, <3>3, <3>4, <3>5 DEF Fitting
  <2>4. QED BY <2>2, <2>3
<1>5. at2 \subseteq 1..(e + 1) /\ 1 \in at2 /\ e + 1 \in at2
  <2>1. \A i \in at2 : i \in 1..e \/ i = e + 1
    BY <1>1
  <2>2. 1 \in at2 /\ e + 1 \in at2
    BY <1>1, <1>3
  <2> HIDE DEF at2, e
  <2>3. QED BY <1>1, <2>1, <2>2
<1>6. e + 1 = Len(code) + 2
  BY <1>1
<1>7. Shape(code2, at2)
  BY <1>1, <1>4, <1>5 DEF Shape
<1>8. QED BY <1>6, <1>7

LEMMA ExactGrows ==
  ASSUME NEW code, NEW at, NEW begalt, NEW fixup, NEW stack, NEW regnum, NEW laststart,
         NEW k, Written(code, at, begalt, fixup, stack, regnum, laststart, k),
         k # 0, k + code[k] = Len(code), code[k] # 255, NEW code2, Grew(code, k, code2)
  PROVE  Written(code2, (at \ {Len(code) + 1}) \cup {Len(code) + 2}, begalt, fixup, stack,
                 regnum, laststart, k)
<1> DEFINE F == Fixups(fixup, stack)
           Q == Marks(begalt, laststart, stack)
           e == Len(code) + 1
           at2 == (at \ {e}) \cup {Len(code) + 2}
<1>1. /\ Len(code) \in Nat /\ code \in Seq(Cell) /\ Shape(code, at) /\ at \subseteq 1..e
      /\ Good(code, at, F, Q) /\ F \subseteq at /\ e \notin F /\ Q \subseteq at /\ e \in at
  BY WrittenNumbers
<1>2. /\ k \in Nat /\ k - 1 \in at /\ k <= Len(code) /\ code[k - 1] = op.exactn /\ e \notin Q
      /\ \A i \in at : i \notin F /\ i # e /\ code[i] \in Linking => Dest(code, i) # e
  BY DEF Written, Pending
<1> HIDE DEF F, Q
<1>3. k \in 1..Len(code)
  BY <1>1, <1>2
<1>4. ExactAtEnd(code, at, k)
  BY <1>2, <1>3 DEF ExactAtEnd
<1>5. Len(code2) = e /\ Len(code2) + 1 = Len(code) + 2 /\ e # Len(code) + 2
  BY <1>1 DEF Grew
<1>6. Shape(code2, at2)
  BY <1>1, <1>4, GrownShape
<1>7. ASSUME NEW i \in at, i # e, i # k - 1
      PROVE  /\ code2[i] = code[i] /\ i \in Int
             /\ code[i] \in Linking => Dest(code2, i) = Dest(code, i)
  BY <1>1, <1>4, <1>7, GrownOthers
<1>8. /\ op.exactn \notin Linking \cup {Hole, op.jump_past_alt, op.start_memory}
      /\ op.succeed_n \in Jumps2 /\ Jumps2 \subseteq Linking
  <2>1. op.exactn = 1 /\ op.jump_past_alt = 13 /\ op.start_memory = 5
    BY OpValues
  <2>2. op.exactn \notin Linking
    BY <2>1, OpSets
  <2>3. QED BY <2>1, <2>2 DEF Linking, Hole, Jumps2
<1>9. \A h \in F : h \in at /\ h # e /\ h # k - 1 /\ code2[h] = code[h]
  <2>1. \A h \in F : h \in at /\ h # e /\ code[h] \in {Hole, op.jump_past_alt}
    BY <1>1 DEF Written, Refilled, F
  <2>2. QED BY <1>2, <1>7, <1>8, <2>1
<1>10. Gaps(code2, at2, F)
  <2>1. F \subseteq at2 /\ Len(code2) + 1 \notin F
    <3>1. Len(code) + 2 \notin at
      BY <1>1
    <3>2. QED BY <1>1, <1>5, <3>1
  <2>2. ASSUME NEW j \in 1..Len(code2), code2[j] = Hole
        PROVE  \E h \in F : code2[h] = Hole /\ j \in h..(h + 2)
    <3>1. j # k /\ j # e
      <4>1. code[k] \in 0..254
        BY <1>1, <1>4, GrownExact
      <4> DEFINE x == code[k]
                 y == code2[k]
                 u == code2[e]
      <4>2. x \in 0..254 /\ y = x + 1 /\ u \in 0..255
        BY <4>1 DEF Grew
      <4> HIDE DEF x, y, u
      <4>3. y # Hole /\ u # Hole
        <5>1. y \in 0..255 /\ u \in 0..255
          BY <4>2
        <5>2. \A v \in 0..255 : v # Hole
          BY DEF Hole
        <5>3. QED BY <5>1, <5>2
      <4>4. QED BY <2>2, <4>3 DEF y, u
    <3>2. j \in 1..Len(code)
      BY <1>1, <1>5, <3>1
    <3>3. code[j] = Hole
      BY <2>2, <3>1, <3>2 DEF Grew
    <3>4. \E h \in F : code[h] = Hole /\ j \in h..(h + 2)
      BY <1>1, <3>2, <3>3 DEF Good, Gaps
    <3>5. QED BY <1>9, <3>4
  <2>3. QED BY <2>1, <2>2 DEF Gaps
<1>11. Q \subseteq at2
  BY <1>1, <1>2
<1>12. Linked(code2, at2, F, Q)
  <2> SUFFICES ASSUME NEW i \in at2, i \notin F, i # Len(code2) + 1
               PROVE  Link(code2, at2, i) /\ \A q \in Q : Cut(code2, i, q)
    BY DEF Linked
  <2>1. i \in at /\ i # e
    BY <1>5
  <2>2. CASE i = k - 1
    <3>1. code2[i] \notin Linking
      <4>1. k - 1 \in 1..Len(code) /\ k - 1 # k
        BY <1>1, <1>2, <2>1, <2>2
      <4>2. code2[k - 1] = code[k - 1]
        BY <4>1 DEF Grew
      <4>3. QED BY <1>2, <1>8, <2>2, <4>2
    <3>2. QED BY <3>1 DEF Link, Cut
  <2>3. CASE i # k - 1
    <3>1. /\ code2[i] = code[i] /\ i \in Int
          /\ code[i] \in Linking => Dest(code2, i) = Dest(code, i)
      BY <1>7, <2>1, <2>3
    <3>2. Link(code, at, i) /\ \A q \in Q : Cut(code, i, q)
      BY <1>1, <2>1 DEF Good, Linked
    <3>3. \A q \in Q : Cut(code2, i, q)
      BY <3>1, <3>2 DEF Cut
    <3> SUFFICES ASSUME code[i] \in Linking
                 PROVE  Link(code2, at2, i)
      BY <3>1, <3>3 DEF Link
    <3> DEFINE d == Dest(code, i)
    <3>4. d \in at /\ d # e /\ Dest(code2, i) = d
      BY <1>2, <2>1, <3>1, <3>2 DEF Link
    <3>5. d \in at2 /\ d # Len(code2) + 1
      <4>1. Len(code) + 2 \notin at
        BY <1>1
      <4>2. QED BY <1>5, <3>4, <4>1
    <3>6. code[d] \in Jumps2 => code2[d] = code[d]
      BY <1>2, <1>7, <1>8, <3>4
    <3>7. code[i] = op.set_number_at => code2[d] \in Jumps2
      BY <3>2, <3>6 DEF Link
    <3>8. code[i] = op.jump_n => d < i /\ code2[d] = op.succeed_n
      BY <1>8, <3>2, <3>6 DEF Link
    <3> HIDE DEF d
    <3>9. QED BY <3>1, <3>4, <3>5, <3>7, <3>8 DEF Link
  <2>4. QED BY <2>2, <2>3
<1>13. Good(code2, at2, F, Q)
  BY <1>6, <1>10, <1>11, <1>12 DEF Good
<1>14. Refilled(code2, F)
  BY <1>9 DEF Written, Refilled, F
<1>15. Opened(code2, stack)
  <2>1. Opened(code, stack)
    BY DEF Written
  <2>2. ASSUME NEW j \in 1..Len(stack), Kept(stack[j])
        PROVE  /\ stack[j].laststart \in Int /\ stack[j].laststart < e
               /\ code2[stack[j].laststart] = code[stack[j].laststart]
    <3> DEFINE z == stack[j].laststart
    <3>1. z \in at
      <4>1. z \in FrameMarks(stack)
        BY DEF FrameMarks
      <4>2. QED BY <1>1, <4>1 DEF Q, Marks
    <3>2. z # e /\ code[z] = op.start_memory
      BY <2>1, <2>2 DEF Opened
    <3>3. code2[z] = code[z]
      BY <1>2, <1>7, <1>8, <3>1, <3>2
    <3>4. z \in 1..e
      BY <1>1, <3>1
    <3> HIDE DEF z
    <3>5. z \in Int /\ z < e
      BY <1>1, <3>2, <3>4
    <3>6. QED BY <3>3, <3>5 DEF z
  <2>3. Len(code2) \in Nat /\ e <= Len(code2) + 1 /\ e \in Int
    BY <1>1, <1>5
  <2>4. QED BY <1>1, <2>1, <2>2, <2>3, OpenedStays
<1>16. Pending(code2, at2, k, F, Q)
  <2>1. k - 1 \in at2 /\ k <= Len(code2)
    BY <1>1, <1>2, <1>5
  <2>2. code2[k - 1] = op.exactn
    <3>1. k - 1 \in 1..Len(code) /\ k - 1 # k
      BY <1>1, <1>2
    <3>2. QED BY <1>2, <3>1 DEF Grew
  <2>3. Len(code2) + 1 \notin at
    BY <1>1, <1>5
  <2>4. Len(code2) + 1 \notin Q
    BY <1>1, <2>3
  <2>5. ASSUME NEW i \in at2, i \notin F, i # Len(code2) + 1, code2[i] \in Linking
        PROVE  Dest(code2, i) # Len(code2) + 1
    <3>1. i \in at /\ i # e
      BY <1>5, <2>5
    <3>2. i # k - 1
      BY <1>8, <2>2, <2>5
    <3>3. code[i] \in Linking /\ Dest(code2, i) = Dest(code, i)
      BY <1>7, <2>5, <3>1, <3>2
    <3>4. Dest(code, i) \in at
      BY <1>1, <2>5, <3>1, <3>3 DEF Good, Linked, Link
    <3>5. QED BY <2>3, <3>3, <3>4
  <2>6. QED BY <1>2, <2>1, <2>2, <2>4, <2>5 DEF Pending
<1>17. /\ IsSeq(stack) /\ regnum \in Nat /\ NestedIn(stack, begalt, fixup, laststart)
  BY DEF Written
<1>18. QED BY <1>13, <1>14, <1>15, <1>16, <1>17 DEF Written, F, Q

-----------------------------------------------------------------------------
(***************************************************************************)
(* Jumps filled in, inserted and appended.                                 *)
(***************************************************************************)
UpTo(Q, q) == \A x \in Q : x \in Int /\ x <= q
Below(F, q) == \A h \in F : h < q
Near(q, to) == -32768 <= to - q - 3 /\ to - q - 3 <= 32767

LEMMA JumpFilled ==
  ASSUME NEW code, NEW at, NEW F, NEW Q, Good(code, at, F, Q),
         NEW f \in at, f # Len(code) + 1, code[f] \in Jumps \cup {Hole},
         NEW o \in Jumps, NEW to \in at, Near(f, to),
         UpTo(Q, f), UpTo(Q, to)
  PROVE  LET code2 == StoreJump(o, code, f, to)
         IN /\ Good(code2, at, F \ {f}, Q) /\ code2[f] = o /\ Overwritten(code, f, code2)
<1> USE DEF Near
<1> USE DEF UpTo
<1> DEFINE code2 == StoreJump(o, code, f, to)
<1>1. /\ Len(code) \in Nat /\ Shape(code, at) /\ at \subseteq 1..(Len(code) + 1)
      /\ Q \subseteq at
  BY GoodNumbers
<1>2. to \in Int /\ f \in Int /\ Q \subseteq Int
  BY <1>1
<1>3. Overwritten(code, f, code2) /\ code2[f] = o /\ Dest(code2, f) = to
  <2>1. /\ Overwritten(code, f, code2) /\ code2[f] = o
        /\ -32768 <= to - f - 3 /\ to - f - 3 <= 32767 => Dest(code2, f) = to
    BY <1>1, <1>2, JumpStored
  <2> HIDE DEF code2
  <2>2. QED BY <1>2, <2>1
<1> HIDE DEF code2
<1>4. Good(code2, at, F \cup {f}, Q)
  BY <1>3, Rewritten
<1>5. /\ o # Hole /\ o # op.set_number_at /\ o # op.jump_n
  <2>1. o \in 12..18
    BY OpSets
  <2>2. o # -1 /\ o # 22 /\ o # 21
    BY <2>1
  <2>3. QED BY <2>2, OpValues DEF Hole
<1>6. Link(code2, at, f)
  BY <1>3, <1>5 DEF Link
<1>7. \A x \in Q : Cut(code2, f, x)
  <2> SUFFICES ASSUME NEW x \in Q
               PROVE  Cut(code2, f, x)
    OBVIOUS
  <2>1. x <= f /\ x <= to /\ x \in Int
    BY <1>2
  <2>2. ~(f < x) /\ to >= x
    BY <1>2, <2>1
  <2>3. QED BY <1>3, <2>2 DEF Cut
<1> DEFINE G == F \cup {f}
<1>8. Good(code2, at, G \ {f}, Q)
  <2>1. Good(code2, at, G, Q) /\ code2[f] # Hole
    BY <1>3, <1>4, <1>5
  <2> HIDE DEF G
  <2>2. QED BY <1>6, <1>7, <2>1, NowLinked
<1>9. G \ {f} = F \ {f}
  OBVIOUS
<1> HIDE DEF G
<1>10. Good(code2, at, F \ {f}, Q)
  <2> DEFINE A == G \ {f}
             B == F \ {f}
  <2>1. A = B /\ Good(code2, at, A, Q)
    BY <1>8, <1>9
  <2> HIDE DEF A, B
  <2>2. Good(code2, at, B, Q)
    BY <2>1
  <2>3. QED BY <2>2 DEF B
<1>11. QED BY <1>3, <1>10 DEF code2

\* Where the exempt jumps are after an insertion behind the others.
LEMMA ShiftedBefore ==
  ASSUME NEW q \in Int, NEW n \in Nat, NEW F, Below(F, q)
  PROVE  Shifted(q, n, F) = F \cup {q} /\ q \notin F /\ (F \cup {q}) \ {q} = F
<1> USE DEF Below
<1>1. \A h \in F : Shift(q, n, h) = h
  BY DEF Shift
<1>2. q \notin F
  <2>1. ~(q < q)
    OBVIOUS
  <2>2. QED BY <2>1
<1>3. {Shift(q, n, i) : i \in F} = F
  BY <1>1
<1>4. QED BY <1>2, <1>3 DEF Shifted

LEMMA ShiftedBehind ==
  ASSUME NEW q \in Int, NEW n \in Nat, NEW F, Below(F, q), NEW x \in Int, q <= x
  PROVE  /\ Shifted(q, n, F) = F \cup {q} /\ q \notin F /\ (F \cup {q}) \ {q} = F
         /\ Shifted(q, n, F \cup {x}) = F \cup {q, x + n}
         /\ Shift(q, n, x) = x + n
<1> USE DEF Below
<1>1. \A h \in F : Shift(q, n, h) = h
  BY DEF Shift
<1>2. Shift(q, n, x) = x + n
  <2>1. ~(x < q)
    OBVIOUS
  <2>2. QED BY <2>1 DEF Shift
<1>3. q \notin F
  <2>1. ~(q < q)
    OBVIOUS
  <2>2. QED BY <2>1
<1>4. {Shift(q, n, i) : i \in F} = F
  BY <1>1
<1>5. {Shift(q, n, i) : i \in F \cup {x}} = F \cup {x + n}
  BY <1>1, <1>2
<1>6. QED BY <1>2, <1>3, <1>4, <1>5 DEF Shifted

\* An instruction with a displacement put in at the last place there is for one.
LEMMA LinkInserted ==
  ASSUME NEW code, NEW at, NEW F, NEW Q, Good(code, at, F, Q),
         NEW q \in Q, UpTo(Q, q), NEW mid, OneInstruction(mid), mid[1] \in Linking,
         NEW code2, Inserted(code, q, mid, code2)
  PROVE  LET at2 == Shifted(q, Len(mid), at)
         IN /\ Insertion(code, at, q, mid, code2)
            /\ Good(code2, at2, Shifted(q, Len(mid), F), Q)
            /\ code2[q] = mid[1] /\ Number(code2, q + 1) = Number(mid, 2)
            /\ \A k \in 1..(q - 1) : code2[k] = code[k]
            /\ Len(code2) = Len(code) + Len(mid)
            /\ q \in at2 /\ q + Len(mid) \in at2 /\ Len(code2) + 1 \in at2
<1> USE DEF UpTo
<1> DEFINE n == Len(mid)
           at2 == Shifted(q, n, at)
<1>1. /\ Len(code) \in Nat /\ Shape(code, at) /\ at \subseteq 1..(Len(code) + 1)
      /\ Q \subseteq at /\ q \in at
  BY GoodNumbers
<1>2. Insertion(code, at, q, mid, code2)
  BY <1>1 DEF Insertion
<1>3. \A i \in at : i \notin F /\ i # Len(code) + 1 => Cut(code, i, q)
  BY DEF Good, Linked
<1>4. Good(code2, at2, Shifted(q, n, F), Q)
  BY <1>2, <1>3, InsertKeeps
<1>5. code2[q] = mid[1] /\ Number(code2, q + 1) = Number(mid, 2)
  BY <1>2, NewCarried
<1>6. Len(code2) = Len(code) + n /\ \A k \in 1..(q - 1) : code2[k] = code[k]
  BY DEF Inserted
<1>7. q \in at2 /\ Len(code2) + 1 \in at2
  <2>1. q \in at2
    BY DEF Shifted
  <2> HIDE DEF at2
  <2>2. QED BY <1>4, <2>1, GoodNumbers
<1>8. q + n \in at2
  <2>1. Shift(q, n, q) = q + n
    <3>1. ~(q < q)
      BY <1>1
    <3>2. QED BY <3>1 DEF Shift
  <2>2. Shift(q, n, q) \in Shifted(q, n, at)
    BY <1>1, ShiftIn
  <2>3. QED BY <2>1, <2>2
<1>9. QED BY <1>2, <1>4, <1>5, <1>6, <1>7, <1>8

\* Once it leads somewhere behind, it is exempt no more.
LEMMA LinkedBehind ==
  ASSUME NEW code, NEW at, NEW F, NEW Q, Good(code, at, F, Q), NEW h \in at,
         code[h] \in Linking, UpTo(Q, h), UpTo(Q, Dest(code, h)),
         Dest(code, h) \in at, code[h] # op.jump_n,
         code[h] = op.set_number_at =>
           Dest(code, h) # Len(code) + 1 /\ code[Dest(code, h)] \in Jumps2
  PROVE  Good(code, at, F \ {h}, Q)
<1> USE DEF UpTo
<1>1. at \subseteq Int /\ Q \subseteq at
  BY GoodNumbers
<1>2. Link(code, at, h)
  BY DEF Link
<1>3. \A x \in Q : Cut(code, h, x)
  <2> SUFFICES ASSUME NEW x \in Q
               PROVE  Cut(code, h, x)
    OBVIOUS
  <2> DEFINE d == Dest(code, h)
  <2>1. x <= h /\ x <= d /\ x \in Int /\ h \in Int /\ d \in Int
    BY <1>1
  <2> HIDE DEF d
  <2>2. ~(h < x) /\ d >= x
    BY <2>1
  <2>3. QED BY <2>2 DEF Cut, d
<1>4. code[h] # Hole
  BY OpSets DEF Hole
<1>5. QED BY <1>2, <1>3, <1>4, NowLinked

\* INSERT_JUMP.
LEMMA JumpInserted ==
  ASSUME NEW code, NEW at, NEW F, NEW Q, Good(code, at, F, Q),
         NEW q \in Q, UpTo(Q, q), NEW o \in Jumps, NEW to \in Int,
         Near(q, to)
  PROVE  LET code2 == InsertJump(o, code, q, to)
             mid == Op1(o, to - q - 3)
         IN /\ Inserted(code, q, mid, code2) /\ OneInstruction(mid) /\ mid[1] \in Linking
            /\ Len(mid) = 3
            /\ Insertion(code, at, q, mid, code2)
            /\ Good(code2, Shifted(q, 3, at), Shifted(q, 3, F), Q)
            /\ code2[q] = o /\ Dest(code2, q) = to
            /\ \A k \in 1..(q - 1) : code2[k] = code[k]
            /\ Len(code2) = Len(code) + 3
            /\ q \in Shifted(q, 3, at) /\ q + 3 \in Shifted(q, 3, at)
            /\ Len(code2) + 1 \in Shifted(q, 3, at)
<1> USE DEF Near
<1> DEFINE d == to - q - 3
           mid == Op1(o, d)
           code2 == InsertJump(o, code, q, to)
<1>1. /\ Len(code) \in Nat /\ code \in Seq(Cell) /\ at \subseteq 1..(Len(code) + 1)
      /\ Q \subseteq at /\ q \in 1..(Len(code) + 1)
  BY GoodNumbers
<1>2. d \in Int /\ -32768 <= d /\ d <= 32767
  BY <1>1
<1> HIDE DEF d
<1>3. /\ OneInstruction(mid) /\ mid \in Seq(Cell) /\ Len(mid) = 3 /\ mid[1] = o
      /\ mid[2] = Low(d) /\ mid[3] = High(d)
  BY <1>2, Op1Bytes
<1>4. code2 = Insert(code, q, mid)
  BY DEF InsertJump, d
<1> HIDE DEF mid, code2
<1>5. Inserted(code, q, mid, code2)
  BY <1>1, <1>3, <1>4, InsertedAt
<1>6. o \in Linking /\ o # op.set_number_at
  <2>1. o \in 12..18
    BY OpSets
  <2>2. QED BY <2>1, OpValues DEF Linking
<1>7. mid[1] \in Linking
  BY <1>3, <1>6
<1>8. /\ Insertion(code, at, q, mid, code2)
      /\ Good(code2, Shifted(q, Len(mid), at), Shifted(q, Len(mid), F), Q)
      /\ code2[q] = mid[1] /\ Number(code2, q + 1) = Number(mid, 2)
      /\ \A k \in 1..(q - 1) : code2[k] = code[k]
      /\ Len(code2) = Len(code) + Len(mid)
      /\ q \in Shifted(q, Len(mid), at) /\ q + Len(mid) \in Shifted(q, Len(mid), at)
      /\ Len(code2) + 1 \in Shifted(q, Len(mid), at)
  <2>1. OneInstruction(mid) /\ mid[1] \in Linking /\ Inserted(code, q, mid, code2)
    BY <1>3, <1>5, <1>7
  <2>2. QED BY <2>1, LinkInserted
<1>9. Dest(code2, q) = to
  <2>1. 2 + 1 = 3
    OBVIOUS
  <2>2. Number(mid, 2) = d
    BY <1>2, <1>3, <2>1, NumberWritten
  <2>3. Dest(code2, q) = q + d + 3
    BY <1>3, <1>6, <1>8, <2>2 DEF Dest
  <2>4. q \in Int /\ d \in Int /\ d = to - q - 3
    BY <1>1, <1>2 DEF d
  <2> HIDE DEF d
  <2>5. q + d + 3 = to
    BY <2>4
  <2>6. QED BY <2>3, <2>5
<1>10. /\ Inserted(code, q, mid, code2) /\ OneInstruction(mid) /\ mid[1] \in Linking
       /\ Len(mid) = 3
       /\ Insertion(code, at, q, mid, code2)
       /\ Good(code2, Shifted(q, 3, at), Shifted(q, 3, F), Q)
       /\ code2[q] = o /\ Dest(code2, q) = to
       /\ \A k \in 1..(q - 1) : code2[k] = code[k]
       /\ Len(code2) = Len(code) + 3
       /\ q \in Shifted(q, 3, at) /\ q + 3 \in Shifted(q, 3, at)
       /\ Len(code2) + 1 \in Shifted(q, 3, at)
  BY <1>3, <1>5, <1>7, <1>8, <1>9
<1>11. QED BY <1>10 DEF mid, code2, d

\* The same with a count, for a displacement that is given.
LEMMA Jump2Inserted ==
  ASSUME NEW code, NEW at, NEW F, NEW Q, Good(code, at, F, Q),
         NEW q \in Q, UpTo(Q, q), NEW o \in Jumps2 \cup {op.set_number_at},
         NEW d \in Int, -32768 <= d, d <= 32767, NEW n \in Int
  PROVE  LET mid == Op2(o, d, n)
             code2 == Insert(code, q, mid)
         IN /\ Inserted(code, q, mid, code2) /\ OneInstruction(mid) /\ mid[1] \in Linking
            /\ Len(mid) = 5
            /\ Insertion(code, at, q, mid, code2)
            /\ Good(code2, Shifted(q, 5, at), Shifted(q, 5, F), Q)
            /\ code2[q] = o /\ Number(code2, q + 1) = d
            /\ \A k \in 1..(q - 1) : code2[k] = code[k]
            /\ Len(code2) = Len(code) + 5
            /\ q \in Shifted(q, 5, at) /\ q + 5 \in Shifted(q, 5, at)
            /\ Len(code2) + 1 \in Shifted(q, 5, at)
<1> DEFINE mid == Op2(o, d, n)
           code2 == Insert(code, q, mid)
<1>1. /\ Len(code) \in Nat /\ code \in Seq(Cell) /\ at \subseteq 1..(Len(code) + 1)
      /\ Q \subseteq at /\ q \in 1..(Len(code) + 1)
  BY GoodNumbers
<1>3. /\ OneInstruction(mid) /\ mid \in Seq(Cell) /\ Len(mid) = 5 /\ mid[1] = o
      /\ mid[2] = Low(d) /\ mid[3] = High(d)
  <2>1. o \in Jumps2 \cup {op.set_number_at} /\ d \in Int /\ n \in Int
    OBVIOUS
  <2>2. Numbered(o, d, mid)
    BY <2>1, Op2Bytes
  <2> HIDE DEF mid
  <2>3. QED BY <2>2 DEF Numbered
<1>4. code2 = Insert(code, q, mid)
  OBVIOUS
<1> HIDE DEF mid, code2
<1>5. Inserted(code, q, mid, code2)
  BY <1>1, <1>3, <1>4, InsertedAt
<1>7. mid[1] \in Linking
  BY <1>3 DEF Linking
<1>8. /\ Insertion(code, at, q, mid, code2)
      /\ Good(code2, Shifted(q, Len(mid), at), Shifted(q, Len(mid), F), Q)
      /\ code2[q] = mid[1] /\ Number(code2, q + 1) = Number(mid, 2)
      /\ \A k \in 1..(q - 1) : code2[k] = code[k]
      /\ Len(code2) = Len(code) + Len(mid)
      /\ q \in Shifted(q, Len(mid), at) /\ q + Len(mid) \in Shifted(q, Len(mid), at)
      /\ Len(code2) + 1 \in Shifted(q, Len(mid), at)
  <2>1. OneInstruction(mid) /\ mid[1] \in Linking /\ Inserted(code, q, mid, code2)
    BY <1>3, <1>5, <1>7
  <2>2. QED BY <2>1, LinkInserted
<1>9. Number(code2, q + 1) = d
  <2>1. 2 + 1 = 3
    OBVIOUS
  <2>2. Number(mid, 2) = d
    BY <1>3, <2>1, NumberWritten
  <2>3. QED BY <1>8, <2>2
<1>10. QED BY <1>3, <1>5, <1>7, <1>8, <1>9 DEF mid, code2

\* STORE_JUMP at the end.
AtTheEnd(code, at, F, Q, e, n, o, to, code2) ==
  /\ Good(code2, at \cup {e + n}, F \cup {e}, Q \cup {e})
  /\ code2[e] = o /\ Dest(code2, e) = to /\ Len(code2) = Len(code) + n
  /\ \A k \in 1..Len(code) : code2[k] = code[k]

LEMMA JumpAppended ==
  ASSUME NEW code, NEW at, NEW F, NEW Q, Good(code, at, F, Q), NEW o \in Jumps, NEW to \in Int,
         NEW e \in Nat, e = Len(code) + 1, Near(e, to)
  PROVE  AtTheEnd(code, at, F, Q, e, 3, o, to, StoreJump(o, code, End(code), to))
<1> USE DEF Near
<1> DEFINE d == to - e - 3
           mid == Op1(o, d)
           code2 == StoreJump(o, code, End(code), to)
<1>1. Len(code) \in Nat /\ code \in Seq(Cell) /\ Shape(code, at) /\ e \in Int
  BY GoodNumbers
<1>2. d \in Int /\ -32768 <= d /\ d <= 32767
  BY <1>1
<1> HIDE DEF d
<1>3. /\ OneInstruction(mid) /\ mid \in Seq(Cell) /\ Len(mid) = 3 /\ mid[1] = o
      /\ mid[2] = Low(d) /\ mid[3] = High(d)
  BY <1>2, Op1Bytes
<1>4. code2 = Put(code, End(code), mid)
  BY DEF StoreJump, d, End
<1> HIDE DEF mid, code2
<1>5. code2 = code \o mid
  <2>1. code \in Seq(Cell) /\ mid \in Seq(Cell)
    BY <1>1, <1>3
  <2>2. Put(code, End(code), mid) = code \o mid
    BY <2>1, PutAtEnd
  <2>3. QED BY <1>4, <2>2
<1>6. /\ \A k \in 1..Len(code) : code2[k] = code[k]
      /\ \A k \in 1..Len(mid) : code2[Len(code) + k] = mid[k]
      /\ Len(code2) = Len(code) + Len(mid)
  <2>1. OneInstruction(mid) /\ Shape(code, at)
    BY <1>1, <1>3
  <2>2. /\ \A k \in 1..Len(code) : (code \o mid)[k] = code[k]
        /\ \A k \in 1..Len(mid) : (code \o mid)[Len(code) + k] = mid[k]
        /\ Len(code \o mid) = Len(code) + Len(mid)
    BY <2>1, AppendIsInsertion
  <2>3. QED BY <1>5, <2>2
<1>7. Good(code2, at \cup {Len(code2) + 1}, F \cup {e}, Q \cup {e})
  BY <1>3, <1>5, AppendKeeps
<1>8. code2[e] = o /\ code2[e + 1] = Low(d) /\ code2[e + 1 + 1] = High(d)
  <2>1. /\ code2[Len(code) + 1] = mid[1] /\ code2[Len(code) + 2] = mid[2]
        /\ code2[Len(code) + 3] = mid[3]
    BY <1>3, <1>6
  <2>2. Len(code) + 2 = e + 1 /\ Len(code) + 3 = e + 1 + 1
    BY <1>1
  <2>3. QED BY <1>3, <2>1, <2>2
<1>9. Dest(code2, e) = to
  <2>1. Number(code2, e + 1) = d
    BY <1>2, <1>8, NumberWritten
  <2>2. o # op.set_number_at
    <3>1. o \in 12..18
      BY OpSets
    <3>2. QED BY <3>1, OpValues
  <2>3. Dest(code2, e) = e + d + 3
    BY <1>8, <2>1, <2>2 DEF Dest
  <2>4. QED BY <1>1, <2>3 DEF d
<1>10. Len(code2) + 1 = e + 3
  BY <1>1, <1>3, <1>6
<1>11. QED BY <1>3, <1>6, <1>7, <1>8, <1>9, <1>10 DEF AtTheEnd, code2

LEMMA Jump2Appended ==
  ASSUME NEW code, NEW at, NEW F, NEW Q, Good(code, at, F, Q), NEW o \in Jumps2,
         NEW to \in Int, NEW n \in Int,
         NEW e \in Nat, e = Len(code) + 1, Near(e, to)
  PROVE  AtTheEnd(code, at, F, Q, e, 5, o, to, StoreJump2(o, code, End(code), to, n))
<1> USE DEF Near
<1> DEFINE d == to - e - 3
           mid == Op2(o, d, n)
           code2 == StoreJump2(o, code, End(code), to, n)
<1>1. Len(code) \in Nat /\ code \in Seq(Cell) /\ Shape(code, at) /\ e \in Int
  BY GoodNumbers
<1>2. d \in Int /\ -32768 <= d /\ d <= 32767
  BY <1>1
<1> HIDE DEF d
<1>3. /\ OneInstruction(mid) /\ mid \in Seq(Cell) /\ Len(mid) = 5 /\ mid[1] = o
      /\ mid[2] = Low(d) /\ mid[3] = High(d)
  <2>1. o \in Jumps2 \cup {op.set_number_at} /\ d \in Int /\ n \in Int
    BY <1>2
  <2>2. Numbered(o, d, mid)
    BY <2>1, Op2Bytes
  <2> HIDE DEF mid
  <2>3. QED BY <2>2 DEF Numbered
<1>4. code2 = Put(code, End(code), mid)
  BY DEF StoreJump2, d, End
<1> HIDE DEF mid, code2
<1>5. code2 = code \o mid
  <2>1. code \in Seq(Cell) /\ mid \in Seq(Cell)
    BY <1>1, <1>3
  <2>2. Put(code, End(code), mid) = code \o mid
    BY <2>1, PutAtEnd
  <2>3. QED BY <1>4, <2>2
<1>6. /\ \A k \in 1..Len(code) : code2[k] = code[k]
      /\ \A k \in 1..Len(mid) : code2[Len(code) + k] = mid[k]
      /\ Len(code2) = Len(code) + Len(mid)
  <2>1. OneInstruction(mid) /\ Shape(code, at)
    BY <1>1, <1>3
  <2>2. /\ \A k \in 1..Len(code) : (code \o mid)[k] = code[k]
        /\ \A k \in 1..Len(mid) : (code \o mid)[Len(code) + k] = mid[k]
        /\ Len(code \o mid) = Len(code) + Len(mid)
    BY <2>1, AppendIsInsertion
  <2>3. QED BY <1>5, <2>2
<1>7. Good(code2, at \cup {Len(code2) + 1}, F \cup {e}, Q \cup {e})
  BY <1>3, <1>5, AppendKeeps
<1>8. code2[e] = o /\ code2[e + 1] = Low(d) /\ code2[e + 1 + 1] = High(d)
  <2>1. /\ code2[Len(code) + 1] = mid[1] /\ code2[Len(code) + 2] = mid[2]
        /\ code2[Len(code) + 3] = mid[3]
    BY <1>3, <1>6
  <2>2. Len(code) + 2 = e + 1 /\ Len(code) + 3 = e + 1 + 1
    BY <1>1
  <2>3. QED BY <1>3, <2>1, <2>2
<1>9. Dest(code2, e) = to
  <2>1. Number(code2, e + 1) = d
    BY <1>2, <1>8, NumberWritten
  <2>2. o # op.set_number_at
    BY OpSets, OpValues
  <2>3. Dest(code2, e) = e + d + 3
    BY <1>8, <2>1, <2>2 DEF Dest
  <2>4. QED BY <1>1, <2>3 DEF d
<1>10. Len(code2) + 1 = e + 5
  BY <1>1, <1>3, <1>6
<1>11. QED BY <1>3, <1>6, <1>7, <1>8, <1>9, <1>10 DEF AtTheEnd, code2

-----------------------------------------------------------------------------
(***************************************************************************)
(* The repetitions.                                                        *)
(***************************************************************************)
\* What is changed at begalt or behind leaves the opened groups alone.
LEMMA BelowStays ==
  ASSUME NEW code, NEW at, NEW begalt, NEW fixup, NEW stack, NEW regnum, NEW laststart,
         NEW pending, Written(code, at, begalt, fixup, stack, regnum, laststart, pending),
         NEW code2, Len(code2) \in Nat, Len(code) <= Len(code2),
         \A k \in 1..(begalt - 1) : code2[k] = code[k]
  PROVE  Refilled(code2, Fixups(fixup, stack)) /\ Opened(code2, stack)
<1> DEFINE F == Fixups(fixup, stack)
           e == Len(code) + 1
<1>1. /\ Len(code) \in Nat /\ at \subseteq 1..e /\ F \subseteq at /\ begalt \in 1..e
      /\ \A h \in F : h < begalt
      /\ \A q \in FrameMarks(stack) : q \in at
  BY WrittenNumbers
<1>2. ASSUME NEW k \in 1..e, k < begalt
      PROVE  code2[k] = code[k]
  <2>1. k \in 1..(begalt - 1)
    BY <1>1, <1>2
  <2>2. QED BY <2>1
<1>3. Refilled(code2, F)
  <2>1. \A h \in F : h \in 1..e /\ h < begalt
    BY <1>1
  <2>2. \A h \in F : code[h] \in {Hole, op.jump_past_alt}
    BY DEF Written, Refilled
  <2> HIDE DEF F
  <2>3. QED BY <1>2, <2>1, <2>2 DEF Refilled
<1>4. ASSUME NEW k \in 1..Len(stack), Kept(stack[k])
      PROVE  /\ stack[k].laststart \in Int /\ stack[k].laststart < begalt
             /\ code2[stack[k].laststart] = code[stack[k].laststart]
  <2> DEFINE z == stack[k].laststart
  <2>1. z \in FrameMarks(stack)
    BY DEF FrameMarks
  <2>2. z < begalt
    BY <1>4 DEF Written, NestedIn, Above
  <2> HIDE DEF z
  <2>3. z \in 1..e
    BY <1>1, <2>1
  <2>4. code2[z] = code[z] /\ z \in Int
    BY <1>2, <2>2, <2>3
  <2>5. QED BY <2>2, <2>4 DEF z
<1>5. begalt \in Int /\ begalt <= Len(code2) + 1
  BY <1>1
<1>6. Opened(code, stack)
  BY DEF Written
<1>7. Opened(code2, stack)
  BY <1>1, <1>4, <1>5, <1>6, OpenedStays
<1>8. QED BY <1>3, <1>7

LEMMA WrittenAgain ==
  ASSUME NEW code, NEW at, NEW begalt, NEW fixup, NEW stack, NEW regnum, NEW laststart,
         NEW pending, Written(code, at, begalt, fixup, stack, regnum, laststart, pending),
         NEW code2, Len(code2) \in Nat, Len(code) <= Len(code2),
         \A k \in 1..(begalt - 1) : code2[k] = code[k],
         NEW at2, Good(code2, at2, Fixups(fixup, stack), Marks(begalt, laststart, stack))
  PROVE  Written(code2, at2, begalt, fixup, stack, regnum, laststart, 0)
<1>1. Refilled(code2, Fixups(fixup, stack)) /\ Opened(code2, stack)
  BY BelowStays
<1>2. /\ IsSeq(stack) /\ regnum \in Nat /\ NestedIn(stack, begalt, fixup, laststart)
  BY DEF Written
<1>3. Pending(code2, at2, 0, Fixups(fixup, stack), Marks(begalt, laststart, stack))
  BY DEF Pending
<1>4. QED BY <1>1, <1>2, <1>3 DEF Written

\* The last expression's place is the last of the places to insert at.
LEMMA LastPlace ==
  ASSUME NEW code, NEW at, NEW begalt, NEW fixup, NEW stack, NEW regnum, NEW laststart,
         NEW pending, Written(code, at, begalt, fixup, stack, regnum, laststart, pending),
         laststart # 0
  PROVE  /\ laststart \in Marks(begalt, laststart, stack)
         /\ UpTo(Marks(begalt, laststart, stack), laststart)
         /\ Below(Fixups(fixup, stack), laststart)
         /\ laststart \in at /\ at \subseteq 1..(Len(code) + 1) /\ Len(code) \in Nat
         /\ begalt \in Int /\ begalt <= laststart
         /\ Good(code, at, Fixups(fixup, stack), Marks(begalt, laststart, stack))
         /\ Fixups(fixup, stack) \subseteq at
<1> DEFINE F == Fixups(fixup, stack)
           Q == Marks(begalt, laststart, stack)
<1>1. /\ Len(code) \in Nat /\ at \subseteq 1..(Len(code) + 1) /\ F \subseteq at /\ Q \subseteq at
      /\ Good(code, at, F, Q) /\ begalt \in at /\ laststart \in at /\ begalt <= laststart
      /\ \A h \in F : h < begalt
      /\ \A q \in FrameMarks(stack) : q <= begalt
  BY WrittenNumbers
<1>2. at \subseteq Int
  BY <1>1
<1>3. laststart \in Q /\ \A x \in Q : x = begalt \/ x = laststart \/ x \in FrameMarks(stack)
  BY DEF Marks
<1> HIDE DEF F, Q
<1>4. ASSUME NEW x \in Q
      PROVE  x \in Int /\ x <= laststart
  <2>1. x \in Int /\ begalt \in Int /\ laststart \in Int
    BY <1>1, <1>2
  <2>2. x = begalt \/ x = laststart \/ x <= begalt
    BY <1>1, <1>3
  <2>3. QED BY <1>1, <2>1, <2>2
<1>5. ASSUME NEW h \in F
      PROVE  h < laststart
  <2>1. h \in Int /\ begalt \in Int /\ laststart \in Int /\ h < begalt
    BY <1>1, <1>2
  <2>2. QED BY <1>1, <2>1
<1>6. UpTo(Q, laststart) /\ Below(F, laststart)
  BY <1>4, <1>5 DEF UpTo, Below
<1>7. QED BY <1>1, <1>2, <1>3, <1>6 DEF F, Q

\* What is up to one place is up to any behind.
LEMMA UpToMore ==
  ASSUME NEW Q, NEW q \in Int, UpTo(Q, q), NEW z \in Int, q <= z
  PROVE  UpTo(Q, z)
<1> SUFFICES ASSUME NEW x \in Q
             PROVE  x <= z
  BY DEF UpTo
<1>1. x \in Int /\ x <= q
  BY DEF UpTo
<1>2. QED BY <1>1

LEMMA JumpsLink ==
  ASSUME NEW o \in Jumps
  PROVE  o \in Linking /\ o # op.jump_n /\ o # op.set_number_at /\ o # Hole
<1>1. o \in 12..18
  BY OpSets
<1>2. o # 21 /\ o # 22 /\ o # -1
  BY <1>1
<1>3. QED BY <1>2, OpValues DEF Linking, Hole

\* A jump around it, to where the instruction at to - 3 was.
LEMMA Wrapped ==
  ASSUME NEW code, NEW at, NEW begalt, NEW fixup, NEW stack, NEW regnum, NEW laststart,
         NEW pending, Written(code, at, begalt, fixup, stack, regnum, laststart, pending),
         laststart # 0, NEW o \in Jumps, NEW to \in Int, to - 3 \in at, laststart <= to - 3,
         Len(code) + 3 <= 32767
  PROVE  LET code2 == InsertJump(o, code, laststart, to)
         IN /\ Written(code2, Shifted(laststart, 3, at), begalt, fixup, stack, regnum,
                       laststart, 0)
            /\ laststart + 3 \in Shifted(laststart, 3, at) /\ Len(code2) = Len(code) + 3
<1> DEFINE F == Fixups(fixup, stack)
           Q == Marks(begalt, laststart, stack)
           q == laststart
           at2 == Shifted(q, 3, at)
           code2 == InsertJump(o, code, q, to)
<1>1. /\ q \in Q /\ UpTo(Q, q) /\ Below(F, q)
      /\ q \in at /\ at \subseteq 1..(Len(code) + 1) /\ Len(code) \in Nat
      /\ begalt \in Int /\ begalt <= q /\ Good(code, at, F, Q)
  BY LastPlace
<1> HIDE DEF F, Q, code2, at2
<1>2. q \in 1..(Len(code) + 1) /\ to - 3 \in 1..(Len(code) + 1) /\ q <= to - 3
  BY <1>1
<1> HIDE DEF q
<1>3. Near(q, to)
  BY <1>1, <1>2 DEF Near
<1>4. /\ Good(code2, at2, Shifted(q, 3, F), Q)
      /\ code2[q] = o /\ Dest(code2, q) = to
      /\ \A k \in 1..(q - 1) : code2[k] = code[k]
      /\ Len(code2) = Len(code) + 3 /\ q \in at2 /\ q + 3 \in at2
  <2>1. Good(code, at, F, Q) /\ q \in Q /\ UpTo(Q, q)
    BY <1>1
  <2>2. QED BY <1>3, <2>1, JumpInserted DEF code2, at2
<1>5. Shifted(q, 3, F) = F \cup {q} /\ (F \cup {q}) \ {q} = F
  <2>1. q \in Int /\ 3 \in Nat /\ Below(F, q)
    BY <1>1, <1>2
  <2>2. QED BY <2>1, ShiftedBefore
<1>6. to \in at2
  <2>1. Shift(q, 3, to - 3) = to
    <3>1. ~(to - 3 < q) /\ to - 3 + 3 = to
      BY <1>2
    <3>2. QED BY <3>1 DEF Shift
  <2>2. QED BY <2>1, ShiftIn DEF at2
<1>7. o \in Linking /\ o # op.jump_n /\ o # op.set_number_at
  BY JumpsLink
<1>8. Good(code2, at2, F, Q)
  <2> DEFINE G == F \cup {q}
             A == Shifted(q, 3, F)
             B == G \ {q}
  <2>0. A = G /\ B = F /\ Good(code2, at2, A, Q)
    BY <1>4, <1>5
  <2> HIDE DEF A, B, G
  <2>1. Good(code2, at2, G, Q)
    BY <2>0
  <2>2. UpTo(Q, q) /\ UpTo(Q, Dest(code2, q))
    <3>1. q \in Int /\ q <= to
      BY <1>2
    <3>2. UpTo(Q, q)
      BY <1>1
    <3>3. UpTo(Q, to)
      BY <3>1, <3>2, UpToMore
    <3>4. QED BY <1>4, <3>2, <3>3
  <2>3. Good(code2, at2, G \ {q}, Q)
    <3>1. /\ Good(code2, at2, G, Q) /\ q \in at2 /\ code2[q] \in Linking
          /\ Dest(code2, q) \in at2 /\ code2[q] # op.jump_n /\ code2[q] # op.set_number_at
      BY <1>4, <1>6, <1>7, <2>1
    <3>2. QED BY <2>2, <3>1, LinkedBehind
  <2>4. Good(code2, at2, B, Q)
    BY <2>3 DEF B
  <2>5. QED BY <2>0, <2>4
<1>9. \A k \in 1..(begalt - 1) : code2[k] = code[k]
  <2>1. \A k \in 1..(begalt - 1) : k \in 1..(q - 1)
    BY <1>1, <1>2
  <2>2. QED BY <1>4, <2>1
<1>10. Len(code2) \in Nat /\ Len(code) <= Len(code2)
  BY <1>1, <1>4
<1>11. Written(code2, at2, begalt, fixup, stack, regnum, q, 0)
  BY <1>8, <1>9, <1>10, WrittenAgain DEF F, Q, q
<1>12. QED BY <1>4, <1>11 DEF code2, at2, q

\* The loop of * and +: a jump back behind it, then one around both.
LoopMade(code, q, o, back, to) ==
  LET body == StoreJump(back, code, End(code), to)
  IN InsertJump(o, body, q, End(body) + 3)

LEMMA LoopedBack ==
  ASSUME NEW code, NEW at, NEW begalt, NEW fixup, NEW stack, NEW regnum, NEW laststart,
         NEW pending, Written(code, at, begalt, fixup, stack, regnum, laststart, pending),
         laststart # 0, NEW o \in Jumps, NEW back \in Jumps,
         NEW to \in {laststart, laststart - 3}, Len(code) + 6 <= 32767
  PROVE  LET code2 == LoopMade(code, laststart, o, back, to)
         IN /\ \E at2 : /\ Written(code2, at2, begalt, fixup, stack, regnum, laststart, 0)
                        /\ laststart + 3 \in at2
            /\ Len(code2) = Len(code) + 6
<1> DEFINE F == Fixups(fixup, stack)
           Q == Marks(begalt, laststart, stack)
           q == laststart
           e == Len(code) + 1
           body == StoreJump(back, code, End(code), to)
           code2 == LoopMade(code, q, o, back, to)
           at1 == at \cup {Len(code) + 4}
           at2 == Shifted(q, 3, at1)
<1>1. /\ q \in Q /\ UpTo(Q, q) /\ Below(F, q)
      /\ q \in at /\ at \subseteq 1..e /\ Len(code) \in Nat
      /\ begalt \in Int /\ begalt <= q /\ Good(code, at, F, Q) /\ Q \subseteq at
      /\ F \subseteq at
  BY LastPlace DEF Good
<1> HIDE DEF F, Q, body, code2, at2
<1>2. q \in 1..e /\ to \in Int /\ e \in Int /\ q \in Int
  BY <1>1
<1>3. Near(e, to) /\ e \in Nat
  BY <1>1, <1>2 DEF Near
<1>4. /\ Good(body, at1, F \cup {e}, Q \cup {e})
      /\ body[e] = back /\ Dest(body, e) = to /\ Len(body) = Len(code) + 3
      /\ \A k \in 1..Len(code) : body[k] = code[k]
  <2>1. e + 3 = Len(code) + 4
    BY <1>1
  <2>2. /\ Good(code, at, F, Q) /\ back \in Jumps /\ to \in Int
        /\ e = Len(code) + 1 /\ Near(e, to) /\ e \in Nat
    BY <1>1, <1>2, <1>3
  <2> DEFINE A == at \cup {e + 3}
  <2> HIDE DEF e, A
  <2>5. AtTheEnd(code, at, F, Q, e, 3, back, to, body)
    <3>1. body = StoreJump(back, code, End(code), to)
      BY DEF body
    <3>2. /\ Good(code, at, F, Q) /\ back \in Jumps /\ to \in Int
          /\ e = Len(code) + 1 /\ Near(e, to) /\ e \in Nat
      BY <2>2
    <3>3. AtTheEnd(code, at, F, Q, e, 3, back, to, StoreJump(back, code, End(code), to))
      BY <3>2, JumpAppended
    <3>4. QED BY <3>1, <3>3
  <2>3. /\ Good(body, A, F \cup {e}, Q \cup {e})
        /\ body[e] = back /\ Dest(body, e) = to /\ Len(body) = Len(code) + 3
        /\ \A k \in 1..Len(code) : body[k] = code[k]
    BY <2>5 DEF AtTheEnd, A
  <2>4. A = at1
    BY <2>1 DEF A
  <2> HIDE DEF at1
  <2>6. QED BY <2>3, <2>4
<1>5. Good(body, at1, F \cup {e}, Q)
  <2> DEFINE R == Q \cup {e}
             G == F \cup {e}
  <2>1. Good(body, at1, G, R) /\ Q \subseteq R \cup {Len(body) + 1}
    BY <1>4
  <2> HIDE DEF R, G
  <2>2. Good(body, at1, G, Q)
    BY <2>1, OtherPlaces
  <2>3. QED BY <2>2 DEF G
<1>6. End(body) + 3 = e + 6 /\ e + 6 \in Int
  BY <1>1, <1>4 DEF End
<1> DEFINE G == F \cup {e}
           mid == Op1(o, (e + 6) - q - 3)
<1>7. Near(q, e + 6)
  BY <1>1, <1>2 DEF Near
<1> HIDE DEF G, mid
<1>8. /\ Insertion(body, at1, q, mid, code2) /\ Len(mid) = 3
      /\ Good(code2, at2, Shifted(q, 3, G), Q)
      /\ code2[q] = o /\ Dest(code2, q) = e + 6
      /\ \A k \in 1..(q - 1) : code2[k] = body[k]
      /\ Len(code2) = Len(body) + 3 /\ q \in at2 /\ q + 3 \in at2 /\ Len(code2) + 1 \in at2
  <2>1. Good(body, at1, G, Q) /\ code2 = InsertJump(o, body, q, e + 6)
    BY <1>5, <1>6 DEF G, code2, LoopMade, body
  <2>2. q \in Q /\ UpTo(Q, q) /\ e + 6 \in Int
    BY <1>1, <1>6
  <2>3. QED BY <1>7, <2>1, <2>2, JumpInserted DEF mid, at2
<1>9. /\ Shifted(q, 3, G) = F \cup {q, e + 3} /\ Shift(q, 3, e) = e + 3
      /\ q \notin F
  <2>1. q <= e /\ q \in Int /\ e \in Int /\ 3 \in Nat
    BY <1>2
  <2>2. Below(F, q)
    BY <1>1
  <2>3. QED BY <2>1, <2>2, ShiftedBehind DEF G
<1>10. code2[e + 3] = back /\ Dest(code2, e + 3) = to + 3
  <2>1. e \in at1 /\ e # Len(body) + 1
    <3>1. e \in at
      BY <1>1 DEF Good, Shape
    <3>2. QED BY <1>1, <1>4, <3>1
  <2>2. Alike(body, e, code2, e + 3)
    <3>1. Insertion(body, at1, q, mid, code2)
      BY <1>8
    <3>2. Alike(body, e, code2, Shift(q, Len(mid), e))
      BY <2>1, <3>1, OldCarried
    <3>3. Shift(q, Len(mid), e) = e + 3
      BY <1>8, <1>9
    <3>4. QED BY <3>2, <3>3
  <2>3. back \in Linking
    BY DEF Linking
  <2>4. code2[e + 3] = back /\ Dest(code2, e + 3) = to + (e + 3) - e
    BY <1>4, <2>2, <2>3 DEF Alike
  <2>5. to + (e + 3) - e = to + 3
    BY <1>2
  <2>6. QED BY <2>4, <2>5
<1>11. /\ o \in Linking /\ o # op.jump_n /\ o # op.set_number_at
       /\ back \in Linking /\ back # op.jump_n /\ back # op.set_number_at
  BY JumpsLink
<1>12. Q \subseteq Int
  BY <1>1
<1> DEFINE H == F \cup {q, e + 3}
<1>13. Good(code2, at2, H \ {q}, Q)
  <2>1. Good(code2, at2, H, Q)
    <3> DEFINE A == Shifted(q, 3, G)
    <3>1. A = H /\ Good(code2, at2, A, Q)
      BY <1>8, <1>9
    <3> HIDE DEF A, H
    <3>2. QED BY <3>1
  <2>2. e + 6 \in at2
    <3>1. Len(code2) + 1 = e + 6
      BY <1>1, <1>4, <1>8
    <3>2. QED BY <1>8, <3>1
  <2>3. UpTo(Q, q) /\ UpTo(Q, e + 6)
    <3>1. q <= e + 6 /\ e + 6 \in Int /\ q \in Int
      BY <1>2
    <3>2. UpTo(Q, q)
      BY <1>1
    <3>3. QED BY <1>12, <3>1, <3>2, UpToMore
  <2> HIDE DEF H
  <2>4. /\ q \in at2 /\ code2[q] \in Linking /\ Dest(code2, q) = e + 6
        /\ code2[q] # op.jump_n /\ code2[q] # op.set_number_at
    BY <1>8, <1>11
  <2>5. QED BY <2>1, <2>2, <2>3, <2>4, LinkedBehind
<1>14. Good(code2, at2, (H \ {q}) \ {e + 3}, Q)
  <2> DEFINE K == H \ {q}
  <2>1. Good(code2, at2, K, Q)
    BY <1>13
  <2>2. to + 3 = q + 3 \/ to + 3 = q
    BY <1>2
  <2>3. to + 3 \in at2
    BY <1>8, <2>2
  <2>4. UpTo(Q, e + 3) /\ UpTo(Q, to + 3)
    <3>1. /\ q <= e + 3 /\ q <= to + 3 /\ e + 3 \in Int /\ to + 3 \in Int /\ q \in Int
      BY <1>2, <2>2
    <3>2. UpTo(Q, q)
      BY <1>1
    <3>3. UpTo(Q, e + 3)
      BY <1>12, <3>1, <3>2, UpToMore
    <3>4. UpTo(Q, to + 3)
      BY <1>12, <3>1, <3>2, UpToMore
    <3>5. QED BY <3>3, <3>4
  <2>5. e + 3 \in at2
    <3>1. Shift(q, 3, e) \in at2
      <4>1. e \in at1
        BY <1>1 DEF Good, Shape
      <4>2. QED BY <4>1, ShiftIn DEF at2
    <3>2. QED BY <1>9, <3>1
  <2> HIDE DEF K, H
  <2>6. Good(code2, at2, K \ {e + 3}, Q)
    <3>1. /\ code2[e + 3] \in Linking /\ Dest(code2, e + 3) = to + 3
          /\ code2[e + 3] # op.jump_n /\ code2[e + 3] # op.set_number_at
      BY <1>10, <1>11
    <3>2. QED BY <2>1, <2>3, <2>4, <2>5, <3>1, LinkedBehind
  <2>7. QED BY <2>6 DEF K
<1>15. (H \ {q}) \ {e + 3} = F
  <2>1. e + 3 \notin F
    <3>1. e + 3 \notin at
      BY <1>1, <1>2
    <3>2. QED BY <1>1, <3>1
  <2>2. QED BY <1>9, <2>1
<1> HIDE DEF H
<1>16. Good(code2, at2, F, Q)
  <2> DEFINE A == (H \ {q}) \ {e + 3}
  <2>1. A = F /\ Good(code2, at2, A, Q)
    BY <1>14, <1>15
  <2> HIDE DEF A
  <2>2. QED BY <2>1
<1>17. \A k \in 1..(begalt - 1) : code2[k] = code[k]
  <2>1. \A k \in 1..(begalt - 1) : k \in 1..(q - 1) /\ k \in 1..Len(code)
    BY <1>1, <1>2
  <2>2. QED BY <1>4, <1>8, <2>1
<1>18. Len(code2) \in Nat /\ Len(code) <= Len(code2) /\ Len(code2) = Len(code) + 6
  BY <1>1, <1>4, <1>8
<1>19. Written(code2, at2, begalt, fixup, stack, regnum, q, 0)
  BY <1>16, <1>17, <1>18, WrittenAgain DEF F, Q
<1>20. q + 3 \in at2
  BY <1>8
<1>21. QED BY <1>18, <1>19, <1>20 DEF code2

-----------------------------------------------------------------------------
(***************************************************************************)
(* The groups.                                                             *)
(***************************************************************************)
\* What is saved with one group more.
LEMMA FrameOpened ==
  ASSUME NEW stack, IsSeq(stack), NEW s
  PROVE  LET stack2 == Append(stack, s)
         IN /\ FrameFixups(stack2) = FrameFixups(stack) \cup ({s.fixup_alt_jump} \ {0})
            /\ FrameMarks(stack2) = FrameMarks(stack) \cup {s.begalt, s.laststart}
            /\ IsSeq(stack2) /\ Len(stack2) = Len(stack) + 1 /\ Len(stack) \in Nat
            /\ \A k \in 1..Len(stack) : stack2[k] = stack[k]
            /\ stack2[Len(stack) + 1] = s
<1> DEFINE stack2 == Append(stack, s)
           n == Len(stack)
<1>1. /\ IsSeq(stack2) /\ Len(stack2) = n + 1 /\ n \in Nat
      /\ \A k \in 1..n : stack2[k] = stack[k]
      /\ stack2[n + 1] = s
  BY SeqAppend, SeqLen
<1> HIDE DEF stack2, n
<1>2. \A k \in 1..(n + 1) : k = n + 1 \/ k \in 1..n
  BY <1>1
<1>3. n + 1 \in 1..(n + 1) /\ \A k \in 1..n : k \in 1..(n + 1)
  BY <1>1
<1>4. {stack2[k].fixup_alt_jump : k \in 1..(n + 1)} =
        {stack[k].fixup_alt_jump : k \in 1..n} \cup {s.fixup_alt_jump}
  BY <1>1, <1>2, <1>3
<1>5. {stack2[k].begalt : k \in 1..(n + 1)} = {stack[k].begalt : k \in 1..n} \cup {s.begalt}
  BY <1>1, <1>2, <1>3
<1>6. {stack2[k].laststart : k \in 1..(n + 1)} =
        {stack[k].laststart : k \in 1..n} \cup {s.laststart}
  BY <1>1, <1>2, <1>3
<1>7. FrameFixups(stack2) = FrameFixups(stack) \cup ({s.fixup_alt_jump} \ {0})
  BY <1>1, <1>4 DEF FrameFixups, n
<1>8. FrameMarks(stack2) = FrameMarks(stack) \cup {s.begalt, s.laststart}
  BY <1>1, <1>5, <1>6 DEF FrameMarks, n
<1>9. QED BY <1>1, <1>7, <1>8 DEF stack2, n

\* Taken apart again.
LEMMA FrameClosed ==
  ASSUME NEW stack, IsSeq(stack), stack # <<>>
  PROVE  LET rest == Front(stack)
             top == Last(stack)
             n == Len(stack)
         IN /\ n \in Nat /\ n # 0 /\ top = stack[n] /\ IsSeq(rest) /\ Len(rest) = n - 1
            /\ \A k \in 1..(n - 1) : rest[k] = stack[k]
            /\ FrameFixups(stack) = FrameFixups(rest) \cup ({top.fixup_alt_jump} \ {0})
            /\ FrameMarks(stack) = FrameMarks(rest) \cup {top.begalt, top.laststart}
<1> DEFINE rest == Front(stack)
           top == Last(stack)
           n == Len(stack)
<1>1. n \in Nat /\ n # 0
  <2>1. PICK S : stack \in Seq(S)
    BY DEF IsSeq
  <2>2. QED BY <2>1
<1>2. top = stack[n] /\ rest = SubSeq(stack, 1, n - 1)
  BY DEF Last, Front
<1>3. IsSeq(rest) /\ Len(rest) = n - 1 /\ \A k \in 1..(n - 1) : rest[k] = stack[k]
  <2> DEFINE piece == SubSeq(stack, 1, n - 1)
  <2>1. 1 \in 1..(n + 1) /\ n - 1 \in (1 - 1)..n /\ n - 1 - 1 + 1 = n - 1
    BY <1>1
  <2>2. /\ IsSeq(piece) /\ Len(piece) = n - 1 - 1 + 1
        /\ \A k \in 1..(n - 1 - 1 + 1) : piece[k] = stack[1 + k - 1]
    BY <2>1, SeqPiece
  <2> HIDE DEF piece
  <2>3. \A k \in 1..(n - 1) : k \in 1..(n - 1 - 1 + 1) /\ 1 + k - 1 = k
    BY <1>1
  <2>4. \A k \in 1..(n - 1) : piece[k] = stack[k]
    BY <2>2, <2>3
  <2>5. QED BY <1>2, <2>1, <2>2, <2>4 DEF piece
<1> HIDE DEF rest, top, n
<1>4. /\ \A k \in 1..n : k = n \/ k \in 1..(n - 1)
      /\ n \in 1..n /\ \A k \in 1..(n - 1) : k \in 1..n
  BY <1>1
<1>5. {stack[k].fixup_alt_jump : k \in 1..n} =
        {rest[k].fixup_alt_jump : k \in 1..(n - 1)} \cup {top.fixup_alt_jump}
  BY <1>2, <1>3, <1>4
<1>6. {stack[k].begalt : k \in 1..n} = {rest[k].begalt : k \in 1..(n - 1)} \cup {top.begalt}
  BY <1>2, <1>3, <1>4
<1>7. {stack[k].laststart : k \in 1..n} =
        {rest[k].laststart : k \in 1..(n - 1)} \cup {top.laststart}
  BY <1>2, <1>3, <1>4
<1>8. FrameFixups(stack) = FrameFixups(rest) \cup ({top.fixup_alt_jump} \ {0})
  BY <1>3, <1>5 DEF FrameFixups, n
<1>9. FrameMarks(stack) = FrameMarks(rest) \cup {top.begalt, top.laststart}
  BY <1>3, <1>6, <1>7 DEF FrameMarks, n
<1>10. QED BY <1>1, <1>2, <1>3, <1>8, <1>9 DEF rest, top, n

\* The locals behind the "(": what is open now has a place of its own.
LEMMA GroupEntered ==
  ASSUME NEW code, NEW at, NEW begalt, NEW fixup, NEW stack, NEW regnum, NEW laststart,
         NEW pending, Written(code, at, begalt, fixup, stack, regnum, laststart, pending),
         NEW s, s.begalt = begalt, s.fixup_alt_jump = fixup, s.laststart = Len(code) + 1,
         s.inner = Len(code) + 3, s.regnum = regnum + 1,
         NEW code2, NEW at2, Good(code2, at2, Fixups(fixup, stack),
                                  Marks(begalt, laststart, stack) \cup {Len(code) + 1}),
         Len(code) <= Len(code2), \A k \in 1..Len(code) : code2[k] = code[k],
         Kept(s) => Len(code) + 1 # Len(code2) + 1 /\ code2[Len(code) + 1] = op.start_memory
  PROVE  Written(code2, at2, Len(code2) + 1, 0, Append(stack, s), regnum + 1, 0, 0)
<1> DEFINE F == Fixups(fixup, stack)
           Q == Marks(begalt, laststart, stack)
           e == Len(code) + 1
           e2 == Len(code2) + 1
           stack2 == Append(stack, s)
           F2 == Fixups(0, stack2)
           Q2 == Marks(e2, 0, stack2)
           n == Len(stack)
<1>1. /\ Len(code) \in Nat /\ at \subseteq 1..e /\ F \subseteq at /\ e \notin F
      /\ Q \subseteq at /\ begalt \in at /\ (fixup # 0 => fixup < begalt)
      /\ \A q \in FrameMarks(stack) : q \in Q /\ q <= begalt
      /\ IsSeq(stack) /\ regnum \in Nat
  BY WrittenNumbers
<1>2. /\ FrameFixups(stack2) = FrameFixups(stack) \cup ({fixup} \ {0})
      /\ FrameMarks(stack2) = FrameMarks(stack) \cup {begalt, e}
      /\ IsSeq(stack2) /\ Len(stack2) = n + 1 /\ n \in Nat
      /\ \A k \in 1..n : stack2[k] = stack[k]
      /\ stack2[n + 1] = s
  BY <1>1, FrameOpened
<1>3. Len(code2) \in Nat
  BY GoodNumbers
<1>4. F2 = F
  BY <1>2 DEF Fixups
<1>5. Q2 \subseteq (Q \cup {e}) \cup {e2}
  BY <1>2 DEF Marks
<1>6. begalt \in Int /\ begalt <= e /\ e \in Int /\ e2 \in Int /\ e <= e2
  BY <1>1, <1>3
<1>7. \A k \in 1..e : k # e => code2[k] = code[k]
  <2>1. \A k \in 1..e : k # e => k \in 1..Len(code)
    BY <1>1
  <2>2. QED BY <2>1
<1>8. Good(code2, at2, F2, Q2)
  <2> HIDE DEF F, Q, F2, Q2, e
  <2>1. Good(code2, at2, F, Q \cup {e})
    BY DEF F, Q, e
  <2> DEFINE R == Q \cup {e}
  <2>2. Good(code2, at2, F, R) /\ Q2 \subseteq R \cup {Len(code2) + 1}
    BY <1>5, <2>1
  <2> HIDE DEF R
  <2>3. Good(code2, at2, F, Q2)
    BY <2>2, OtherPlaces
  <2>4. QED BY <1>4, <2>3
<1>9. Refilled(code2, F2)
  <2>1. \A h \in F : code[h] \in {Hole, op.jump_past_alt}
    BY DEF Written, Refilled
  <2>2. \A h \in F : h \in 1..e /\ h # e
    BY <1>1
  <2> HIDE DEF F, F2, e
  <2>3. \A h \in F : code2[h] \in {Hole, op.jump_past_alt}
    BY <1>7, <2>1, <2>2
  <2>4. QED BY <1>4, <2>3 DEF Refilled
<1> HIDE DEF F, Q, F2, Q2
<1>10. \A k \in 1..Len(stack2) : k = n + 1 \/ (k \in 1..n /\ k # n + 1)
  BY <1>2
<1>11. NestedIn(stack, begalt, fixup, laststart) /\ Opened(code, stack)
  BY DEF Written
<1> HIDE DEF e, e2, stack2
<1>12. \A k \in 1..n : stack[k].laststart \in 1..e
  <2>1. \A k \in 1..n : stack[k].laststart \in FrameMarks(stack)
    BY DEF FrameMarks
  <2>2. QED BY <1>1, <2>1
<1>13. ASSUME NEW k \in 1..n
       PROVE  Above(stack[k], e2, 0)
  <2> DEFINE z == stack[k].laststart
  <2>1. z <= begalt /\ (Kept(stack[k]) => z < begalt) /\ z \in Int
    BY <1>11, <1>12 DEF NestedIn, Above
  <2> HIDE DEF z
  <2>2. z <= e2 /\ (Kept(stack[k]) => z < e2)
    BY <1>6, <2>1
  <2>3. QED BY <2>2 DEF Above, z
<1>14. NestedIn(stack2, e2, 0, 0)
  <2>1. Level(e2, 0, 0)
    BY DEF Level
  <2>2. ASSUME NEW k \in 1..n
        PROVE  /\ stack[k].regnum \in Nat /\ stack[k].laststart # 0
               /\ Level(stack[k].begalt, stack[k].fixup_alt_jump, stack[k].laststart)
               /\ \A j \in 1..(k - 1) : j \in 1..n
               /\ \A j \in 1..(k - 1) : Above(stack[j], stack[k].begalt, stack[k].fixup_alt_jump)
    BY <1>2, <1>11 DEF NestedIn
  <2>3. s.regnum \in Nat /\ s.laststart # 0
    BY <1>1, <1>3
  <2>4. Level(begalt, fixup, e)
    BY <1>1, <1>6 DEF Level
  <2>5. Above(s, e2, 0)
    <3>1. e <= e2
      BY <1>6
    <3>2. ASSUME Kept(s)
          PROVE  e < e2
      <4>1. e # e2
        BY <3>2 DEF e, e2
      <4>2. QED BY <1>6, <4>1
    <3>3. s.laststart = e
      BY DEF e
    <3>4. QED BY <3>1, <3>2, <3>3 DEF Above
  <2>6. \A j \in 1..n : Above(stack[j], begalt, fixup)
    BY <1>11 DEF NestedIn
  <2>7. ASSUME NEW k \in 1..Len(stack2)
        PROVE  /\ stack2[k].regnum \in Nat /\ stack2[k].laststart # 0
               /\ Level(stack2[k].begalt, stack2[k].fixup_alt_jump, stack2[k].laststart)
               /\ Above(stack2[k], e2, 0)
               /\ \A j \in 1..(k - 1) :
                    Above(stack2[j], stack2[k].begalt, stack2[k].fixup_alt_jump)
    <3>1. CASE k \in 1..n
      <4>1. stack2[k] = stack[k] /\ \A j \in 1..(k - 1) : stack2[j] = stack[j]
        BY <1>2, <2>2, <3>1
      <4>2. QED BY <1>13, <2>2, <3>1, <4>1
    <3>2. CASE k = n + 1
      <4>1. \A j \in 1..(k - 1) : j \in 1..n
        BY <1>2, <3>2
      <4>2. /\ stack2[k] = s /\ s.begalt = begalt /\ s.fixup_alt_jump = fixup
            /\ s.laststart = e
        BY <1>2, <3>2 DEF e
      <4>3. \A j \in 1..(k - 1) : Above(stack2[j], begalt, fixup)
        BY <1>2, <2>6, <4>1
      <4>4. QED BY <2>3, <2>4, <2>5, <4>2, <4>3
    <3>3. QED BY <1>10, <3>1, <3>2
  <2>8. QED BY <2>1, <2>7 DEF NestedIn
<1>15. Opened(code2, stack2)
  <2>1. ASSUME NEW k \in 1..Len(stack2), Kept(stack2[k])
        PROVE  /\ stack2[k].inner = stack2[k].laststart + 2
               /\ stack2[k].laststart # Len(code2) + 1
               /\ code2[stack2[k].laststart] = op.start_memory
    <3>1. CASE k \in 1..n
      <4> DEFINE z == stack[k].laststart
      <4>1. stack2[k] = stack[k]
        BY <1>2, <3>1
      <4>2. stack[k].inner = z + 2 /\ z # e /\ code[z] = op.start_memory
        BY <1>11, <2>1, <3>1, <4>1 DEF Opened, e
      <4>3. z \in 1..e
        BY <1>12, <3>1
      <4>4. code2[z] = code[z]
        BY <1>7, <4>2, <4>3
      <4> HIDE DEF z
      <4>5. z # e2
        BY <1>6, <4>2, <4>3
      <4>6. QED BY <4>1, <4>2, <4>4, <4>5 DEF z, e2
    <3>2. CASE k = n + 1
      <4>1. stack2[k] = s /\ Kept(s)
        BY <1>2, <2>1, <3>2
      <4>2. s.inner = s.laststart + 2
        <5>1. s.inner = Len(code) + 3 /\ s.laststart = Len(code) + 1
          OBVIOUS
        <5> DEFINE a == Len(code)
        <5>2. a \in Nat /\ s.inner = a + 3 /\ s.laststart = a + 1
          BY <1>1, <5>1
        <5> HIDE DEF a
        <5>3. a + 3 = a + 1 + 2
          BY <5>2
        <5>4. QED BY <5>2, <5>3
      <4>3. QED BY <4>1, <4>2
    <3>3. QED BY <1>10, <3>1, <3>2
  <2>2. QED BY <2>1 DEF Opened
<1>16. Pending(code2, at2, 0, F2, Q2)
  BY DEF Pending
<1>17. regnum + 1 \in Nat
  BY <1>1
<1>18. QED BY <1>2, <1>8, <1>9, <1>14, <1>15, <1>16, <1>17 DEF Written, F2, Q2, e2, stack2

\* "(": with a start_memory, unless there are too many groups to register it.
GroupOpens(stack, s, regnum, code2) ==
  \E at2 : Written(code2, at2, Len(code2) + 1, 0, Append(stack, s), regnum + 1, 0, 0)

LEMMA OpenedGroup ==
  ASSUME NEW code, NEW at, NEW begalt, NEW fixup, NEW stack, NEW regnum, NEW laststart,
         NEW pending, Written(code, at, begalt, fixup, stack, regnum, laststart, pending),
         NEW s, s.begalt = begalt, s.fixup_alt_jump = fixup, s.laststart = Len(code) + 1,
         s.inner = Len(code) + 3, s.regnum = regnum + 1,
         NEW code2, code2 = IF regnum + 1 <= MAX_REGNUM
                            THEN code \o <<op.start_memory, regnum + 1, 0>> ELSE code
  PROVE  /\ GroupOpens(stack, s, regnum, code2)
         /\ Len(code2) \in Nat /\ Len(code) <= Len(code2)
<1> DEFINE F == Fixups(fixup, stack)
           Q == Marks(begalt, laststart, stack)
           e == Len(code) + 1
<1>1. /\ Len(code) \in Nat /\ Good(code, at, F, Q) /\ regnum \in Nat /\ Shape(code, at)
  BY WrittenNumbers
<1>2. CASE regnum + 1 <= MAX_REGNUM
  <2> DEFINE mid == <<op.start_memory, regnum + 1, 0>>
             at2 == at \cup {Len(code2) + 1}
  <2>1. OneInstruction(mid) /\ mid[1] = op.start_memory /\ mid[1] \notin Linking /\ mid[1] # Hole
    <3>1. regnum + 1 \in 0..255 /\ 0 \in 0..255
      BY <1>1, <1>2, SizeAssumption
    <3> DEFINE o == op.start_memory
               r == regnum + 1
               n == 0
    <3>2. GroupOpcode(mid, o, r, n)
      BY <3>1 DEF GroupOpcode
    <3> HIDE DEF o, r, n, mid
    <3>3. OneInstruction(mid) /\ mid[1] = o /\ mid[1] \notin Linking /\ mid[1] # Hole
      BY <3>2, GroupInstruction
    <3>4. QED BY <3>3 DEF o
  <2>2. Len(mid) = 3
    OBVIOUS
  <2> HIDE DEF mid
  <2>3. code2 = code \o mid
    BY <1>2 DEF mid
  <2>4. /\ \A k \in 1..Len(code) : code2[k] = code[k]
        /\ \A k \in 1..Len(mid) : code2[Len(code) + k] = mid[k]
        /\ Len(code2) = Len(code) + Len(mid)
    <3> HIDE DEF F, Q, at2
    <3>1. Shape(code, at) /\ OneInstruction(mid)
      BY <1>1, <2>1
    <3>2. QED BY <2>3, <3>1, AppendedReads
  <2>5. code2[Len(code) + 1] = op.start_memory
    <3>1. 1 \in 1..Len(mid)
      BY <2>2
    <3>2. QED BY <2>1, <2>4, <3>1
  <2>6. Good(code2, at2, F, Q \cup {Len(code) + 1})
    <3> DEFINE both == code \o mid
    <3> HIDE DEF F, Q, at2
    <3>1. /\ Good(code, at, F, Q) /\ OneInstruction(mid) /\ mid[1] \notin Linking
          /\ mid[1] # Hole
      BY <1>1, <2>1
    <3>2. Good(both, at \cup {Len(both) + 1}, F, Q \cup {Len(code) + 1})
      BY <3>1, AppendPlain
    <3> HIDE DEF both
    <3>3. code2 = both
      BY <2>3 DEF both
    <3>4. QED BY <3>2, <3>3 DEF at2
  <2>7. Len(code) <= Len(code2) /\ Len(code2) \in Nat /\ Len(code) + 1 # Len(code2) + 1
    BY <1>1, <2>2, <2>4
  <2>8. Written(code2, at2, Len(code2) + 1, 0, Append(stack, s), regnum + 1, 0, 0)
    <3> HIDE DEF at2
    <3>1. QED BY <2>4, <2>5, <2>6, <2>7, GroupEntered
  <2> HIDE DEF at2
  <2>9. QED BY <2>7, <2>8 DEF GroupOpens
<1>3. CASE ~(regnum + 1 <= MAX_REGNUM)
  <2>1. code2 = code
    BY <1>3
  <2>2. ~Kept(s)
    BY <1>3 DEF Kept
  <2>3. Good(code, at, F, Q \cup {e})
    <3> DEFINE R == Q \cup {Len(code) + 1}
    <3>1. R \subseteq Q \cup {Len(code) + 1}
      OBVIOUS
    <3> HIDE DEF F, Q, R
    <3>2. Good(code, at, F, R)
      BY <1>1, <3>1, OtherPlaces
    <3>3. QED BY <3>2 DEF R
  <2>4. Len(code) <= Len(code) /\ \A k \in 1..Len(code) : code[k] = code[k]
    BY <1>1
  <2>5. Written(code, at, Len(code) + 1, 0, Append(stack, s), regnum + 1, 0, 0)
    BY <2>2, <2>3, <2>4, GroupEntered
  <2>6. QED BY <1>1, <2>1, <2>4, <2>5, Zenon DEF GroupOpens
<1>4. QED BY <1>2, <1>3

\* The bytecode of a group that has ended, before the place of its own is left.
Mended(code, at, fixup, stack, code2, at2) ==
  /\ Good(code2, at2, FrameFixups(stack), FrameMarks(stack))
  /\ Len(code2) \in Nat /\ Len(code) <= Len(code2) /\ at \subseteq at2
  /\ \A i \in at : i # Len(code) + 1 /\ i # fixup => code2[i] = code[i]

\* Behind the ")" the group is an expression, and what was saved is back.
LEMMA GroupLeft ==
  ASSUME NEW code, NEW at, NEW begalt, NEW fixup, NEW stack, NEW regnum, NEW laststart,
         NEW pending, Written(code, at, begalt, fixup, stack, regnum, laststart, pending),
         stack # <<>>, NEW code2, NEW at2, Mended(code, at, fixup, stack, code2, at2)
  PROVE  LET top == Last(stack)
         IN Written(code2, at2, top.begalt, top.fixup_alt_jump, Front(stack), regnum,
                    top.laststart, 0)
<1> DEFINE top == Last(stack)
           rest == Front(stack)
           n == Len(stack)
           e == Len(code) + 1
           F == Fixups(top.fixup_alt_jump, rest)
           Q == Marks(top.begalt, top.laststart, rest)
<1>0. /\ Good(code2, at2, FrameFixups(stack), FrameMarks(stack))
      /\ Len(code) <= Len(code2)
      /\ \A i \in at : i # e /\ i # fixup => code2[i] = code[i]
  BY DEF Mended
<1>1. /\ Len(code) \in Nat /\ at \subseteq 1..e /\ Fixups(fixup, stack) \subseteq at
      /\ e \notin Fixups(fixup, stack)
      /\ Marks(begalt, laststart, stack) \subseteq at
      /\ IsSeq(stack) /\ regnum \in Nat
  BY WrittenNumbers
<1>2. /\ n \in Nat /\ n # 0 /\ top = stack[n] /\ IsSeq(rest) /\ Len(rest) = n - 1
      /\ \A k \in 1..(n - 1) : rest[k] = stack[k]
      /\ FrameFixups(stack) = FrameFixups(rest) \cup ({top.fixup_alt_jump} \ {0})
      /\ FrameMarks(stack) = FrameMarks(rest) \cup {top.begalt, top.laststart}
  BY <1>1, FrameClosed
<1>3. NestedIn(stack, begalt, fixup, laststart) /\ Opened(code, stack)
  BY DEF Written
<1>4. n \in 1..n /\ \A k \in 1..(n - 1) : k \in 1..n /\ k # n
  BY <1>2
<1> HIDE DEF top, rest, n
<1>5. top.laststart # 0
  BY <1>2, <1>3, <1>4 DEF NestedIn, n
<1>6. F = FrameFixups(stack) /\ Q = FrameMarks(stack)
  BY <1>2, <1>5 DEF Fixups, Marks
<1> HIDE DEF F, Q
<1>7. Good(code2, at2, F, Q) /\ Len(code2) \in Nat
  BY <1>0, <1>6, GoodNumbers
<1>8. \A z \in FrameMarks(stack) : z \in at /\ z \in 1..e
  BY <1>1 DEF Marks
<1>9. \A k \in 1..n : stack[k].laststart \in FrameMarks(stack)
  BY DEF FrameMarks, n
<1>10. FrameFixups(stack) \subseteq Fixups(fixup, stack)
  BY DEF Fixups
<1>11. \A h \in FrameFixups(stack) : h \in at /\ h # e /\ code[h] \in {Hole, op.jump_past_alt}
  BY <1>1, <1>10 DEF Written, Refilled
<1>12. ASSUME NEW h \in FrameFixups(stack), fixup # 0
       PROVE  h # fixup
  <2>1. PICK k \in 1..n : h = stack[k].fixup_alt_jump /\ h # 0
    BY DEF FrameFixups, n
  <2>2. h < stack[k].begalt /\ stack[k].begalt <= stack[k].laststart
    BY <1>3, <2>1 DEF NestedIn, Level, n
  <2>3. stack[k].laststart <= fixup
    BY <1>3, <1>12 DEF NestedIn, Above, n
  <2>4. stack[k].begalt \in FrameMarks(stack)
    BY DEF FrameMarks, n
  <2> DEFINE z == stack[k].laststart
             b == stack[k].begalt
  <2>5. z \in Int /\ b \in Int /\ h \in Int /\ h < b /\ b <= z /\ z <= fixup
    <3>1. z \in 1..e /\ b \in 1..e
      BY <1>8, <1>9, <2>4
    <3>2. h \in 1..e
      <4>1. h \in at
        BY <1>11
      <4>2. QED BY <1>1, <4>1
    <3>3. QED BY <2>2, <2>3, <3>1, <3>2
  <2> HIDE DEF z, b
  <2>6. fixup \in Int
    <3>1. fixup \in Fixups(fixup, stack)
      BY <1>12 DEF Fixups
    <3>2. fixup \in at
      BY <1>1, <3>1
    <3>3. fixup \in 1..e
      BY <1>1, <3>2
    <3>4. QED BY <3>3
  <2>7. h < fixup
    BY <2>5, <2>6
  <2>8. QED BY <2>5, <2>6, <2>7
<1>13. Refilled(code2, F)
  <2>1. ASSUME NEW h \in FrameFixups(stack)
        PROVE  code2[h] \in {Hole, op.jump_past_alt}
    <3>1. h # fixup
      <4>1. CASE fixup # 0
        BY <1>12, <4>1
      <4>2. CASE fixup = 0
        BY <4>2 DEF FrameFixups
      <4>3. QED BY <4>1, <4>2
    <3>2. code2[h] = code[h]
      BY <1>0, <1>11, <3>1
    <3>3. QED BY <1>11, <3>2
  <2>2. QED BY <1>6, <2>1 DEF Refilled
<1>14. NestedIn(rest, top.begalt, top.fixup_alt_jump, top.laststart)
  <2>1. /\ Level(top.begalt, top.fixup_alt_jump, top.laststart)
        /\ \A j \in 1..(n - 1) : Above(stack[j], top.begalt, top.fixup_alt_jump)
    BY <1>2, <1>3, <1>4 DEF NestedIn, n
  <2>2. ASSUME NEW k \in 1..(n - 1)
        PROVE  /\ rest[k].regnum \in Nat /\ rest[k].laststart # 0
               /\ Level(rest[k].begalt, rest[k].fixup_alt_jump, rest[k].laststart)
               /\ Above(rest[k], top.begalt, top.fixup_alt_jump)
               /\ \A j \in 1..(k - 1) : Above(rest[j], rest[k].begalt, rest[k].fixup_alt_jump)
    <3>1. rest[k] = stack[k] /\ k \in 1..n
      BY <1>2, <1>4
    <3>2. \A j \in 1..(k - 1) : j \in 1..(n - 1)
      BY <1>2
    <3>3. /\ stack[k].regnum \in Nat /\ stack[k].laststart # 0
          /\ Level(stack[k].begalt, stack[k].fixup_alt_jump, stack[k].laststart)
          /\ \A j \in 1..(k - 1) : Above(stack[j], stack[k].begalt, stack[k].fixup_alt_jump)
      BY <1>3, <3>1 DEF NestedIn, n
    <3>4. \A j \in 1..(k - 1) : rest[j] = stack[j]
      BY <1>2, <3>2
    <3>5. QED BY <2>1, <3>1, <3>3, <3>4
  <2>3. QED BY <1>2, <2>1, <2>2 DEF NestedIn
<1>15. Opened(code2, rest)
  <2>1. ASSUME NEW k \in 1..Len(rest), Kept(rest[k])
        PROVE  /\ rest[k].inner = rest[k].laststart + 2
               /\ rest[k].laststart # Len(code2) + 1
               /\ code2[rest[k].laststart] = op.start_memory
    <3> DEFINE z == stack[k].laststart
    <3>1. rest[k] = stack[k] /\ k \in 1..n
      BY <1>2, <1>4
    <3>2. /\ stack[k].inner = z + 2 /\ z # e /\ code[z] = op.start_memory
      BY <1>3, <2>1, <3>1 DEF Opened, n
    <3>3. z \in at /\ z \in 1..e
      BY <1>8, <1>9, <3>1
    <3>4. z # fixup
      <4>1. CASE fixup = 0
        BY <1>3, <3>1, <4>1 DEF NestedIn, n
      <4>2. CASE fixup # 0
        <5>1. code[fixup] \in {Hole, op.jump_past_alt}
          BY <4>2 DEF Written, Refilled, Fixups
        <5>2. op.start_memory # Hole /\ op.start_memory # op.jump_past_alt
          BY OpValues DEF Hole
        <5>3. QED BY <3>2, <5>1, <5>2
      <4>3. QED BY <4>1, <4>2
    <3>5. code2[z] = code[z]
      BY <1>0, <3>2, <3>3, <3>4
    <3> HIDE DEF z
    <3>6. z # Len(code2) + 1
      BY <1>0, <1>1, <1>7, <3>2, <3>3
    <3>7. QED BY <3>1, <3>2, <3>5, <3>6 DEF z
  <2>2. QED BY <2>1 DEF Opened
<1>16. Pending(code2, at2, 0, F, Q)
  BY DEF Pending
<1>17. Written(code2, at2, top.begalt, top.fixup_alt_jump, rest, regnum, top.laststart, 0)
  BY <1>1, <1>2, <1>7, <1>13, <1>14, <1>15, <1>16 DEF Written, F, Q
<1>18. QED BY <1>17 DEF top, rest

LEMMA AppendedByteIsConcat ==
  ASSUME NEW code \in Seq(Cell), NEW x \in Cell
  PROVE  Append(code, x) = code \o <<x>>
OBVIOUS

Continued(code, at, F, Q, code2) ==
  Good(code2, at \cup {Len(code2) + 1}, F, Q \cup {Len(code) + 1})

LEMMA AppendPlainly ==
  ASSUME NEW code, NEW at, NEW F, NEW Q, Good(code, at, F, Q), NEW mid, OneInstruction(mid),
         mid[1] \notin Linking, mid[1] # Hole
  PROVE  Continued(code, at, F, Q, code \o mid)
BY AppendPlain DEF Continued

\* The last alternative's jump, at the end of a group.
LEMMA LastAlternative ==
  ASSUME NEW code, NEW at, NEW begalt, NEW fixup, NEW stack, NEW regnum, NEW laststart,
         NEW pending, Written(code, at, begalt, fixup, stack, regnum, laststart, pending),
         fixup # 0, Len(code) + 1 <= 32767,
         NEW code2, code2 = StoreJump(op.jump_past_alt, Append(code, op.push_dummy_failure),
                                      fixup, End(code))
  PROVE  \E at2 : Mended(code, at, fixup, stack, code2, at2)
<1> DEFINE F == Fixups(fixup, stack)
           G == FrameFixups(stack)
           Q == Marks(begalt, laststart, stack)
           R == FrameMarks(stack)
           e == Len(code) + 1
           mid == <<op.push_dummy_failure>>
           long == code \o mid
           at2 == at \cup {Len(long) + 1}
<1>1. /\ Len(code) \in Nat /\ code \in Seq(Cell) /\ Shape(code, at) /\ at \subseteq 1..e
      /\ Good(code, at, F, Q) /\ F \subseteq at /\ e \notin F /\ e \in at
      /\ begalt \in at /\ fixup \in F /\ fixup < begalt
      /\ \A q \in R : q \in Q /\ q <= begalt /\ q <= fixup
      /\ G \subseteq F /\ Q \subseteq at
  BY WrittenNumbers
<1>2. OneInstruction(mid) /\ mid[1] \notin Linking /\ mid[1] # Hole /\ Len(mid) = 1
  BY ByteInstruction
<1>3. Append(code, op.push_dummy_failure) = long
  <2>1. op.push_dummy_failure \in Cell
    BY OpValues DEF Cell
  <2>2. QED BY <1>1, <2>1, AppendedByteIsConcat
<1> HIDE DEF mid
<1>4. /\ \A k \in 1..Len(code) : long[k] = code[k]
      /\ Len(long) = Len(code) + 1
  <2>1. Shape(code, at) /\ OneInstruction(mid)
    BY <1>1, <1>2
  <2>2. /\ \A k \in 1..Len(code) : (code \o mid)[k] = code[k]
        /\ Len(code \o mid) = Len(code) + Len(mid)
    BY <2>1, AppendIsInsertion
  <2>3. QED BY <1>2, <2>2
<1> HIDE DEF F, G, Q, R
<1>5. Good(long, at2, F, Q \cup {Len(code) + 1})
  <2>1. /\ Good(code, at, F, Q) /\ OneInstruction(mid) /\ mid[1] \notin Linking
        /\ mid[1] # Hole
    BY <1>1, <1>2
  <2> HIDE DEF at2
  <2>2. Continued(code, at, F, Q, long)
    BY <2>1, AppendPlainly
  <2> HIDE DEF long
  <2>3. QED BY <2>2 DEF at2, Continued
<1>6. Good(long, at2, F, R)
  <2> DEFINE S == Q \cup {Len(code) + 1}
  <2>1. Good(long, at2, F, S) /\ R \subseteq S \cup {Len(long) + 1}
    BY <1>1, <1>5
  <2> HIDE DEF S, long, at2
  <2>2. QED BY <2>1, OtherPlaces
<1>7. fixup \in 1..Len(code) /\ code[fixup] \in {Hole, op.jump_past_alt} /\ fixup \in at
  <2>1. fixup \in at /\ fixup # e
    BY <1>1
  <2>2. fixup \in 1..e
    BY <1>1, <2>1
  <2>3. code[fixup] \in {Hole, op.jump_past_alt}
    BY <1>1 DEF Written, Refilled, F
  <2>4. QED BY <1>1, <2>1, <2>2, <2>3
<1>8. op.jump_past_alt \in Jumps
  BY DEF Jumps
<1> HIDE DEF long, at2
<1>9. /\ fixup \in at2 /\ fixup # Len(long) + 1 /\ long[fixup] \in Jumps \cup {Hole}
      /\ End(code) \in at2 /\ Near(fixup, End(code)) /\ End(code) = e
  <2>1. fixup \in at2 /\ e \in at2
    BY <1>1, <1>7 DEF at2
  <2>2. fixup # Len(long) + 1
    BY <1>1, <1>4, <1>7
  <2>3. long[fixup] \in Jumps \cup {Hole}
    BY <1>4, <1>7, <1>8
  <2>4. Near(fixup, e)
    BY <1>1, <1>7 DEF Near
  <2>5. QED BY <2>1, <2>2, <2>3, <2>4 DEF End
<1>10. UpTo(R, fixup) /\ UpTo(R, e)
  <2>1. \A q \in R : q \in 1..e
    <3>1. Q \subseteq 1..e
      <4>1. Q \subseteq at /\ at \subseteq 1..e
        BY <1>1
      <4>2. QED BY <4>1
    <3>2. \A q \in R : q \in Q
      BY <1>1
    <3>3. SUFFICES ASSUME NEW q \in R
                   PROVE  q \in 1..e
      OBVIOUS
    <3>4. q \in Q
      BY <3>2
    <3>5. QED BY <3>1, <3>4
  <2>2. fixup \in Int /\ fixup <= e
    BY <1>1, <1>7
  <2>3. \A q \in R : q \in Int /\ q <= fixup /\ q <= e
    BY <1>1, <2>1, <2>2
  <2>4. QED BY <2>3 DEF UpTo
<1>11. /\ Good(code2, at2, F \ {fixup}, R) /\ Overwritten(long, fixup, code2)
  <2>1. code2 = StoreJump(op.jump_past_alt, long, fixup, End(code))
    BY <1>3
  <2>2. UpTo(R, fixup) /\ UpTo(R, End(code))
    BY <1>9, <1>10
  <2> DEFINE x == End(code)
  <2>3. /\ x \in at2 /\ Near(fixup, x) /\ UpTo(R, x)
    BY <1>9, <2>2
  <2> HIDE DEF x
  <2>4. LET c == StoreJump(op.jump_past_alt, long, fixup, x)
        IN Good(c, at2, F \ {fixup}, R) /\ Overwritten(long, fixup, c)
    BY <1>6, <1>8, <1>9, <2>2, <2>3, JumpFilled
  <2>5. QED BY <2>1, <2>4 DEF x
<1>12. Good(code2, at2, G, R)
  <2> DEFINE H == F \ {fixup}
  <2>1. H \subseteq G
    BY DEF F, G, Fixups
  <2>2. Len(code2) = Len(long)
    BY <1>11 DEF Overwritten
  <2>3. G \subseteq at2
    BY <1>1 DEF at2
  <2>4. Len(code2) + 1 \notin G
    <3>1. G \subseteq 1..e
      BY <1>1
    <3>2. Len(code2) + 1 \notin 1..e
      BY <1>1, <1>4, <2>2
    <3>3. QED BY <3>1, <3>2
  <2>5. Good(code2, at2, H, R)
    BY <1>11
  <2> HIDE DEF H
  <2>6. QED BY <2>1, <2>3, <2>4, <2>5, MoreExempt
<1>13. ASSUME NEW i \in at, i # e, i # fixup
       PROVE  code2[i] = code[i]
  <2>1. i \in 1..Len(code) /\ i \in at2
    <3>1. i \in 1..e
      BY <1>1
    <3>2. QED BY <1>1, <1>13, <3>1 DEF at2
  <2>2. long[i] = code[i] /\ i # Len(long) + 1
    BY <1>1, <1>4, <2>1
  <2>3. Shape(long, at2)
    BY <1>6 DEF Good
  <2>4. Alike(long, i, code2, i)
    BY <1>9, <1>11, <1>13, <2>1, <2>2, <2>3, OthersStay
  <2>5. QED BY <2>2, <2>4 DEF Alike
<1>14. Len(code2) = Len(code) + 1 /\ at \subseteq at2
  BY <1>4, <1>11 DEF Overwritten, at2
<1>15. Len(code2) \in Nat /\ Len(code) <= Len(code2)
  BY <1>1, <1>14
<1>16. Mended(code, at, fixup, stack, code2, at2)
  BY <1>12, <1>13, <1>14, <1>15 DEF Mended, G, R
<1>17. QED BY <1>16

\* The number of inner groups, written into a start_memory.
Recounted(code, at, F, Q, code2) ==
  /\ Good(code2, at, F, Q) /\ Len(code2) = Len(code)
  /\ \A i \in at : i # Len(code) + 1 => code2[i] = code[i]

LEMMA CountStored ==
  ASSUME NEW code, NEW at, NEW F, NEW Q, Good(code, at, F, Q),
         NEW z \in at, z # Len(code) + 1, code[z] = op.start_memory, NEW x \in 0..255,
         NEW loc, loc = z + 2
  PROVE  Recounted(code, at, F, Q, Put(code, loc, <<x>>))
<1> DEFINE bytes == <<x>>
           code2 == Put(code, loc, bytes)
<1>1. /\ Len(code) \in Nat /\ at \subseteq 1..(Len(code) + 1) /\ Shape(code, at)
      /\ F \subseteq at /\ Len(code) + 1 \notin F
  BY GoodNumbers
<1>2. bytes \in Seq(Cell) /\ Len(bytes) = 1 /\ \A k \in 1..Len(bytes) : bytes[k] # Hole
  BY DEF Cell, Hole
<1> HIDE DEF bytes, code2
<1>3. Size(code, z) = 3
  BY SizeOfOpcode
<1>4. z \in 1..(Len(code) + 1)
  BY <1>1
<1>5. loc \in Int /\ z < loc /\ loc + Len(bytes) <= z + Size(code, z)
  BY <1>2, <1>3, <1>4
<1>6. /\ Overwritten(code, z, code2)
      /\ \A k \in 1..Len(code) : k < loc \/ loc + Len(bytes) <= k => code2[k] = code[k]
  <2>1. code[z] \in {op.start_memory} \cup Jumps2
    OBVIOUS
  <2>2. QED BY <1>2, <1>5, <2>1, ArgumentStored DEF code2
<1>7. Good(code2, at, F \cup {z}, Q)
  BY <1>6, Rewritten
<1>8. code2[z] = code[z] /\ Len(code2) = Len(code)
  <2>1. z \in 1..Len(code)
    BY <1>1, <1>4
  <2>2. QED BY <1>5, <1>6, <2>1 DEF Overwritten
<1>9. op.start_memory \notin Linking /\ op.start_memory # Hole
  BY OpSets, OpValues DEF Hole
<1>10. Good(code2, at, F, Q)
  BY <1>1, <1>7, <1>8, <1>9, NoLinkNeeded
<1>11. ASSUME NEW i \in at, i # Len(code) + 1
       PROVE  code2[i] = code[i]
  <2>1. CASE i = z
    BY <1>8, <2>1
  <2>2. CASE i # z
    <3>1. Alike(code, i, code2, i)
      BY <1>1, <1>6, <1>11, <2>2, OthersStay
    <3>2. QED BY <3>1 DEF Alike
  <2>3. QED BY <2>1, <2>2
<1>12. QED BY <1>8, <1>10, <1>11 DEF Recounted, code2, bytes

\* Room for the push_dummy_failure, and the locals a ")" gives back.
Roomy(code, fixup) == fixup # 0 => Len(code) + 1 <= 32767
GroupCloses(stack, regnum, top, code2) ==
  \E at2 : Written(code2, at2, top.begalt, top.fixup_alt_jump, Front(stack), regnum,
                   top.laststart, 0)

GroupBody(code, fixup) ==
  IF fixup # 0
  THEN StoreJump(op.jump_past_alt, Append(code, op.push_dummy_failure), fixup, End(code))
  ELSE code
GroupCode(mended, top, x) ==
  IF top.regnum <= MAX_REGNUM
  THEN Put(mended, top.inner, <<x>>) \o <<op.stop_memory, top.regnum, x>>
  ELSE mended

GroupShut(code, at, G, R, code2) ==
  /\ Good(code2, at \cup {Len(code2) + 1}, G, R) /\ Len(code2) = Len(code) + 3
  /\ \A i \in at : i # Len(code) + 1 => code2[i] = code[i]

\* The group of the frame top begins at z.
Shuttable(code, at, z, top, x) ==
  /\ z \in at /\ z # Len(code) + 1 /\ code[z] = op.start_memory
  /\ top.inner = z + 2 /\ Kept(top) /\ top.regnum \in 0..255 /\ x \in 0..255

\* The number of inner groups, and the stop_memory.
LEMMA GroupCounted ==
  ASSUME NEW code, NEW at, NEW G, NEW R, Good(code, at, G, R), NEW z, NEW top,
         NEW x, Shuttable(code, at, z, top, x)
  PROVE  GroupShut(code, at, G, R, GroupCode(code, top, x))
<1>0. /\ z \in at /\ z # Len(code) + 1 /\ code[z] = op.start_memory
      /\ top.inner = z + 2 /\ Kept(top) /\ top.regnum \in 0..255
      /\ x \in 0..255
  BY DEF Shuttable
<1> DEFINE loc == top.inner
           r == top.regnum
           full == Put(code, loc, <<x>>)
           mid == <<op.stop_memory, r, x>>
           code2 == full \o mid
<1>1. Len(code) \in Nat /\ at \subseteq 1..(Len(code) + 1)
  BY GoodNumbers
<1>2. Len(mid) = 3
  OBVIOUS
<1>3. OneInstruction(mid) /\ mid[1] \notin Linking /\ mid[1] # Hole
  <2> DEFINE o == op.stop_memory
  <2>1. GroupOpcode(mid, o, r, x)
    BY <1>0 DEF GroupOpcode
  <2> HIDE DEF o, r, mid
  <2>2. OneInstruction(mid) /\ mid[1] = o /\ mid[1] \notin Linking /\ mid[1] # Hole
    BY <2>1, GroupInstruction
  <2>3. QED BY <2>2 DEF o
<1>4. Recounted(code, at, G, R, full)
  <2>1. loc = z + 2
    BY <1>0
  <2> HIDE DEF loc
  <2>2. QED BY <1>0, <2>1, CountStored
<1> HIDE DEF full, mid
<1>5. /\ Good(full, at, G, R) /\ Len(full) = Len(code)
      /\ \A i \in at : i # Len(code) + 1 => full[i] = code[i]
  BY <1>4 DEF Recounted
<1>6. /\ \A k \in 1..Len(full) : code2[k] = full[k]
      /\ Len(code2) = Len(full) + 3
  <2>1. Shape(full, at)
    BY <1>5 DEF Good
  <2>2. /\ \A k \in 1..Len(full) : (full \o mid)[k] = full[k]
        /\ Len(full \o mid) = Len(full) + Len(mid)
    BY <1>3, <2>1, AppendIsInsertion
  <2>3. QED BY <1>2, <2>2
<1>7. Continued(full, at, G, R, code2)
  BY <1>3, <1>5, AppendPlainly
<1> DEFINE at2 == at \cup {Len(code2) + 1}
           S == R \cup {Len(full) + 1}
<1> HIDE DEF code2
<1>8. Good(code2, at2, G, S)
  BY <1>7 DEF Continued
<1>9. R \subseteq S \cup {Len(code2) + 1}
  OBVIOUS
<1> HIDE DEF S, at2
<1>10. Good(code2, at2, G, R)
  BY <1>8, <1>9, OtherPlaces
<1>11. ASSUME NEW i \in at, i # Len(code) + 1
       PROVE  code2[i] = code[i]
  <2>1. i \in 1..Len(full)
    <3>1. i \in 1..(Len(code) + 1)
      BY <1>1
    <3>2. QED BY <1>1, <1>5, <1>11, <3>1
  <2>2. QED BY <1>5, <1>6, <1>11, <2>1
<1>12. GroupShut(code, at, G, R, code2)
  BY <1>5, <1>6, <1>10, <1>11 DEF GroupShut, at2
<1>13. GroupCode(code, top, x) = code2
  BY <1>0 DEF GroupCode, Kept, code2, full, mid
<1>14. QED BY <1>12, <1>13

\* What closes a group, in two steps.
LEMMA GroupEnded ==
  ASSUME NEW code, NEW at, NEW begalt, NEW fixup, NEW stack, NEW regnum, NEW laststart,
         NEW pending, Written(code, at, begalt, fixup, stack, regnum, laststart, pending),
         Roomy(code, fixup),
         NEW code2, code2 = GroupBody(code, fixup)
  PROVE  \E at2 : Mended(code, at, fixup, stack, code2, at2)
<1> DEFINE F == Fixups(fixup, stack)
           Q == Marks(begalt, laststart, stack)
           G == FrameFixups(stack)
           R == FrameMarks(stack)
<1>1. CASE fixup # 0
  <2>1. code2 = StoreJump(op.jump_past_alt, Append(code, op.push_dummy_failure), fixup, End(code))
    BY <1>1 DEF GroupBody
  <2>2. Len(code) + 1 <= 32767
    BY <1>1 DEF Roomy
  <2>3. QED BY <1>1, <2>1, <2>2, LastAlternative
<1>2. CASE ~(fixup # 0)
  <2>1. code2 = code
    BY <1>2 DEF GroupBody
  <2>2. Len(code) \in Nat /\ Good(code, at, F, Q) /\ \A q \in R : q \in Q
    BY WrittenNumbers
  <2>3. F = G
    BY <1>2 DEF Fixups
  <2>4. R \subseteq Q \cup {Len(code) + 1}
    BY <2>2
  <2> HIDE DEF F, G, Q, R
  <2>5. Good(code, at, F, R)
    BY <2>2, <2>4, OtherPlaces
  <2>6. Good(code, at, G, R)
    BY <2>3, <2>5
  <2>7. Mended(code, at, fixup, stack, code, at)
    <3>1. Len(code) <= Len(code)
      BY <2>2
    <3>2. QED BY <2>2, <2>6, <3>1 DEF Mended, G, R
  <2>8. QED BY <2>1, <2>7
<1>3. QED BY <1>1, <1>2

\* ")" that closes a group.
LEMMA ClosedGroup ==
  ASSUME NEW code, NEW at, NEW begalt, NEW fixup, NEW stack, NEW regnum, NEW laststart,
         NEW pending, Written(code, at, begalt, fixup, stack, regnum, laststart, pending),
         stack # <<>>, Roomy(code, fixup), NEW x \in 0..255,
         NEW mended, mended = GroupBody(code, fixup), NEW top, top = Last(stack),
         NEW code2, code2 = GroupCode(mended, top, x)
  PROVE  /\ GroupCloses(stack, regnum, top, code2)
         /\ Len(code2) \in Nat /\ Len(code) <= Len(code2)
<1> DEFINE n == Len(stack)
           e == Len(code) + 1
           z == top.laststart
           r == top.regnum
           loc == top.inner
           G == FrameFixups(stack)
           R == FrameMarks(stack)
<1>1. \E at1 : Mended(code, at, fixup, stack, mended, at1)
  BY GroupEnded
<1>2. PICK at1 : Mended(code, at, fixup, stack, mended, at1)
  BY <1>1
<1>3. /\ Len(code) \in Nat /\ at \subseteq 1..e /\ IsSeq(stack)
      /\ \A q \in R : q \in Marks(begalt, laststart, stack)
      /\ Marks(begalt, laststart, stack) \subseteq at
  BY WrittenNumbers
<1>4. n \in Nat /\ n # 0 /\ top = stack[n]
  BY <1>3, FrameClosed
<1>5. n \in 1..n
  BY <1>4
<1>6. /\ r \in Nat /\ z # 0 /\ z \in R
      /\ Kept(top) => loc = z + 2 /\ z # e /\ code[z] = op.start_memory
  BY <1>4, <1>5 DEF Written, NestedIn, Opened, FrameMarks
<1>7. z \in at
  BY <1>3, <1>6
<1>8. \E at2 : Mended(code, at, fixup, stack, code2, at2)
  <2>1. CASE ~Kept(top)
    <3>1. code2 = mended
      BY <2>1 DEF Kept, GroupCode
    <3>2. Mended(code, at, fixup, stack, code2, at1)
      BY <1>2, <3>1
    <3>3. QED BY <3>2
  <2>2. CASE Kept(top)
    <3> DEFINE b == Len(mended)
    <3>2. /\ Good(mended, at1, G, R) /\ b \in Nat /\ Len(code) <= b /\ at \subseteq at1
          /\ \A i \in at : i # e /\ i # fixup => mended[i] = code[i]
      BY <1>2 DEF Mended
    <3>3. r \in 0..255
      <4>1. r \in Nat /\ r <= MAX_REGNUM
        BY <1>6, <2>2 DEF Kept
      <4> HIDE DEF r
      <4>2. QED BY <4>1, SizeAssumption
    <3>4. z # fixup
      <4>1. CASE fixup = 0
        BY <1>6, <4>1
      <4>2. CASE fixup # 0
        <5>1. code[fixup] \in {Hole, op.jump_past_alt}
          BY <4>2 DEF Written, Refilled, Fixups
        <5>2. op.start_memory # Hole /\ op.start_memory # op.jump_past_alt
          BY OpValues DEF Hole
        <5>3. QED BY <1>6, <2>2, <5>1, <5>2
      <4>3. QED BY <4>1, <4>2
    <3>5. loc = z + 2 /\ z # e /\ mended[z] = op.start_memory
      BY <1>6, <1>7, <2>2, <3>2, <3>4
    <3> HIDE DEF z, r, loc, G, R
    <3>6. z \in 1..e
      <4>1. z \in at /\ at \subseteq 1..e
        BY <1>3, <1>7
      <4> HIDE DEF e
      <4>2. QED BY <4>1
    <3>7. z \in at1 /\ z # b + 1
      <4>1. z \in at1
        BY <1>7, <3>2
      <4> DEFINE a == Len(code)
      <4>2. a \in Nat /\ b \in Nat /\ a <= b /\ z \in 1..(a + 1) /\ z # a + 1
        BY <1>3, <3>2, <3>5, <3>6
      <4> HIDE DEF a, b
      <4>3. z # b + 1
        BY <4>2
      <4>4. QED BY <4>1, <4>3
    <3>8. GroupShut(mended, at1, G, R, code2)
      <4>1. /\ Good(mended, at1, G, R) /\ z \in at1 /\ z # Len(mended) + 1
            /\ mended[z] = op.start_memory
        BY <3>2, <3>5, <3>7
      <4>2. top.inner = z + 2
        BY <3>5 DEF loc
      <4>3. top.regnum \in 0..255
        BY <3>3 DEF r
      <4>4. GroupShut(mended, at1, G, R, GroupCode(mended, top, x))
        <5>1. Shuttable(mended, at1, z, top, x)
          BY <2>2, <4>1, <4>2, <4>3 DEF Shuttable
        <5>2. QED BY <4>1, <5>1, GroupCounted
      <4>5. QED BY <4>4
    <3> DEFINE at2 == at1 \cup {Len(code2) + 1}
    <3>9. /\ Good(code2, at2, G, R) /\ Len(code2) = b + 3
          /\ \A i \in at1 : i # b + 1 => code2[i] = mended[i]
      BY <3>8 DEF GroupShut
    <3>10. at \subseteq at2
      BY <3>2
    <3>11. ASSUME NEW i \in at, i # e, i # fixup
           PROVE  code2[i] = code[i]
      <4> DEFINE a == Len(code)
      <4>1. i \in 1..(a + 1) /\ i # a + 1 /\ a \in Nat /\ b \in Nat /\ a <= b
        <5>1. i \in 1..e
          BY <1>3
        <5>2. QED BY <1>3, <3>2, <3>11, <5>1
      <4>2. i # b + 1
        <5> HIDE DEF a, b
        <5>1. QED BY <4>1
      <4>3. i \in at1 /\ mended[i] = code[i]
        BY <3>2, <3>11
      <4>4. QED BY <3>9, <4>2, <4>3
    <3>12. Len(code2) \in Nat /\ Len(code) <= Len(code2)
      <4> DEFINE a == Len(code)
                 c == Len(code2)
      <4>1. a \in Nat /\ b \in Nat /\ a <= b /\ c = b + 3
        BY <1>3, <3>2, <3>9
      <4> HIDE DEF a, b, c
      <4>2. c \in Nat /\ a <= c
        BY <4>1
      <4>3. QED BY <4>2 DEF a, c
    <3> HIDE DEF at2
    <3>13. Mended(code, at, fixup, stack, code2, at2)
      BY <3>9, <3>10, <3>11, <3>12 DEF Mended, G, R
    <3>14. QED BY <3>13
  <2>3. QED BY <2>1, <2>2
<1>9. PICK at2 : Mended(code, at, fixup, stack, code2, at2)
  BY <1>8
<1>10. LET t == Last(stack)
       IN Written(code2, at2, t.begalt, t.fixup_alt_jump, Front(stack), regnum, t.laststart, 0)
  BY <1>9, GroupLeft
<1>11. Len(code2) \in Nat /\ Len(code) <= Len(code2)
  BY <1>9 DEF Mended
<1> HIDE DEF G, R, n, e, z, r, loc
<1>12. Written(code2, at2, top.begalt, top.fixup_alt_jump, Front(stack), regnum,
               top.laststart, 0)
  BY <1>10
<1>13. QED BY <1>11, <1>12, Zenon DEF GroupCloses

\* ")" that closes none, with RE_UNMATCHED_RIGHT_PAREN_ORD: the last
\* alternative's jump is written, and is still the one to be written.
LEMMA FixedAgain ==
  ASSUME NEW code, NEW at, NEW begalt, NEW fixup, NEW stack, NEW regnum, NEW laststart,
         NEW pending, Written(code, at, begalt, fixup, stack, regnum, laststart, pending),
         fixup # 0, NEW to \in Int
  PROVE  LET code2 == StoreJump(op.jump_past_alt, code, fixup, to)
         IN /\ Written(code2, at, begalt, fixup, stack, regnum, laststart, pending)
            /\ Len(code2) = Len(code) /\ Len(code) \in Nat
<1> DEFINE F == Fixups(fixup, stack)
           Q == Marks(begalt, laststart, stack)
           e == Len(code) + 1
           o == op.jump_past_alt
           code2 == StoreJump(o, code, fixup, to)
<1>1. /\ Len(code) \in Nat /\ Shape(code, at) /\ at \subseteq 1..e
      /\ Good(code, at, F, Q) /\ F \subseteq at /\ e \notin F /\ e \in at
      /\ fixup \in F /\ Q \subseteq at /\ begalt \in at
      /\ \A q \in FrameMarks(stack) : q \in Q /\ q <= begalt
  BY WrittenNumbers
<1>2. /\ fixup \in at /\ fixup # e /\ code[fixup] \in {Hole, o}
      /\ \A h \in F : code[h] \in {Hole, o}
  BY <1>1 DEF Written, Refilled
<1>3. o \in Jumps /\ o # op.exactn /\ op.exactn # Hole /\ op.start_memory \notin {Hole, o}
  BY OpValues DEF Jumps, Hole
<1>4. Overwritten(code, fixup, code2) /\ code2[fixup] = o
  <2>1. code[fixup] \in Jumps \cup {Hole}
    BY <1>2, <1>3
  <2> HIDE DEF o
  <2>2. QED BY <1>1, <1>2, <1>3, <2>1, JumpStored
<1> HIDE DEF F, Q, code2, o
<1>5. Good(code2, at, F, Q)
  <2> DEFINE G == F \cup {fixup}
  <2>1. Good(code2, at, G, Q)
    BY <1>1, <1>2, <1>4, Rewritten
  <2>2. G = F
    BY <1>1
  <2> HIDE DEF G
  <2>3. QED BY <2>1, <2>2
<1>6. Len(code2) = Len(code)
  BY <1>4 DEF Overwritten
<1>7. ASSUME NEW i \in at, i # e, i # fixup
      PROVE  /\ code2[i] = code[i]
             /\ code[i] \in Linking => Dest(code2, i) = Dest(code, i)
  <2>1. Alike(code, i, code2, i)
    BY <1>1, <1>2, <1>4, <1>7, OthersStay
  <2> DEFINE d == Dest(code, i)
  <2>2. code2[i] = code[i] /\ (code[i] \in Linking => Dest(code2, i) = d + i - i /\ d \in Int)
    BY <1>1, <1>7, <2>1, Instruction DEF Alike
  <2>3. i \in Int
    BY <1>1
  <2> HIDE DEF d
  <2>4. d \in Int => d + i - i = d
    BY <2>3
  <2>5. QED BY <2>2, <2>4 DEF d
<1>8. Refilled(code2, F)
  <2>1. ASSUME NEW h \in F
        PROVE  code2[h] \in {Hole, o}
    <3>1. CASE h = fixup
      BY <1>4, <3>1
    <3>2. CASE h # fixup
      <4>1. h \in at /\ h # e
        BY <1>1
      <4>2. QED BY <1>2, <1>7, <3>2, <4>1
    <3>3. QED BY <3>1, <3>2
  <2>2. QED BY <2>1 DEF Refilled, o
<1>9. Opened(code2, stack)
  <2>1. ASSUME NEW k \in 1..Len(stack), Kept(stack[k])
        PROVE  /\ stack[k].inner = stack[k].laststart + 2
               /\ stack[k].laststart # Len(code2) + 1
               /\ code2[stack[k].laststart] = op.start_memory
    <3> DEFINE z == stack[k].laststart
    <3>1. stack[k].inner = z + 2 /\ z # e /\ code[z] = op.start_memory
      BY <2>1 DEF Written, Opened
    <3>2. z \in at
      <4>1. z \in FrameMarks(stack)
        BY DEF FrameMarks
      <4>2. z \in Q
        BY <1>1, <4>1
      <4>3. QED BY <1>1, <4>2
    <3>3. z # fixup
      BY <1>2, <1>3, <3>1
    <3> HIDE DEF z
    <3>4. code2[z] = op.start_memory
      BY <1>7, <3>1, <3>2, <3>3
    <3>5. QED BY <1>6, <3>1, <3>4 DEF z
  <2>2. QED BY <2>1 DEF Opened
<1>10. Pending(code2, at, pending, F, Q)
  <2>1. Pending(code, at, pending, F, Q)
    BY DEF Written, F, Q
  <2>2. CASE pending = 0
    BY <2>1, <2>2 DEF Pending
  <2>3. CASE pending # 0
    <3>1. /\ pending - 1 \in at /\ pending <= Len(code) /\ code[pending - 1] = op.exactn
          /\ e \notin Q /\ pending \in Nat
          /\ \A i \in at : i \notin F /\ i # e /\ code[i] \in Linking => Dest(code, i) # e
      BY <2>1, <2>3 DEF Pending
    <3>2. pending - 1 # e /\ pending - 1 # fixup
      BY <1>1, <1>2, <1>3, <3>1
    <3>3. code2[pending - 1] = op.exactn
      BY <1>7, <3>1, <3>2
    <3>4. ASSUME NEW i \in at, i \notin F, i # e, code2[i] \in Linking
          PROVE  Dest(code2, i) # e
      <4>1. i # fixup
        BY <1>1, <3>4
      <4>2. QED BY <1>7, <3>1, <3>4, <4>1
    <3>5. QED BY <1>6, <3>1, <3>3, <3>4 DEF Pending
  <2>4. QED BY <2>2, <2>3
<1>11. /\ IsSeq(stack) /\ regnum \in Nat /\ NestedIn(stack, begalt, fixup, laststart)
  BY DEF Written
<1>12. Written(code2, at, begalt, fixup, stack, regnum, laststart, pending)
  BY <1>5, <1>8, <1>9, <1>10, <1>11 DEF Written, F, Q
<1>13. QED BY <1>1, <1>6, <1>12 DEF code2, o

-----------------------------------------------------------------------------
(***************************************************************************)
(* The alternatives.                                                       *)
(***************************************************************************)
\* The locals behind the "|": the gap is the last alternative's jump now.
LEMMA NextAlternative ==
  ASSUME NEW code, NEW at, NEW begalt, NEW fixup, NEW stack, NEW regnum, NEW laststart,
         NEW pending, Written(code, at, begalt, fixup, stack, regnum, laststart, pending),
         NEW code2, NEW at2, NEW gap \in Nat, Len(code) < gap, Len(code2) = gap + 2,
         Good(code2, at2, Fixups(gap, stack), FrameMarks(stack)), code2[gap] = Hole,
         \A i \in at : i # fixup /\ i < begalt => code2[i] = code[i],
         fixup # 0 => code2[fixup] = op.jump_past_alt
  PROVE  Written(code2, at2, Len(code2) + 1, gap, stack, regnum, 0, 0)
<1> DEFINE F == Fixups(gap, stack)
           e == Len(code) + 1
           e2 == Len(code2) + 1
           Q2 == Marks(e2, 0, stack)
<1>1. /\ Len(code) \in Nat /\ at \subseteq 1..e /\ begalt \in at
      /\ \A q \in FrameMarks(stack) : q \in at /\ q <= begalt
      /\ IsSeq(stack) /\ regnum \in Nat /\ FrameFixups(stack) \subseteq Fixups(fixup, stack)
      /\ Fixups(fixup, stack) \subseteq at
      /\ \A h \in Fixups(fixup, stack) : h < begalt
  BY WrittenNumbers
<1>2. Q2 \subseteq FrameMarks(stack) \cup {e2}
  BY DEF Marks
<1>3. Good(code2, at2, F, Q2)
  <2> HIDE DEF F, Q2
  <2>1. Good(code2, at2, F, FrameMarks(stack))
    BY DEF F
  <2>2. QED BY <1>2, <2>1, OtherPlaces
<1>4. begalt \in 1..e
  BY <1>1
<1>5. gap \in Int /\ e \in Int /\ begalt <= gap /\ begalt < e2 /\ gap < e2 /\ gap # 0
      /\ e2 \in Int /\ e <= gap
  <2> DEFINE a == Len(code)
             a2 == Len(code2)
  <2>1. a \in Nat /\ begalt \in 1..(a + 1) /\ a < gap /\ a2 = gap + 2
    BY <1>1, <1>4
  <2> HIDE DEF a, a2
  <2>2. a + 1 \in Int /\ begalt <= gap /\ begalt < a2 + 1 /\ gap < a2 + 1 /\ gap # 0
        /\ a2 + 1 \in Int /\ a + 1 <= gap
    BY <2>1
  <2>3. QED BY <2>2 DEF a, a2
<1> HIDE DEF e, e2, F, Q2
<1>6. Refilled(code2, F)
  <2>1. ASSUME NEW h \in F
        PROVE  code2[h] \in {Hole, op.jump_past_alt}
    <3>1. CASE h = gap
      BY <3>1
    <3>2. CASE h # gap
      <4>1. h \in FrameFixups(stack)
        BY <3>2 DEF F, Fixups
      <4>2. h \in Fixups(fixup, stack)
        BY <1>1, <4>1
      <4>3. h \in at /\ h < begalt /\ code[h] \in {Hole, op.jump_past_alt}
        BY <1>1, <4>2 DEF Written, Refilled
      <4>4. CASE h = fixup
        <5>1. h # 0
          BY <4>1 DEF FrameFixups
        <5>2. QED BY <4>4, <5>1
      <4>5. CASE h # fixup
        BY <4>3, <4>5
      <4>6. QED BY <4>4, <4>5
    <3>3. QED BY <3>1, <3>2
  <2>2. QED BY <2>1 DEF Refilled
<1>7. NestedIn(stack, begalt, fixup, laststart) /\ Opened(code, stack)
  BY DEF Written
<1>8. \A k \in 1..Len(stack) : stack[k].laststart \in at /\ stack[k].laststart \in 1..e
  <2>1. \A k \in 1..Len(stack) : stack[k].laststart \in FrameMarks(stack)
    BY DEF FrameMarks
  <2>2. at \subseteq 1..e
    BY <1>1
  <2>3. QED BY <1>1, <2>1, <2>2
<1>9. NestedIn(stack, e2, gap, 0)
  <2>1. Level(e2, gap, 0)
    BY <1>5 DEF Level
  <2>2. ASSUME NEW k \in 1..Len(stack)
        PROVE  Above(stack[k], e2, gap)
    <3> DEFINE z == stack[k].laststart
    <3>1. z <= begalt /\ z \in 1..e
      BY <1>7, <1>8 DEF NestedIn, Above
    <3>2. begalt \in Int
      BY <1>4
    <3> HIDE DEF z
    <3>3. z <= e2 /\ z < e2 /\ z <= gap
      BY <1>5, <3>1, <3>2
    <3>4. QED BY <3>3 DEF Above, z
  <2>3. ASSUME NEW k \in 1..Len(stack)
        PROVE  /\ stack[k].regnum \in Nat /\ stack[k].laststart # 0
               /\ Level(stack[k].begalt, stack[k].fixup_alt_jump, stack[k].laststart)
               /\ \A j \in 1..(k - 1) : Above(stack[j], stack[k].begalt, stack[k].fixup_alt_jump)
    BY <1>7 DEF NestedIn
  <2>4. QED BY <2>1, <2>2, <2>3 DEF NestedIn
<1>10. Opened(code2, stack)
  <2>1. ASSUME NEW k \in 1..Len(stack), Kept(stack[k])
        PROVE  /\ stack[k].inner = stack[k].laststart + 2
               /\ stack[k].laststart # Len(code2) + 1
               /\ code2[stack[k].laststart] = op.start_memory
    <3> DEFINE z == stack[k].laststart
    <3>1. stack[k].inner = z + 2 /\ code[z] = op.start_memory /\ z < begalt
      BY <1>7, <2>1 DEF Opened, NestedIn, Above
    <3>2. z \in at /\ z \in 1..e
      BY <1>8
    <3>3. z # fixup
      <4>1. z # 0
        BY <1>7 DEF NestedIn
      <4> HIDE DEF z
      <4>2. CASE fixup = 0
        BY <4>1, <4>2
      <4>3. CASE fixup # 0
        <5>1. fixup \in Fixups(fixup, stack)
          BY <4>3 DEF Fixups
        <5>2. code[fixup] \in {Hole, op.jump_past_alt}
          BY <5>1 DEF Written, Refilled
        <5>3. op.start_memory # Hole /\ op.start_memory # op.jump_past_alt
          BY OpValues DEF Hole
        <5>4. QED BY <3>1, <5>2, <5>3
      <4>4. QED BY <4>2, <4>3
    <3> HIDE DEF z
    <3>4. code2[z] = op.start_memory
      BY <3>1, <3>2, <3>3
    <3>5. z # e2
      BY <1>5, <3>2
    <3>6. QED BY <3>1, <3>4, <3>5 DEF z, e2
  <2>2. QED BY <2>1 DEF Opened
<1>11. Pending(code2, at2, 0, F, Q2)
  BY DEF Pending
<1>12. QED BY <1>1, <1>3, <1>6, <1>9, <1>10, <1>11 DEF Written, F, Q2, e2

\* The jump of the alternative before, filled in.
AltCode(first, fixup) ==
  IF fixup = 0 THEN first ELSE StoreJump(op.jump_past_alt, first, fixup, End(first))
Fixable(code, at, R, f) ==
  f # 0 => /\ f \in at /\ f # Len(code) + 1 /\ code[f] \in Jumps \cup {Hole}
           /\ UpTo(R, f) /\ UpTo(R, Len(code) + 1) /\ Near(f, Len(code) + 1)
AltLinked(code, at, G, R, f, code2) ==
  /\ Good(code2, at, G, R) /\ Len(code2) = Len(code)
  /\ f # 0 => code2[f] = op.jump_past_alt
  /\ \A i \in at : i # f /\ i # Len(code) + 1 =>
       code2[i] = code[i] /\ (code[i] \in Linking => Dest(code2, i) = Dest(code, i))

LEMMA AltFixed ==
  ASSUME NEW code, NEW at, NEW F, NEW R, Good(code, at, F, R), NEW f, Fixable(code, at, R, f),
         NEW G, f = 0 => G = F, f # 0 => F \ {f} \subseteq G,
         G \subseteq at, Len(code) + 1 \notin G
  PROVE  AltLinked(code, at, G, R, f, AltCode(code, f))
<1>1. CASE f = 0
  <2>1. AltCode(code, f) = code /\ G = F
    BY <1>1 DEF AltCode
  <2>2. QED BY <1>1, <2>1 DEF AltLinked
<1>2. CASE f # 0
  <2> DEFINE o == op.jump_past_alt
             to == Len(code) + 1
             code2 == StoreJump(o, code, f, to)
             E == F \ {f}
  <2>1. /\ f \in at /\ f # Len(code) + 1 /\ code[f] \in Jumps \cup {Hole}
        /\ UpTo(R, f) /\ UpTo(R, to) /\ Near(f, to)
    BY <1>2 DEF Fixable
  <2>2. o \in Jumps
    BY DEF Jumps
  <2>3. to \in at /\ Shape(code, at) /\ Len(code) \in Nat /\ at \subseteq 1..to
    BY GoodNumbers
  <2>4. AltCode(code, f) = code2
    BY <1>2 DEF AltCode, End
  <2> HIDE DEF o, code2
  <2>5. Good(code2, at, F \ {f}, R) /\ code2[f] = o /\ Overwritten(code, f, code2)
    <3> HIDE DEF to
    <3>1. QED BY <2>1, <2>2, <2>3, JumpFilled DEF code2
  <2>6. Len(code2) = Len(code)
    BY <2>5 DEF Overwritten
  <2>7. Good(code2, at, G, R)
    <3>1. E \subseteq G /\ Good(code2, at, E, R) /\ Len(code2) + 1 \notin G
      BY <1>2, <2>5, <2>6
    <3> HIDE DEF E
    <3>2. QED BY <3>1, MoreExempt
  <2>8. ASSUME NEW i \in at, i # f, i # Len(code) + 1
        PROVE  code2[i] = code[i] /\ (code[i] \in Linking => Dest(code2, i) = Dest(code, i))
    <3>1. Alike(code, i, code2, i)
      BY <2>1, <2>3, <2>5, <2>8, OthersStay
    <3> DEFINE d == Dest(code, i)
    <3>2. code2[i] = code[i] /\ (code[i] \in Linking => Dest(code2, i) = d + i - i /\ d \in Int)
      BY <2>3, <2>8, <3>1, Instruction DEF Alike
    <3>3. i \in Int
      BY <2>3
    <3> HIDE DEF d
    <3>4. d \in Int => d + i - i = d
      BY <3>3
    <3>5. QED BY <3>2, <3>4 DEF d
  <2>9. QED BY <2>4, <2>5, <2>6, <2>7, <2>8 DEF AltLinked, o
<1>3. QED BY <1>1, <1>2

\* on_failure_jump at the head of the alternative that "|" ends.
AltOpened(code, at, b, F, R, first) ==
  /\ Good(first, Shifted(b, 3, at), F \cup {b}, R) /\ Len(first) = Len(code) + 3
  /\ first[b] = op.on_failure_jump /\ Dest(first, b) = Len(code) + 7
  /\ \A k \in 1..(b - 1) : first[k] = code[k]
  /\ b \in Shifted(b, 3, at) /\ \A i \in at : i < b => i \in Shifted(b, 3, at)

LEMMA AltTried ==
  ASSUME NEW code, NEW at, NEW begalt, NEW fixup, NEW stack, NEW regnum, NEW laststart,
         NEW pending, Written(code, at, begalt, fixup, stack, regnum, laststart, pending),
         Len(code) + 6 <= 32767
  PROVE  AltOpened(code, at, begalt, Fixups(fixup, stack), FrameMarks(stack),
                   InsertJump(op.on_failure_jump, code, begalt, End(code) + 6))
<1> DEFINE F == Fixups(fixup, stack)
           Q == Marks(begalt, laststart, stack)
           R == FrameMarks(stack)
           S == R \cup {begalt}
           b == begalt
           o == op.on_failure_jump
           to == Len(code) + 7
           at1 == Shifted(b, 3, at)
           first == InsertJump(o, code, b, to)
<1>1. /\ Len(code) \in Nat /\ at \subseteq 1..(Len(code) + 1) /\ F \subseteq at /\ Q \subseteq at
      /\ Good(code, at, F, Q) /\ b \in at /\ b \in Q
      /\ \A h \in F : h < b
      /\ \A q \in R : q \in Q /\ q <= b
  <2>1. b \in Q
    BY DEF Marks
  <2>2. QED BY <2>1, WrittenNumbers
<1>2. End(code) + 6 = to /\ to \in Int
  BY <1>1 DEF End
<1>3. S \subseteq Q \cup {Len(code) + 1} /\ b \in S /\ R \subseteq S
  BY <1>1
<1>4. at \subseteq Int
  BY <1>1
<1>5. b \in 1..(Len(code) + 1)
  BY <1>1
<1>6. UpTo(S, b)
  <2>1. ASSUME NEW x \in S
        PROVE  x \in Int /\ x <= b
    <3>1. x = b \/ (x \in Q /\ x <= b)
      BY <1>1
    <3>2. x \in Int /\ b \in Int
      <4>1. x \in at /\ b \in at
        BY <1>1, <3>1
      <4>2. QED BY <1>4, <4>1
    <3> HIDE DEF b
    <3>3. QED BY <3>1, <3>2
  <2>2. QED BY <2>1 DEF UpTo
<1>7. Below(F, b)
  BY <1>1 DEF Below
<1>8. Near(b, to)
  BY <1>1, <1>5 DEF Near
<1>9. o \in Jumps
  BY DEF Jumps
<1> HIDE DEF F, Q, R, S, at1, first, o
<1>10. Good(code, at, F, S)
  <2>1. Good(code, at, F, Q) /\ S \subseteq Q \cup {Len(code) + 1}
    BY <1>1, <1>3
  <2>2. QED BY <2>1, OtherPlaces
<1>11. /\ Good(first, at1, Shifted(b, 3, F), S)
       /\ first[b] = o /\ Dest(first, b) = to
       /\ \A k \in 1..(b - 1) : first[k] = code[k]
       /\ Len(first) = Len(code) + 3 /\ b \in at1
  <2> HIDE DEF b, to
  <2>1. b \in S /\ UpTo(S, b) /\ Near(b, to) /\ to \in Int /\ o \in Jumps
        /\ Good(code, at, F, S)
    BY <1>2, <1>3, <1>6, <1>8, <1>9, <1>10
  <2>2. QED BY <2>1, JumpInserted DEF first, at1
<1>12. Shifted(b, 3, F) = F \cup {b}
  <2>1. b \in Int /\ 3 \in Nat /\ Below(F, b)
    BY <1>5, <1>7
  <2>2. QED BY <2>1, ShiftedBefore
<1>13. Good(first, at1, F \cup {b}, R)
  <2> DEFINE A == Shifted(b, 3, F)
             B == F \cup {b}
  <2>1. A = B /\ Good(first, at1, A, S)
    BY <1>11, <1>12
  <2> HIDE DEF A, B
  <2>2. Good(first, at1, B, S) /\ R \subseteq S \cup {Len(first) + 1}
    BY <1>3, <2>1
  <2>3. Good(first, at1, B, R)
    BY <2>2, OtherPlaces
  <2>4. QED BY <2>3 DEF B
<1>14. ASSUME NEW i \in at, i < b
       PROVE  i \in at1
  <2>1. Shift(b, 3, i) = i
    BY <1>14 DEF Shift
  <2>2. QED BY <2>1, ShiftIn DEF at1
<1>15. AltOpened(code, at, b, F, R, first)
  BY <1>11, <1>13, <1>14 DEF AltOpened, at1, o
<1>16. InsertJump(op.on_failure_jump, code, begalt, End(code) + 6) = first
  BY <1>2 DEF first, o
<1>17. QED BY <1>15, <1>16 DEF F, R

\* The gap behind, and the jump over it.
WithGap(fixed) == fixed \o <<Hole, Hole, Hole>>
GapOpened(fixed, at1, G, R, b, code2) ==
  /\ Good(code2, at1 \cup {Len(code2) + 1}, (G \ {b}) \cup {Len(fixed) + 1}, R)
  /\ Len(code2) = Len(fixed) + 3 /\ code2[Len(fixed) + 1] = Hole
  /\ \A k \in 1..Len(fixed) : code2[k] = fixed[k]

LEMMA GapAppended ==
  ASSUME NEW fixed, NEW at1, NEW G, NEW R, Good(fixed, at1, G, R), NEW b \in at1,
         b # Len(fixed) + 1, fixed[b] = op.on_failure_jump, Dest(fixed, b) = Len(fixed) + 4,
         UpTo(R, b)
  PROVE  GapOpened(fixed, at1, G, R, b, WithGap(fixed))
<1> DEFINE mid == <<Hole, Hole, Hole>>
           code2 == fixed \o mid
           e == Len(fixed) + 1
           to == e + 3
           at2 == at1 \cup {Len(code2) + 1}
           E == G \cup {e}
           S == R \cup {e}
<1>1. /\ Len(fixed) \in Nat /\ at1 \subseteq 1..e /\ Shape(fixed, at1) /\ R \subseteq at1
  BY GoodNumbers
<1>2. OneInstruction(mid) /\ Len(mid) = 3 /\ mid[1] = Hole
  BY GapBytes
<1> HIDE DEF mid, code2
<1>3. Good(code2, at2, E, S)
  BY <1>2, AppendKeeps DEF code2
<1>4. /\ \A k \in 1..Len(fixed) : code2[k] = fixed[k]
      /\ code2[e] = Hole /\ Len(code2) = Len(fixed) + 3
      /\ Insertion(fixed, at1, e, mid, code2)
  <2>1. /\ Insertion(fixed, at1, Len(fixed) + 1, mid, fixed \o mid)
        /\ \A k \in 1..Len(fixed) : (fixed \o mid)[k] = fixed[k]
        /\ \A k \in 1..Len(mid) : (fixed \o mid)[Len(fixed) + k] = mid[k]
        /\ Len(fixed \o mid) = Len(fixed) + Len(mid)
    <3>1. Shape(fixed, at1) /\ OneInstruction(mid)
      BY <1>1, <1>2
    <3>2. QED BY <3>1, AppendIsInsertion
  <2>2. (fixed \o mid)[Len(fixed) + 1] = mid[1]
    BY <1>2, <2>1
  <2>3. QED BY <1>2, <2>1, <2>2 DEF code2
<1>5. b \in 1..Len(fixed)
  BY <1>1
<1>6. Dest(code2, b) = to /\ code2[b] = op.on_failure_jump
  <2>1. Alike(fixed, b, code2, Shift(e, Len(mid), b))
    BY <1>4, OldCarried
  <2>2. Shift(e, Len(mid), b) = b
    <3>1. b < e
      BY <1>1, <1>5
    <3>2. QED BY <3>1 DEF Shift
  <2> DEFINE d == Dest(fixed, b)
  <2>3. fixed[b] \in Linking
    BY DEF Linking, Jumps
  <2>4. code2[b] = fixed[b] /\ Dest(code2, b) = d + b - b
    BY <2>1, <2>2, <2>3 DEF Alike
  <2>5. d = to
    BY <1>1
  <2>6. to + b - b = to
    BY <1>1, <1>5
  <2> HIDE DEF d, to
  <2>7. Dest(code2, b) = to
    BY <2>4, <2>5, <2>6
  <2>8. QED BY <2>4, <2>7
<1>7. to = Len(code2) + 1
  BY <1>1, <1>4
<1>8. Good(code2, at2, E, R)
  <2>1. R \subseteq S \cup {Len(code2) + 1}
    OBVIOUS
  <2> HIDE DEF E, S, at2
  <2>2. QED BY <1>3, <2>1, OtherPlaces
<1>9. UpTo(R, b) /\ UpTo(R, to) /\ to \in at2
  <2>1. b \in Int /\ to \in Int /\ b <= to
    BY <1>1, <1>5
  <2>2. UpTo(R, to)
    <3> HIDE DEF to
    <3>1. QED BY <2>1, UpToMore
  <2>3. QED BY <1>7, <2>2
<1>10. Good(code2, at2, E \ {b}, R)
  <2>1. b \in at2 /\ code2[b] \in Linking /\ code2[b] # op.jump_n /\ code2[b] # op.set_number_at
    <3>1. op.on_failure_jump \in Jumps
      BY DEF Jumps
    <3>2. QED BY <1>6, <3>1, JumpsLink
  <2> HIDE DEF E, at2, to
  <2>2. QED BY <1>6, <1>8, <1>9, <2>1, LinkedBehind
<1>11. E \ {b} = (G \ {b}) \cup {e}
  BY <1>1, <1>5
<1>12. Good(code2, at2, (G \ {b}) \cup {e}, R)
  <2> DEFINE A == E \ {b}
             B == (G \ {b}) \cup {e}
  <2>1. A = B /\ Good(code2, at2, A, R)
    BY <1>10, <1>11
  <2> HIDE DEF A, B
  <2>2. Good(code2, at2, B, R)
    BY <2>1
  <2>3. QED BY <2>2 DEF B
<1>13. QED BY <1>4, <1>12 DEF GapOpened, WithGap, code2, mid

AltParts(code, b, fixup, first, fixed, code2) ==
  /\ first = InsertJump(op.on_failure_jump, code, b, End(code) + 6)
  /\ fixed = AltCode(first, fixup)
  /\ code2 = WithGap(fixed)

AltOpens(stack, regnum, fixed, code2) ==
  \E at2 : Written(code2, at2, Len(code2) + 1, Len(fixed) + 1, stack, regnum, 0, 0)

LEMMA AnotherAlternative ==
  ASSUME NEW code, NEW at, NEW begalt, NEW fixup, NEW stack, NEW regnum, NEW laststart,
         NEW pending, Written(code, at, begalt, fixup, stack, regnum, laststart, pending),
         Len(code) + 6 <= 32767,
         NEW first, NEW fixed, NEW code2, AltParts(code, begalt, fixup, first, fixed, code2)
  PROVE  /\ AltOpens(stack, regnum, fixed, code2)
         /\ Len(code2) \in Nat /\ Len(code) <= Len(code2)
<1> DEFINE F == Fixups(fixup, stack)
           G0 == FrameFixups(stack)
           b == begalt
           G == G0 \cup {b}
           R == FrameMarks(stack)
           e == Len(code) + 1
           at1 == Shifted(b, 3, at)
           gap == Len(fixed) + 1
           at2 == at1 \cup {Len(code2) + 1}
<1>1. /\ Len(code) \in Nat /\ at \subseteq 1..e /\ F \subseteq at /\ b \in at
      /\ \A h \in F : h < b
      /\ fixup # 0 => fixup \in F /\ fixup < b
      /\ \A q \in R : q \in at /\ q <= b /\ (fixup # 0 => q <= fixup)
      /\ G0 \subseteq F /\ e \notin F
  BY WrittenNumbers
<1>2. b \in 1..e /\ (fixup # 0 => fixup \in 1..e)
  <2>1. at \subseteq 1..e /\ b \in at
    BY <1>1
  <2>2. b \in 1..e
    BY <2>1
  <2>3. ASSUME fixup # 0
        PROVE  fixup \in 1..e
    <3>1. fixup \in at
      BY <1>1, <2>3
    <3>2. QED BY <2>1, <3>1
  <2>4. QED BY <2>2, <2>3
<1>3. /\ Good(first, at1, F \cup {b}, R) /\ Len(first) = Len(code) + 3
      /\ first[b] = op.on_failure_jump /\ Dest(first, b) = Len(code) + 7
      /\ \A k \in 1..(b - 1) : first[k] = code[k]
      /\ b \in at1 /\ \A i \in at : i < b => i \in at1
  <2>1. AltOpened(code, at, b, F, R, first)
    <3>1. AltOpened(code, at, begalt, Fixups(fixup, stack), FrameMarks(stack),
                    InsertJump(op.on_failure_jump, code, begalt, End(code) + 6))
      BY AltTried
    <3>2. QED BY <3>1 DEF AltParts
  <2>2. QED BY <2>1 DEF AltOpened
<1>4. ASSUME NEW x \in R
      PROVE  x \in Int /\ x <= b /\ x \in 1..e
  <2>1. x \in at /\ at \subseteq 1..e
    BY <1>1
  <2>2. QED BY <1>1, <2>1
<1>5. UpTo(R, b)
  BY <1>4 DEF UpTo
<1> HIDE DEF F, G0, R, at1
<1>6. Fixable(first, at1, R, fixup)
  <2> SUFFICES ASSUME fixup # 0
               PROVE  /\ fixup \in at1 /\ fixup # Len(first) + 1
                      /\ first[fixup] \in Jumps \cup {Hole}
                      /\ UpTo(R, fixup) /\ UpTo(R, Len(first) + 1)
                      /\ Near(fixup, Len(first) + 1)
    BY DEF Fixable
  <2>1. fixup \in 1..(b - 1) /\ fixup \in at
    BY <1>1, <1>2
  <2>2. fixup \in at1 /\ first[fixup] = code[fixup]
    BY <1>1, <1>3, <2>1
  <2>3. code[fixup] \in Jumps \cup {Hole}
    <3>1. code[fixup] \in {Hole, op.jump_past_alt}
      BY <1>1 DEF Written, Refilled, F
    <3>2. QED BY <3>1 DEF Jumps
  <2>4. UpTo(R, fixup)
    BY <1>1, <1>4 DEF UpTo
  <2> DEFINE a == Len(code)
             c == Len(first) + 1
  <2>5. fixup # c /\ c \in Int /\ b <= c /\ fixup - 0 \in Int
    <3>1. a \in Nat /\ c = a + 3 + 1 /\ b \in 1..(a + 1) /\ fixup \in 1..(a + 1)
      BY <1>1, <1>2, <1>3
    <3> HIDE DEF a, c, b
    <3>2. QED BY <3>1
  <2>6. UpTo(R, c)
    <3>1. b \in Int /\ UpTo(R, b) /\ c \in Int /\ b <= c
      BY <1>2, <1>5, <2>5
    <3> HIDE DEF b, c
    <3>2. QED BY <3>1, UpToMore
  <2>7. Near(fixup, c)
    <3>1. a \in Nat /\ c = a + 3 + 1 /\ fixup \in 1..(a + 1) /\ a + 6 <= 32767
      BY <1>1, <1>2, <1>3
    <3> HIDE DEF a, c
    <3>2. QED BY <3>1 DEF Near
  <2>8. QED BY <2>2, <2>3, <2>4, <2>5, <2>6, <2>7
<1>7. /\ G \subseteq at1 /\ Len(first) + 1 \notin G
      /\ fixup = 0 => G = F \cup {b}
      /\ fixup # 0 => (F \cup {b}) \ {fixup} \subseteq G
  <2>1. ASSUME NEW h \in G
        PROVE  h \in at1 /\ h # Len(first) + 1
    <3>1. CASE h = b
      BY <1>1, <1>2, <1>3, <3>1
    <3>2. CASE h # b
      <4>1. h \in F
        BY <1>1, <3>2
      <4>2. h \in at /\ h < b
        BY <1>1, <4>1
      <4>3. h \in at1
        BY <1>3, <4>2
      <4>4. h \in 1..e
        BY <1>1, <4>2
      <4>5. h # Len(first) + 1
        BY <1>1, <1>3, <4>4
      <4>6. QED BY <4>3, <4>5
    <3>3. QED BY <3>1, <3>2
  <2>2. fixup = 0 => F = G0
    BY DEF F, G0, Fixups
  <2>3. fixup # 0 => F \ {fixup} \subseteq G0
    BY DEF F, G0, Fixups
  <2> HIDE DEF b
  <2>4. QED BY <2>1, <2>2, <2>3
<1>8. AltLinked(first, at1, G, R, fixup, fixed)
  <2> DEFINE E == F \cup {b}
  <2>1. /\ Good(first, at1, E, R) /\ Fixable(first, at1, R, fixup)
        /\ fixup = 0 => G = E
        /\ fixup # 0 => E \ {fixup} \subseteq G
        /\ G \subseteq at1 /\ Len(first) + 1 \notin G
    BY <1>3, <1>6, <1>7
  <2> HIDE DEF E, G
  <2>2. AltLinked(first, at1, G, R, fixup, AltCode(first, fixup))
    BY <2>1, AltFixed
  <2>3. QED BY <2>2 DEF AltParts
<1>9. /\ Good(fixed, at1, G, R) /\ Len(fixed) = Len(code) + 3
      /\ fixup # 0 => fixed[fixup] = op.jump_past_alt
      /\ \A i \in at1 : i # fixup /\ i # Len(first) + 1 => fixed[i] = first[i]
      /\ fixed[b] = op.on_failure_jump /\ Dest(fixed, b) = Len(code) + 7
      /\ b # Len(fixed) + 1
  <2>1. b # fixup
    <3>1. CASE fixup = 0
      BY <1>2, <3>1
    <3>2. CASE fixup # 0
      BY <1>1, <1>2, <3>2
    <3>3. QED BY <3>1, <3>2
  <2>2. b # Len(first) + 1
    BY <1>1, <1>2, <1>3
  <2>3. op.on_failure_jump \in Linking
    BY DEF Linking, Jumps
  <2>4. fixed[b] = first[b] /\ Dest(fixed, b) = Dest(first, b)
    BY <1>3, <1>8, <2>1, <2>2, <2>3 DEF AltLinked
  <2>5. Len(fixed) = Len(first)
    BY <1>8 DEF AltLinked
  <2>6. QED BY <1>3, <1>8, <2>2, <2>4, <2>5 DEF AltLinked
<1>10. GapOpened(fixed, at1, G, R, b, code2)
  <2>1. Dest(fixed, b) = Len(fixed) + 4
    BY <1>1, <1>9
  <2>2. GapOpened(fixed, at1, G, R, b, WithGap(fixed))
    <3> HIDE DEF G, b
    <3>1. /\ Good(fixed, at1, G, R) /\ b \in at1 /\ b # Len(fixed) + 1
          /\ fixed[b] = op.on_failure_jump /\ UpTo(R, b)
      BY <1>3, <1>5, <1>9
    <3>2. QED BY <2>1, <3>1, GapAppended
  <2>3. QED BY <2>2 DEF AltParts
<1>11. /\ Good(code2, at2, (G \ {b}) \cup {gap}, R)
       /\ Len(code2) = Len(fixed) + 3 /\ code2[gap] = Hole
       /\ \A k \in 1..Len(fixed) : code2[k] = fixed[k]
  BY <1>10 DEF GapOpened
<1>12. (G \ {b}) \cup {gap} = Fixups(gap, stack)
  <2>1. b \notin G0
    <3>1. b \in G0 => b < b
      BY <1>1
    <3>2. b \in Int
      BY <1>2
    <3>3. ~(b < b)
      BY <3>2
    <3>4. QED BY <3>1, <3>3
  <2>2. gap # 0
    BY <1>1, <1>9
  <2> HIDE DEF gap, b
  <2>3. QED BY <2>1, <2>2 DEF Fixups, G0
<1>13. Good(code2, at2, Fixups(gap, stack), FrameMarks(stack))
  <2> DEFINE A == (G \ {b}) \cup {gap}
             B == Fixups(gap, stack)
  <2>1. A = B /\ Good(code2, at2, A, R)
    BY <1>11, <1>12
  <2> HIDE DEF A, B
  <2>2. Good(code2, at2, B, R)
    BY <2>1
  <2>3. QED BY <2>2 DEF B, R
<1>14. gap \in Nat /\ Len(code) < gap /\ Len(code2) = gap + 2
  BY <1>1, <1>9, <1>11
<1>15. ASSUME NEW i \in at, i # fixup, i < b
       PROVE  code2[i] = code[i]
  <2>1. i \in 1..(b - 1) /\ i \in at1 /\ i \in 1..Len(fixed) /\ i # Len(first) + 1
    <3>1. i \in 1..e
      BY <1>1
    <3>2. QED BY <1>1, <1>2, <1>3, <1>9, <1>15, <3>1
  <2>2. QED BY <1>3, <1>9, <1>11, <1>15, <2>1
<1>16. fixup # 0 => code2[fixup] = op.jump_past_alt
  <2>1. CASE fixup = 0
    BY <2>1
  <2>2. CASE fixup # 0
    <3>1. fixup \in 1..Len(fixed)
      BY <1>1, <1>2, <1>9, <2>2
    <3>2. QED BY <1>9, <1>11, <2>2, <3>1
  <2>3. QED BY <2>1, <2>2
<1> HIDE DEF gap, at2
<1>17. Written(code2, at2, Len(code2) + 1, gap, stack, regnum, 0, 0)
  <2>1. /\ Good(code2, at2, Fixups(gap, stack), FrameMarks(stack)) /\ code2[gap] = Hole
        /\ \A i \in at : i # fixup /\ i < begalt => code2[i] = code[i]
        /\ gap \in Nat /\ Len(code) < gap /\ Len(code2) = gap + 2
    BY <1>11, <1>13, <1>14, <1>15
  <2>2. QED BY <1>16, <2>1, NextAlternative
<1>18. Len(code2) \in Nat /\ Len(code) <= Len(code2)
  BY <1>1, <1>9, <1>11
<1>19. AltOpens(stack, regnum, fixed, code2)
  <2>1. Written(code2, at2, Len(code2) + 1, Len(fixed) + 1, stack, regnum, 0, 0)
    BY <1>17 DEF gap
  <2>2. QED BY <2>1 DEF AltOpens
<1>20. QED BY <1>18, <1>19

===============================================================================
