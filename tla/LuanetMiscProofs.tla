-------------------------- MODULE LuanetMiscProofs --------------------------
(***************************************************************************)
(* Theorems about luanet.misc and the SHA1 object inside it.               *)
(*                                                                         *)
(* The first part is about the object, for every size of block, octet and  *)
(* word, every initial value and every compression: its type, the count of *)
(* its two length words up to their overflow, the reasons it is corrupted  *)
(* for, and that what Result() returns, however often it is asked, is the  *)
(* digest of the message that was fed in.                                  *)
(*                                                                         *)
(* The second is about what the calls answer, for every width of an int    *)
(* and of rand(), every directory and every string.  random() and          *)
(* listdir() answer in one step, so that their invariants are arithmetic   *)
(* and lists; sha1() takes many, and what links the string to              *)
(* its answer is HashInv, with the invariants of the object.               *)
(***************************************************************************)
EXTENDS LuanetMisc, SequenceTheorems, TLAPS

(***************************************************************************)
(* The products of naturals the counting of octets rests on.               *)
(***************************************************************************)
LEMMA NextMultiple ==
    ASSUME NEW a \in Nat, NEW k \in Nat
    PROVE  (a + 1) * k = a * k + k /\ a * k \in Nat
  OBVIOUS

LEMMA RemainderInRange ==
    ASSUME NEW n \in Nat, NEW k \in Nat \ {0}
    PROVE  n % k \in 0..(k - 1)
  OBVIOUS

LEMMA WholeHasNoRemainder ==
    ASSUME NEW k \in Nat \ {0}
    PROVE  k % k = 0
  OBVIOUS

LEMMA MultiplesInOrder ==
    ASSUME NEW a \in Nat, NEW b \in Nat, a < b, NEW k \in Nat
    PROVE  a * k + k <= b * k
  <1> DEFINE d == b - (a + 1)
  <1>1. d \in Nat /\ b = (a + 1) + d
    OBVIOUS
  <1>2. d * k \in Nat
    BY <1>1, NextMultiple
  <1>3. b * k = (a + 1) * k + d * k
    BY <1>1
  <1>4. (a + 1) * k = a * k + k
    BY NextMultiple
  <1> HIDE DEF d
  <1>5. QED BY <1>2, <1>3, <1>4, NextMultiple

LEMMA RemainderOfSum ==
    ASSUME NEW a \in Nat, NEW b \in Nat, NEW k \in Nat \ {0}
    PROVE  (a * k + b) % k = b % k
  <1> DEFINE q == b \div k
             x == a * k
             y == q * k
  <1>1. q \in Nat /\ x \in Nat /\ y \in Nat
    BY NextMultiple
  <1>2. (x + b) \div k = a + q
    OBVIOUS
  <1>3. b % k = b - y /\ b % k \in Nat
    BY <1>1
  <1>4. (a + q) * k = x + y
    BY <1>1
  <1>5. (x + b) % k = (x + b) - (a + q) * k
    BY <1>1, <1>2
  <1> HIDE DEF q, x, y
  <1>6. (x + b) % k = b % k
    BY <1>1, <1>3, <1>4, <1>5
  <1>7. QED BY <1>6 DEF x

LEMMA QuotientOfSum ==
    ASSUME NEW a \in Nat, NEW b \in Nat, NEW k \in Nat \ {0}
    PROVE  (a * k + b) \div k = a + b \div k
  OBVIOUS

LEMMA QuotientByProduct ==
    ASSUME NEW a \in Nat, NEW b \in Nat \ {0}, NEW c \in Nat \ {0}
    PROVE  a \div (b * c) = (a \div b) \div c
  OBVIOUS

LEMMA SmallRemainder ==
    ASSUME NEW n \in Nat, NEW k \in Nat \ {0}, n < k
    PROVE  n % k = n
  OBVIOUS

-----------------------------------------------------------------------------
(***************************************************************************)
(* An Input() runs only on an object that is neither computed nor          *)
(* corrupted, so what it takes is never late.                              *)
(***************************************************************************)
Running == rest # <<>> => ~Computed /\ ~Corrupted

TypeInv == TypeOK /\ Running

\* Recursion with the two recursive functions of Sha1 as its instances: the
\* powers of OCTET, and what a text's first n blocks compress to, for every text
\* at once.
Powers == INSTANCE Recursion WITH Base <- 1, Step <- LAMBDA power, n : OCTET * power
Chains == INSTANCE Recursion WITH
              Base <- [octets \in Seq(Octets) |-> IV],
              Step <- LAMBDA after, n : [octets \in Seq(Octets) |->
                                         Compress(after[octets], Block(octets, n))]

LEMMA PowerStep ==
    /\ Power[0] = 1
    /\ \A n \in Nat : Power[n + 1] = OCTET * Power[n]
  <1>1. Power = Powers!Values
    BY DEF Power, Powers!Values
  <1>2. Power = [n \in Nat |-> IF n = 0 THEN 1 ELSE OCTET * Power[n - 1]]
    BY <1>1, Powers!FollowsEquation
  <1>3. QED BY <1>2

LEMMA PowerType == \A n \in Nat : Power[n] \in Nat \ {0}
  <1> DEFINE S == {n \in Nat : Power[n] \in Nat \ {0}}
  <1>1. 0 \in S
    BY PowerStep
  <1>2. ASSUME NEW n \in Nat, n \in S
        PROVE  n + 1 \in S
    <2>1. OCTET * Power[n] \in Nat \ {0}
      <3>1. OCTET \in Nat \ {0} /\ Power[n] \in Nat \ {0}
        BY <1>2, SizesAssumption
      <3>2. QED BY <3>1
    <2>2. QED BY <2>1, PowerStep
  <1>3. Nat \subseteq S
    <2> HIDE DEF S
    <2>1. QED BY <1>1, <1>2, Powers!ByInduction
  <1>4. QED BY <1>3

LEMMA OctetIsOctet ==
    ASSUME NEW word \in Nat, NEW n \in 0..(WordOctets - 1)
    PROVE  Octet(word, n) \in Octets
  <1>1. WordOctets \in Int
    BY SizesAssumption DEF WordOctets
  <1>2. PICK power \in Nat \ {0} : power = Power[WordOctets - 1 - n]
    <2>1. WordOctets - 1 - n \in Nat
      BY <1>1
    <2>2. QED BY <2>1, PowerType
  <1>3. word \div power \in Nat
    BY <1>2
  <1>4. QED BY <1>2, <1>3, SizesAssumption DEF Octet, Octets

LEMMA LengthOctetIsOctet ==
    ASSUME TypeOK, NEW n \in 0..(LENGTH - 1)
    PROVE  LengthOctet(n) \in Octets
  <1>1. WordOctets \in Int
    BY SizesAssumption DEF WordOctets
  <1>2. Length_High \in Nat /\ Length_Low \in Nat
    BY SizesAssumption DEF TypeOK
  <1>3. CASE n < WordOctets
    BY <1>1, <1>2, <1>3, OctetIsOctet DEF LengthOctet
  <1>4. CASE ~(n < WordOctets)
    <2>1. n - WordOctets \in 0..(WordOctets - 1)
      BY <1>1, <1>4, SizesAssumption
    <2>2. QED BY <1>2, <1>4, <2>1, OctetIsOctet DEF LengthOctet
  <1>5. QED BY <1>3, <1>4

LEMMA TypeInitial == Init => TypeInv
  <1> SUFFICES ASSUME Init
               PROVE  TypeInv
    OBVIOUS
  <1>1. Message_Block \in [Positions -> Octets]
    BY DEF Init
  <1>2. 0 \in 0..(WORD - 1) /\ 0 \in Positions
    BY SizesAssumption DEF Positions
  <1>3. <<>> \in Seq(Octets)
    OBVIOUS
  <1>4. QED BY <1>1, <1>2, <1>3 DEF Init, TypeInv, TypeOK, Running

LEMMA TypeInput ==
    ASSUME TypeInv, NEW array \in Seq(Octets), Input(array)
    PROVE  TypeInv'
  <1>1. TypeOK'
    BY DEF TypeInv, TypeOK, Input, lengths, block
  <1>2. Running'
    BY DEF TypeInv, Running, Input
  <1>3. QED BY <1>1, <1>2 DEF TypeInv

LEMMA TypeInsert ==
    ASSUME TypeInv, NEW array \in Seq(Octets), Insert(array)
    PROVE  TypeInv'
  <1>1. PICK n \in 0..Len(array) : Input(SubSeq(array, 1, n))
    BY DEF Insert
  <1>2. SubSeq(array, 1, n) \in Seq(Octets)
    OBVIOUS
  <1>3. QED BY <1>1, <1>2, TypeInput

LEMMA TypeInputOctet ==
    ASSUME TypeInv, InputOctet
    PROVE  TypeInv'
  <1> USE DEF TypeInv, TypeOK
  <1>1. Head(rest) \in Octets /\ Tail(rest) \in Seq(Octets)
    BY DEF InputOctet, Idle
  <1>2. Length_Low' \in 0..(WORD - 1) /\ Length_High' \in 0..(WORD - 1)
    <2>1. ASSUME NEW n \in Nat
          PROVE  n % WORD \in 0..(WORD - 1)
      BY SizesAssumption, RemainderInRange
    <2>2. Length_Low + OCTET_BITS \in Nat /\ Length_High + 1 \in Nat
      BY SizesAssumption
    <2>3. NextLow \in 0..(WORD - 1)
      BY <2>1, <2>2 DEF NextLow
    <2>4. NextHigh \in 0..(WORD - 1)
      BY <2>1, <2>2 DEF NextHigh
    <2>5. QED BY <2>3, <2>4 DEF InputOctet
  <1>3. Message_Block' \in [Positions -> Octets]
    BY <1>1 DEF InputOctet
  <1>4. Message_Block_Index' \in Positions
    BY SizesAssumption DEF InputOctet, Positions
  <1>5. rest' \in Seq(Octets) /\ message' \in Seq(Octets)
    BY <1>1 DEF InputOctet
  <1>6. Computed' \in BOOLEAN /\ Corrupted' \in BOOLEAN /\ late' \in BOOLEAN
    BY DEF InputOctet, TooLong
  <1>7. Running'
    BY DEF InputOctet, Running, Idle
  <1>8. QED BY <1>2, <1>3, <1>4, <1>5, <1>6, <1>7

LEMMA TypeResult ==
    ASSUME TypeInv, Result
    PROVE  TypeInv'
  <1>1. Message_Block' \in [Positions -> Octets]
    <2>1. CASE Computed
      BY <2>1 DEF TypeInv, TypeOK, Result, block
    <2>2. CASE ~Computed
      <3>1. 0 \in Octets /\ OCTET \div 2 \in Octets
        BY SizesAssumption DEF Octets
      <3>2. Marked(LengthAt) \in [Positions -> Octets]
        BY <3>1 DEF Marked, TypeInv, TypeOK
      <3>3. ASSUME NEW b \in [Positions -> Octets]
            PROVE  WithLength(b) \in [Positions -> Octets]
        <4>1. ASSUME NEW p \in Positions, ~(p < LengthAt)
              PROVE  p - LengthAt \in 0..(LENGTH - 1)
          BY <4>1, SizesAssumption DEF Positions, LengthAt
        <4>2. \A p \in Positions : ~(p < LengthAt) =>
                LengthOctet(p - LengthAt) \in Octets
          BY <4>1, LengthOctetIsOctet DEF TypeInv
        <4>3. QED BY <4>2 DEF WithLength
      <3>4. [p \in Positions |-> 0] \in [Positions -> Octets]
        BY <3>1
      <3>5. QED BY <2>2, <3>2, <3>3, <3>4 DEF Result, PadMessage
    <2>3. QED BY <2>1, <2>2 DEF TypeInv, TypeOK
  <1>2. Message_Block_Index' \in Positions
    BY SizesAssumption DEF TypeInv, TypeOK, Result, PadMessage, block, Positions
  <1>3. QED BY <1>1, <1>2 DEF TypeInv, TypeOK, Running, Result, Idle, lengths

LEMMA TypeStep == TypeInv /\ [Next]_vars => TypeInv'
  <1> SUFFICES ASSUME TypeInv, [Next]_vars
               PROVE  TypeInv'
    OBVIOUS
  <1>1. CASE Reset
    <2>1. 0 \in 0..(WORD - 1) /\ 0 \in Positions
      BY SizesAssumption DEF Positions
    <2>2. <<>> \in Seq(Octets)
      OBVIOUS
    <2>3. QED BY <1>1, <2>1, <2>2 DEF Reset, TypeInv, TypeOK, Running, Idle
  <1>2. ASSUME NEW array \in Arrays, Input(array) \/ Insert(array)
        PROVE  TypeInv'
    BY <1>2, ArraysAssumption, TypeInput, TypeInsert
  <1>3. CASE InputOctet
    BY <1>3, TypeInputOctet
  <1>4. CASE Result
    BY <1>4, TypeResult
  <1>5. CASE UNCHANGED vars
    BY <1>5 DEF vars, lengths, block, history, TypeInv, TypeOK, Running
  <1>6. QED BY <1>1, <1>2, <1>3, <1>4, <1>5 DEF Next, ResultFails

(***************************************************************************)
(* The members keep their types and the index stays inside the block, for  *)
(* every order of Input(), operator<<, Result() and Reset().               *)
(***************************************************************************)
THEOREM TypeCorrect == Spec => []TypeOK
  <1>1. TypeInv => TypeOK
    BY DEF TypeInv
  <1>2. QED BY <1>1, TypeInitial, TypeStep, PTL DEF Spec

-----------------------------------------------------------------------------
(***************************************************************************)
(* The two words count the octets of the message until it has Full of      *)
(* them; from then on the object is corrupted and the message stays.       *)
(***************************************************************************)
Full == Len(message) = WORD * OctetsPerWord

CountIs(low) ==
    /\ Length_Low = OCTET_BITS * low
    /\ \/ Len(message) = Length_High * OctetsPerWord + low
       \/ Full /\ Length_High = 0 /\ low = 0

LengthInv ==
    /\ \E low \in 0..(OctetsPerWord - 1) : CountIs(low)
    /\ Corrupted <=> (late \/ Full)

\* What is counted in octets is counted in bits.
LEMMA MessageFits ==
    ASSUME TypeOK, LengthInv
    PROVE  Len(message) <= WORD * OctetsPerWord
  <1>1. PICK low \in 0..(OctetsPerWord - 1) : CountIs(low)
    BY DEF LengthInv
  <1>2. CASE Len(message) = Length_High * OctetsPerWord + low
    <2>1. Length_High * OctetsPerWord + OctetsPerWord <= WORD * OctetsPerWord
      BY MultiplesInOrder, SizesAssumption DEF TypeOK
    <2>2. Length_High * OctetsPerWord \in Nat /\ WORD * OctetsPerWord \in Nat
      BY NextMultiple, SizesAssumption DEF TypeOK
    <2>3. QED BY <1>2, <2>1, <2>2, SizesAssumption
  <1>3. CASE Full
    <2>1. WORD * OctetsPerWord \in Nat
      BY NextMultiple, SizesAssumption
    <2>2. QED BY <1>3, <2>1 DEF Full
  <1>4. QED BY <1>1, <1>2, <1>3 DEF CountIs

LEMMA FullInBits ==
    ASSUME TypeOK, LengthInv
    PROVE  Bits >= WORD * WORD <=> Full
  <1> DEFINE k == OctetsPerWord
  <1>1. /\ WORD * k \in Nat /\ Len(message) \in Nat
        /\ OCTET_BITS \in Nat \ {0}
    BY NextMultiple, SizesAssumption DEF TypeOK
  <1>2. WORD * WORD = (WORD * k) * OCTET_BITS
    BY SizesAssumption
  <1>3. Bits = Len(message) * OCTET_BITS
    BY <1>1 DEF Bits
  <1>4. Len(message) <= WORD * k
    BY MessageFits
  <1>5. CASE Full
    <2>1. Bits = WORD * WORD
      BY <1>2, <1>3, <1>5 DEF Full
    <2>2. WORD * WORD \in Nat
      BY NextMultiple, SizesAssumption
    <2>3. QED BY <1>5, <2>1, <2>2
  <1>6. CASE ~Full
    <2>1. Len(message) < WORD * k
      BY <1>1, <1>4, <1>6 DEF Full
    <2>2. Len(message) * OCTET_BITS + OCTET_BITS <= (WORD * k) * OCTET_BITS
      BY <1>1, <2>1, MultiplesInOrder
    <2>3. Len(message) * OCTET_BITS \in Nat /\ (WORD * k) * OCTET_BITS \in Nat
      BY <1>1, NextMultiple
    <2>4. Bits < WORD * WORD
      BY <1>1, <1>2, <1>3, <2>2, <2>3
    <2>5. QED BY <1>2, <1>3, <1>6, <2>3, <2>4
  <1>7. QED BY <1>5, <1>6

LEMMA LengthInitial == Init => LengthInv
  <1> SUFFICES ASSUME Init
               PROVE  LengthInv
    OBVIOUS
  <1>1. Len(message) = 0 /\ ~late /\ ~Corrupted
    BY DEF Init
  <1>2. WORD * OctetsPerWord > 0
    BY MultiplesInOrder, NextMultiple, SizesAssumption
  <1>3. CountIs(0)
    BY <1>1, SizesAssumption DEF Init, CountIs
  <1>4. QED BY <1>1, <1>2, <1>3, SizesAssumption DEF LengthInv, Full

\* One octet more: the low word counts on, or its carry does, or both are full.
LEMMA LengthInputOctet ==
    ASSUME TypeInv, LengthInv, InputOctet
    PROVE  LengthInv'
  <1> DEFINE k == OctetsPerWord
             n == Len(message)
  <1>1. ~Corrupted /\ ~late /\ ~Full
    BY DEF InputOctet, Idle, TypeInv, Running, LengthInv
  <1>2. PICK low \in 0..(k - 1) :
          Length_Low = OCTET_BITS * low /\ n = Length_High * k + low
    BY <1>1 DEF LengthInv, CountIs
  <1>3. k \in Nat \ {0} /\ OCTET_BITS \in Nat \ {0} /\ WORD \in Nat \ {0}
    BY SizesAssumption
  <1>4. Length_High \in 0..(WORD - 1) /\ Length_High * k \in Nat /\ WORD * k \in Nat
    BY <1>3, NextMultiple DEF TypeInv, TypeOK
  <1>5. Length_High * k + k <= WORD * k
    BY <1>3, <1>4, MultiplesInOrder
  <1>6. Len(message') = n + 1 /\ n \in Nat
    BY DEF InputOctet, TypeInv, TypeOK
  <1>7. Length_Low + OCTET_BITS = (low + 1) * OCTET_BITS /\ k * OCTET_BITS = WORD
    BY <1>2, <1>3, SizesAssumption
  <1>8. Full' <=> n + 1 = WORD * k
    BY <1>6 DEF Full
  <1>9. late' = late /\ Corrupted' = TooLong
    BY <1>1 DEF InputOctet, TooLong
  <1> HIDE DEF k, n
  <1>10. CASE low + 1 < k
    <2>1. (low + 1) * OCTET_BITS + OCTET_BITS <= k * OCTET_BITS
      BY <1>3, <1>10, MultiplesInOrder
    <2>2. (low + 1) * OCTET_BITS \in 1..(WORD - 1)
      BY <1>3, <1>7, <2>1, NextMultiple
    <2>3. NextLow = (low + 1) * OCTET_BITS /\ NextLow # 0
      BY <1>3, <1>7, <2>2 DEF NextLow
    <2>4. Length_Low' = (low + 1) * OCTET_BITS /\ Length_High' = Length_High /\ ~TooLong
      BY <2>3 DEF InputOctet, NextHigh, TooLong
    <2>5. ~Full'
      BY <1>2, <1>3, <1>4, <1>5, <1>8, <1>10
    <2>6. CountIs(low + 1)'
      <3>1. Length_Low' = OCTET_BITS * (low + 1)
        BY <1>3, <2>4
      <3>2. Len(message') = Length_High' * k + (low + 1)
        BY <1>2, <1>3, <1>4, <1>6, <2>4
      <3>3. QED BY <3>1, <3>2 DEF CountIs, k
    <2>7. QED BY <1>1, <1>3, <1>9, <1>10, <2>4, <2>5, <2>6 DEF LengthInv, k
  <1>11. CASE ~(low + 1 < k)
    <2>1. low + 1 = k
      BY <1>3, <1>11
    <2>2. NextLow = 0
      <3>1. Length_Low + OCTET_BITS = WORD
        BY <1>7, <2>1
      <3>2. WORD % WORD = 0
        BY <1>3, WholeHasNoRemainder
      <3>3. QED BY <3>1, <3>2 DEF NextLow
    <2>3. n + 1 = Length_High * k + k /\ n + 1 = (Length_High + 1) * k
      BY <1>2, <1>3, <1>4, <2>1, NextMultiple
    <2>4. CASE Length_High + 1 < WORD
      <3>1. (Length_High + 1) * k + k <= WORD * k
        BY <1>3, <1>4, <2>4, MultiplesInOrder
      <3>2. ~Full'
        BY <1>3, <1>4, <1>6, <1>8, <2>3, <3>1
      <3>3. NextHigh = Length_High + 1
        BY <1>3, <1>4, <2>2, <2>4 DEF NextHigh
      <3>4. Length_Low' = 0 /\ Length_High' = Length_High + 1 /\ ~TooLong
        BY <1>4, <2>2, <3>3 DEF InputOctet, TooLong
      <3>5. CountIs(0)'
        BY <1>3, <1>4, <1>6, <2>3, <3>4 DEF CountIs, k
      <3>6. QED BY <1>1, <1>3, <1>9, <3>2, <3>4, <3>5 DEF LengthInv, k
    <2>5. CASE ~(Length_High + 1 < WORD)
      <3>1. Length_High + 1 = WORD
        BY <1>3, <1>4, <2>5
      <3>2. NextHigh = 0 /\ TooLong
        BY <1>3, <2>2, <3>1 DEF NextHigh, TooLong
      <3>3. Full' /\ Length_Low' = 0 /\ Length_High' = 0
        BY <1>8, <2>2, <2>3, <3>1, <3>2 DEF InputOctet
      <3>4. CountIs(0)'
        BY <1>3, <3>3 DEF CountIs
      <3>5. QED BY <1>3, <1>9, <3>2, <3>3, <3>4 DEF LengthInv, k
    <2>6. QED BY <2>4, <2>5
  <1>12. QED BY <1>10, <1>11

LEMMA LengthKept ==
    ASSUME LengthInv, UNCHANGED <<lengths, Corrupted, message, late>>
    PROVE  LengthInv'
  BY DEF LengthInv, CountIs, Full, lengths

LEMMA LengthInput ==
    ASSUME LengthInv, NEW array, Input(array)
    PROVE  LengthInv'
  <1>1. Corrupted' <=> (late' \/ Full)
    BY DEF Input, LengthInv
  <1>2. QED BY <1>1 DEF Input, lengths, LengthInv, CountIs, Full

LEMMA LengthStep == TypeInv /\ LengthInv /\ [Next]_vars => LengthInv'
  <1> SUFFICES ASSUME TypeInv, LengthInv, [Next]_vars
               PROVE  LengthInv'
    OBVIOUS
  <1>1. CASE Reset
    <2>1. Len(message') = 0 /\ ~late' /\ ~Corrupted'
      BY <1>1 DEF Reset
    <2>2. WORD * OctetsPerWord > 0
      BY MultiplesInOrder, NextMultiple, SizesAssumption
    <2>3. CountIs(0)'
      BY <1>1, <2>1, SizesAssumption DEF Reset, CountIs
    <2>4. QED BY <2>1, <2>2, <2>3, SizesAssumption DEF LengthInv, Full
  <1>2. ASSUME NEW array \in Seq(Octets), Input(array)
        PROVE  LengthInv'
    BY <1>2, LengthInput
  <1>3. ASSUME NEW array \in Seq(Octets), Insert(array)
        PROVE  LengthInv'
    <2>1. PICK n \in 0..Len(array) : Input(SubSeq(array, 1, n))
      BY <1>3 DEF Insert
    <2>2. SubSeq(array, 1, n) \in Seq(Octets)
      OBVIOUS
    <2>3. QED BY <1>2, <2>1, <2>2
  <1>4. CASE InputOctet
    BY <1>4, LengthInputOctet
  <1>5. CASE Result
    BY <1>5, LengthKept DEF Result
  <1>6. CASE UNCHANGED vars
    BY <1>6, LengthKept DEF vars, history
  <1>7. QED BY <1>1, <1>2, <1>3, <1>4, <1>5, <1>6, ArraysAssumption
            DEF Next, ResultFails

LEMMA LengthInvariant == Spec => [](TypeOK /\ LengthInv)
  <1>1. TypeInv => TypeOK
    BY DEF TypeInv
  <1>2. QED BY <1>1, TypeInitial, TypeStep, LengthInitial, LengthStep, PTL DEF Spec

(***************************************************************************)
(* An object is corrupted exactly when something came too late for it or   *)
(* its message has overflowed both length words: the carries of Input()    *)
(* miss no overflow and see none that is not there.                        *)
(***************************************************************************)
THEOREM CorruptedOnlyForAReason == Spec => []CorruptedForAReason
  <1>1. TypeOK /\ LengthInv => CorruptedForAReason
    BY FullInBits DEF LengthInv, CorruptedForAReason
  <1>2. QED BY <1>1, LengthInvariant, PTL

\* Until they overflow, the two words are the bits of the message.
LEMMA CountOfLength ==
    ASSUME TypeOK, LengthInv, ~Full
    PROVE  Length_High * WORD + Length_Low = Bits
  <1>1. PICK low \in 0..(OctetsPerWord - 1) :
          /\ Length_Low = OCTET_BITS * low
          /\ Len(message) = Length_High * OctetsPerWord + low
    BY DEF LengthInv, CountIs
  <1>2. /\ OctetsPerWord \in Nat /\ OCTET_BITS \in Nat /\ Length_High \in Nat
        /\ WORD = OCTET_BITS * OctetsPerWord
    BY SizesAssumption DEF TypeOK
  <1>3. Bits = OCTET_BITS * (Length_High * OctetsPerWord + low)
    BY <1>1 DEF Bits
  <1>4. OCTET_BITS * (Length_High * OctetsPerWord + low)
          = Length_High * (OCTET_BITS * OctetsPerWord) + OCTET_BITS * low
    BY <1>2
  <1>5. QED BY <1>1, <1>2, <1>3, <1>4

(***************************************************************************)
(* What PadMessage() appends as the length is the length of the message.   *)
(***************************************************************************)
THEOREM LengthIsCounted == Spec => []LengthIsOfTheMessage
  <1>1. ASSUME TypeOK, LengthInv, Bits < WORD * WORD
        PROVE  Length_High * WORD + Length_Low = Bits
    <2>1. Bits \in Int /\ WORD * WORD \in Int
      BY SizesAssumption DEF TypeOK, Bits
    <2>2. ~Full
      BY <1>1, <2>1, FullInBits
    <2>3. QED BY <1>1, <2>2, CountOfLength
  <1>2. TypeOK /\ LengthInv => LengthIsOfTheMessage
    BY <1>1 DEF LengthIsOfTheMessage
  <1>3. QED BY <1>2, LengthInvariant, PTL

-----------------------------------------------------------------------------
\* The blocks of a text are compressed one after another.
LEMMA ChainStep ==
    ASSUME NEW octets \in Seq(Octets)
    PROVE  /\ Chain(octets)[0] = IV
           /\ \A n \in Nat : Chain(octets)[n + 1]
                                = Compress(Chain(octets)[n], Block(octets, n + 1))
  <1> DEFINE Follows(f) ==
               f = [n \in Nat |-> IF n = 0 THEN IV
                                  ELSE Compress(f[n - 1], Block(octets, n))]
             V == Chains!Values
             g == [n \in Nat |-> V[n][octets]]
  <1>1. V = [n \in Nat |->
               IF n = 0 THEN [text \in Seq(Octets) |-> IV]
               ELSE [text \in Seq(Octets) |-> Compress(V[n - 1][text], Block(text, n))]]
    BY Chains!FollowsEquation
  <1> HIDE DEF V
  <1>2. ASSUME NEW n \in Nat
        PROVE  g[n] = IF n = 0 THEN IV ELSE Compress(g[n - 1], Block(octets, n))
    <2>1. CASE n = 0
      <3>1. V[0] = [text \in Seq(Octets) |-> IV]
        BY <1>1
      <3>2. QED BY <2>1, <3>1
    <2>2. CASE n # 0
      <3>1. V[n] = [text \in Seq(Octets) |-> Compress(V[n - 1][text], Block(text, n))]
        BY <1>1, <2>2
      <3>2. g[n] = V[n][octets] /\ g[n - 1] = V[n - 1][octets]
        BY <2>2
      <3>3. V[n][octets] = Compress(V[n - 1][octets], Block(octets, n))
        BY <3>1
      <3>4. QED BY <2>2, <3>2, <3>3
    <2>3. QED BY <2>1, <2>2
  <1>3. Follows(g)
    <2> DEFINE h == [n \in Nat |-> IF n = 0 THEN IV
                                   ELSE Compress(g[n - 1], Block(octets, n))]
    <2>1. \A n \in Nat : g[n] = h[n]
      BY <1>2
    <2>2. g = h
      BY <2>1
    <2>3. QED BY <2>2
  <1>4. Chain(octets) = CHOOSE f : Follows(f)
    BY DEF Chain
  <1>5. Follows(Chain(octets))
    <2> HIDE DEF g, Follows
    <2>1. QED BY <1>3, <1>4
  <1>6. QED
    <2> DEFINE c == Chain(octets)
    <2>1. c = [n \in Nat |-> IF n = 0 THEN IV ELSE Compress(c[n - 1], Block(octets, n))]
      BY <1>5
    <2> HIDE DEF c
    <2>2. c[0] = IV
      BY <2>1
    <2>3. ASSUME NEW n \in Nat
          PROVE  c[n + 1] = Compress(c[n], Block(octets, n + 1))
      <3>1. n + 1 \in Nat /\ n + 1 # 0 /\ (n + 1) - 1 = n
        OBVIOUS
      <3>2. QED BY <2>1, <3>1
    <2>4. QED BY <2>2, <2>3 DEF c

\* Two texts that begin with the same blocks compress them to the same.
LEMMA BlocksAgree ==
    ASSUME NEW one \in Seq(Octets), NEW other \in Seq(Octets), NEW n \in Nat,
           \A i \in 1..((n + 1) * BLOCK) : one[i] = other[i]
    PROVE  Block(one, n + 1) = Block(other, n + 1)
  <1>1. BLOCK \in Nat /\ n * BLOCK \in Nat /\ (n + 1) * BLOCK = n * BLOCK + BLOCK
    BY SizesAssumption, NextMultiple
  <1>2. ASSUME NEW p \in Positions
        PROVE  ((n + 1) - 1) * BLOCK + p + 1 \in 1..((n + 1) * BLOCK)
    BY <1>1 DEF Positions
  <1>3. \A p \in Positions : one[((n + 1) - 1) * BLOCK + p + 1] = other[((n + 1) - 1) * BLOCK + p + 1]
    BY <1>2
  <1>4. QED BY <1>3 DEF Block

LEMMA ChainsAgree ==
    ASSUME NEW one \in Seq(Octets), NEW other \in Seq(Octets), NEW n \in Nat,
           \A i \in 1..(n * BLOCK) : one[i] = other[i]
    PROVE  Chain(one)[n] = Chain(other)[n]
  <1> DEFINE S == {k \in Nat : k <= n => Chain(one)[k] = Chain(other)[k]}
  <1>1. 0 \in S
    BY ChainStep
  <1>2. ASSUME NEW k \in Nat, k \in S
        PROVE  k + 1 \in S
    <2>1. CASE k + 1 <= n
      <3>1. (k + 1) * BLOCK <= n * BLOCK /\ (k + 1) * BLOCK \in Nat /\ n * BLOCK \in Nat
        <4>1. k < n /\ BLOCK \in Nat
          BY <2>1, SizesAssumption
        <4>2. k * BLOCK + BLOCK <= n * BLOCK /\ k * BLOCK \in Nat
          BY <4>1, MultiplesInOrder, NextMultiple
        <4>3. QED BY <4>1, <4>2, NextMultiple
      <3>2. \A i \in 1..((k + 1) * BLOCK) : one[i] = other[i]
        BY <3>1
      <3>3. Block(one, k + 1) = Block(other, k + 1)
        BY <3>2, BlocksAgree
      <3>4. Chain(one)[k] = Chain(other)[k]
        BY <1>2, <2>1
      <3>5. QED BY <3>3, <3>4, ChainStep
    <2>2. QED BY <2>1
  <1>3. Nat \subseteq S
    <2> HIDE DEF S
    <2>1. QED BY <1>1, <1>2, Powers!ByInduction
  <1>4. QED BY <1>3
LEMMA PowerOfSum ==
    ASSUME NEW a \in Nat, NEW b \in Nat
    PROVE  Power[a + b] = Power[a] * Power[b]
  <1> DEFINE S == {n \in Nat : Power[a + n] = Power[a] * Power[n]}
  <1>1. 0 \in S
    <2>1. a + 0 = a /\ Power[a] \in Nat
      BY PowerType
    <2>2. QED BY <2>1, PowerStep
  <1>2. ASSUME NEW n \in Nat, n \in S
        PROVE  n + 1 \in S
    <2>1. a + (n + 1) = (a + n) + 1 /\ a + n \in Nat
      OBVIOUS
    <2>2. Power[a + (n + 1)] = OCTET * Power[a + n] /\ Power[n + 1] = OCTET * Power[n]
      BY <2>1, PowerStep
    <2>3. Power[a + n] = Power[a] * Power[n]
      BY <1>2
    <2>4. \A x, y \in Nat : OCTET * (x * y) = x * (OCTET * y)
      BY SizesAssumption
    <2>5. Power[a] \in Nat /\ Power[n] \in Nat
      BY PowerType
    <2>6. OCTET * (Power[a] * Power[n]) = Power[a] * (OCTET * Power[n])
      BY <2>4, <2>5
    <2>7. Power[a + (n + 1)] = Power[a] * Power[n + 1]
      BY <2>2, <2>3, <2>6
    <2>8. QED BY <2>7
  <1>3. Nat \subseteq S
    <2> HIDE DEF S
    <2>1. QED BY <1>1, <1>2, Powers!ByInduction
  <1>4. QED BY <1>3

\* A word holds every value of the octets it is made of: 2^32 = 256^4.
WordsAreFull == WORD = Power[WordOctets]

\* The octets of the two words are those of the number the words make.
LEMMA LengthOctetOfBits ==
    ASSUME WordsAreFull, TypeOK, NEW n \in 0..(LENGTH - 1)
    PROVE  LengthOctet(n)
             = ((Length_High * WORD + Length_Low) \div Power[(LENGTH - 1) - n]) % OCTET
  <1> DEFINE w == WordOctets
             e == (LENGTH - 1) - n
             sum == Length_High * WORD + Length_Low
  <1>1. w \in Nat /\ LENGTH = 2 * w /\ OCTET \in Nat \ {0} /\ WORD \in Nat \ {0}
    BY SizesAssumption DEF WordOctets
  <1>2. Length_High \in Nat /\ Length_Low \in 0..(WORD - 1) /\ sum \in Nat
    <2>1. Length_High \in Nat /\ Length_Low \in 0..(WORD - 1)
      BY <1>1 DEF TypeOK
    <2>2. QED BY <2>1, <1>1, NextMultiple
  <1> HIDE DEF sum
  <1>3. CASE n < w
    <2> DEFINE m == (w - 1) - n
    <2>1. m \in Nat /\ e = w + m /\ (w - 1) - n = m
      BY <1>1, <1>3
    <2>2. Power[e] = WORD * Power[m] /\ Power[m] \in Nat \ {0}
      BY <1>1, <2>1, PowerOfSum, PowerType DEF WordsAreFull
    <2>3. sum \div WORD = Length_High
      <3>1. Length_Low \div WORD = 0
        BY <1>1, <1>2
      <3>2. QED BY <1>1, <1>2, <3>1, QuotientOfSum DEF sum
    <2> HIDE DEF m, e
    <2>4. sum \div Power[e] = Length_High \div Power[m]
      BY <1>1, <1>2, <2>2, <2>3, QuotientByProduct
    <2>5. LengthOctet(n) = (Length_High \div Power[m]) % OCTET
      BY <1>3, <2>1 DEF LengthOctet, Octet
    <2>6. QED BY <2>4, <2>5 DEF e, sum
  <1>4. CASE ~(n < w)
    <2> DEFINE k == e
               j == (w - k) - 1
    <2>1. k \in Nat /\ j \in Nat /\ w = (j + 1) + k /\ (w - 1) - (n - w) = k
      BY <1>1, <1>4
    <2> HIDE DEF k, j
    <2>2. WORD = (OCTET * Power[j]) * Power[k]
      BY <2>1, PowerOfSum, PowerStep DEF WordsAreFull
    <2>3. Power[j] \in Nat /\ Power[k] \in Nat \ {0} /\ OCTET * Power[j] \in Nat
      BY <1>1, <2>1, PowerType, NextMultiple
    <2> DEFINE x == OCTET * Power[j]
               hx == Length_High * x
    <2>4. sum = hx * Power[k] + Length_Low
      <3>1. \A a, b, c \in Nat : a * (b * c) = (a * b) * c
        OBVIOUS
      <3>2. Length_High * WORD = hx * Power[k]
        BY <1>2, <2>2, <2>3, <3>1
      <3>3. QED BY <3>2 DEF sum
    <2>5. hx = (Length_High * Power[j]) * OCTET /\ Length_High * Power[j] \in Nat
      <3>1. \A a, b, c \in Nat : a * (b * c) = (a * c) * b
        OBVIOUS
      <3>2. QED BY <1>1, <1>2, <2>3, <3>1, NextMultiple
    <2>6. hx \in Nat
      BY <1>1, <2>5, NextMultiple
    <2> HIDE DEF x, hx
    <2>7. sum \div Power[k] = hx + Length_Low \div Power[k] /\ Length_Low \div Power[k] \in Nat
      <3>1. Length_Low \in Nat
        BY <1>1, <1>2
      <3>2. \A a \in Nat, b \in Nat \ {0} : a \div b \in Nat
        OBVIOUS
      <3>3. QED BY <2>3, <2>4, <2>6, <3>1, <3>2, QuotientOfSum
    <2>8. (hx + Length_Low \div Power[k]) % OCTET = (Length_Low \div Power[k]) % OCTET
      BY <1>1, <2>5, <2>7, RemainderOfSum
    <2>9. LengthOctet(n) = (Length_Low \div Power[k]) % OCTET
      BY <1>4, <2>1 DEF LengthOctet, Octet
    <2>10. QED BY <2>7, <2>8, <2>9 DEF k, e, sum
  <1>5. QED BY <1>3, <1>4
-----------------------------------------------------------------------------
(***************************************************************************)
(* An object that is not computed has compressed the first q blocks of its *)
(* message and holds the rest of it in its own block.                      *)
(***************************************************************************)
Filled(q) ==
    /\ Len(message) = q * BLOCK + Message_Block_Index
    /\ H = Chain(message)[q]
    /\ \A p \in 0..(Message_Block_Index - 1) :
          Message_Block[p] = message[q * BLOCK + p + 1]

\* The padded message ends with the block that is being filled when the length
\* has room in it, and with the next one otherwise.
LEMMA SizeOfPadded ==
    ASSUME TypeOK, NEW q \in Nat, Filled(q)
    PROVE  /\ q * BLOCK \in Nat /\ Zeros(message) \in Nat
           /\ HasRoom => Len(message) + 1 + Zeros(message) + LENGTH = q * BLOCK + BLOCK
           /\ ~HasRoom => Len(message) + 1 + Zeros(message) + LENGTH
                            = (q * BLOCK + BLOCK) + BLOCK
  <1> DEFINE i == Message_Block_Index
             more == i + 1 + LENGTH
             qb == q * BLOCK
  <1>1. /\ BLOCK \in Nat \ {0} /\ LENGTH \in Nat \ {0} /\ LENGTH < BLOCK
        /\ i \in 0..(BLOCK - 1) /\ qb \in Nat /\ more \in Nat
    BY SizesAssumption, NextMultiple DEF TypeOK, Positions
  <1>2. HasRoom <=> more <= BLOCK
    BY <1>1 DEF HasRoom, LengthAt
  <1>3. (Len(message) + 1 + LENGTH) % BLOCK = more % BLOCK
    <2>1. Len(message) + 1 + LENGTH = qb + more
      BY <1>1 DEF Filled
    <2>2. (qb + more) % BLOCK = more % BLOCK
      BY <1>1, RemainderOfSum
    <2>3. QED BY <2>1, <2>2
  <1>4. Zeros(message) = (BLOCK - (more % BLOCK)) % BLOCK
    BY <1>3 DEF Zeros
  <1> HIDE DEF more, qb
  <1>5. CASE more < BLOCK
    <2>1. more % BLOCK = more
      BY <1>1, <1>5
    <2>2. BLOCK - more \in Nat /\ BLOCK - more < BLOCK
      BY <1>1, <1>5 DEF more
    <2>3. Zeros(message) = BLOCK - more
      BY <1>1, <1>4, <2>1, <2>2, SmallRemainder
    <2>4. Len(message) = qb + i
      BY DEF Filled, qb
    <2>5. QED BY <1>1, <1>2, <1>5, <2>2, <2>3, <2>4 DEF more, qb
  <1>6. CASE more = BLOCK
    <2>1. Zeros(message) = 0
      <3>1. BLOCK % BLOCK = 0 /\ BLOCK - 0 = BLOCK
        BY <1>1, WholeHasNoRemainder
      <3>2. QED BY <1>4, <1>6, <3>1
    <2>2. Len(message) = qb + i
      BY DEF Filled, qb
    <2>3. QED BY <1>1, <1>2, <1>6, <2>1, <2>2 DEF more, qb
  <1>7. CASE more > BLOCK
    <2> DEFINE r == more - BLOCK
    <2>1. r \in 1..(BLOCK - 1) /\ more = 1 * BLOCK + r
      BY <1>1, <1>7 DEF more
    <2>2. more % BLOCK = r
      <3>1. (1 * BLOCK + r) % BLOCK = r % BLOCK
        BY <1>1, <2>1, RemainderOfSum
      <3>2. r % BLOCK = r
        BY <1>1, <2>1, SmallRemainder
      <3>3. QED BY <2>1, <3>1, <3>2
    <2>3. BLOCK - r \in Nat /\ BLOCK - r < BLOCK
      BY <1>1, <2>1
    <2> HIDE DEF r
    <2>4. Zeros(message) = BLOCK - r
      BY <1>1, <1>4, <2>2, <2>3, SmallRemainder
    <2>5. Len(message) = qb + i
      BY DEF Filled, qb
    <2>6. QED BY <1>1, <1>2, <1>7, <2>1, <2>3, <2>4, <2>5 DEF more, qb
  <1>8. QED BY <1>1, <1>5, <1>6, <1>7

LEMMA PaddedType ==
    ASSUME TypeOK, NEW q \in Nat, Filled(q)
    PROVE  /\ Padded(message) \in Seq(Octets)
           /\ Len(Padded(message)) = Len(message) + 1 + Zeros(message) + LENGTH
           /\ \A j \in 1..Len(message) : Padded(message)[j] = message[j]
  <1> DEFINE size == Len(message) + 1 + Zeros(message) + LENGTH
             octet(j) == IF j <= Len(message) THEN message[j]
                         ELSE IF j = Len(message) + 1 THEN OCTET \div 2
                         ELSE IF j <= size - LENGTH THEN 0
                         ELSE ((OCTET_BITS * Len(message)) \div Power[size - j]) % OCTET
  <1>1. /\ size \in Nat /\ OCTET \in Nat \ {0} /\ OCTET_BITS \in Nat /\ LENGTH \in Nat
        /\ Len(message) \in Nat /\ OCTET > 1 /\ Zeros(message) \in Nat
    BY SizesAssumption, SizeOfPadded DEF TypeOK
  <1>2. Padded(message) = [j \in 1..size |-> octet(j)]
    BY DEF Padded
  <1>3. ASSUME NEW j \in 1..size
        PROVE  octet(j) \in Octets
    <2>1. CASE j <= Len(message)
      <3>1. message[j] \in Octets
        BY <1>1, <2>1 DEF TypeOK
      <3>2. QED BY <2>1, <3>1
    <2>2. OCTET \div 2 \in Octets /\ 0 \in Octets
      BY <1>1 DEF Octets
    <2>3. (OCTET_BITS * Len(message)) \div Power[size - j] \in Nat
      <3>1. OCTET_BITS * Len(message) \in Nat
        BY <1>1, NextMultiple
      <3>2. size - j \in Nat
        BY <1>1
      <3>3. Power[size - j] \in Nat \ {0}
        BY <3>2, PowerType
      <3>4. \A a \in Nat, b \in Nat \ {0} : a \div b \in Nat
        OBVIOUS
      <3>5. QED BY <3>1, <3>3, <3>4
    <2>4. ((OCTET_BITS * Len(message)) \div Power[size - j]) % OCTET \in Octets
      BY <1>1, <2>3, RemainderInRange DEF Octets
    <2>5. QED BY <2>1, <2>2, <2>4
  <1> HIDE DEF octet, size
  <1>4. Padded(message) \in Seq(Octets) /\ Len(Padded(message)) = size
    BY <1>1, <1>2, <1>3
  <1>5. ASSUME NEW j \in 1..Len(message)
        PROVE  Padded(message)[j] = message[j]
    <2>1. j \in 1..size /\ j <= Len(message)
      BY <1>1 DEF size
    <2>2. Padded(message)[j] = octet(j)
      BY <1>2, <2>1
    <2>3. QED BY <2>1, <2>2 DEF octet
  <1>6. QED BY <1>4, <1>5 DEF size
\* What a block of the padded message holds, seen from where the message ends.
LEMMA PaddedOctet ==
    ASSUME WordsAreFull, TypeOK, NEW q \in Nat, Filled(q),
           Length_High * WORD + Length_Low = Bits,
           NEW j \in 1..(Len(message) + 1 + Zeros(message) + LENGTH),
           NEW size, size = Len(message) + 1 + Zeros(message) + LENGTH
    PROVE  /\ j <= Len(message) => Padded(message)[j] = message[j]
           /\ j = Len(message) + 1 => Padded(message)[j] = OCTET \div 2
           /\ Len(message) + 1 < j /\ j <= size - LENGTH => Padded(message)[j] = 0
           /\ j > size - LENGTH =>
                Padded(message)[j] = LengthOctet((j - 1) - (size - LENGTH))
  <1>1. /\ Len(message) \in Nat /\ Zeros(message) \in Nat
        /\ LENGTH \in Nat \ {0} /\ size \in Nat /\ j \in 1..size
    BY SizesAssumption, SizeOfPadded DEF TypeOK
  <1>2. Padded(message)[j] = IF j <= Len(message) THEN message[j]
                             ELSE IF j = Len(message) + 1 THEN OCTET \div 2
                             ELSE IF j <= size - LENGTH THEN 0
                             ELSE (Bits \div Power[size - j]) % OCTET
    BY DEF Padded, Bits
  <1>3. ASSUME j > size - LENGTH
        PROVE  (Bits \div Power[size - j]) % OCTET
                 = LengthOctet((j - 1) - (size - LENGTH))
    <2> DEFINE n == (j - 1) - (size - LENGTH)
    <2>1. n \in 0..(LENGTH - 1) /\ (LENGTH - 1) - n = size - j
      <3>1. ASSUME NEW s \in Nat, NEW l \in Nat, NEW k \in 1..s, k > s - l
            PROVE  /\ (k - 1) - (s - l) \in 0..(l - 1)
                   /\ (l - 1) - ((k - 1) - (s - l)) = s - k
        BY <3>1
      <3>2. QED BY <1>1, <1>3, <3>1
    <2> HIDE DEF n
    <2>2. LengthOctet(n) = (Bits \div Power[(LENGTH - 1) - n]) % OCTET
      BY <2>1, LengthOctetOfBits
    <2>3. QED BY <2>1, <2>2 DEF n
  <1>4. QED BY <1>1, <1>2, <1>3

LEMMA BlockOfNext ==
    ASSUME NEW octets, NEW q \in Nat
    PROVE  Block(octets, q + 1) = [p \in Positions |-> octets[q * BLOCK + p + 1]]
  <1>1. (q + 1) - 1 = q
    OBVIOUS
  <1>2. QED BY <1>1 DEF Block

\* What PadMessage() makes of the block is the end of the padded message.
LEMMA LastBlockWithRoom ==
    ASSUME WordsAreFull, TypeOK, NEW q \in Nat, Filled(q), HasRoom,
           Length_High * WORD + Length_Low = Bits
    PROVE  Block(Padded(message), q + 1) = WithLength(Marked(LengthAt))
  <1> DEFINE qb == q * BLOCK
             size == Len(message) + 1 + Zeros(message) + LENGTH
             i == Message_Block_Index
             b == WithLength(Marked(LengthAt))
  <1>1. /\ qb \in Nat /\ size = qb + BLOCK /\ Len(message) = qb + i
        /\ BLOCK \in Nat \ {0} /\ LENGTH \in Nat \ {0} /\ LENGTH < BLOCK
        /\ i \in 0..(BLOCK - 1) /\ LengthAt = BLOCK - LENGTH /\ i <= LengthAt - 1
    <2>1. qb \in Nat /\ size = qb + BLOCK
      BY SizeOfPadded
    <2>2. Len(message) = qb + i /\ i <= LengthAt - 1
      BY DEF Filled, HasRoom
    <2>3. QED BY <2>1, <2>2, SizesAssumption, SMTT(30) DEF TypeOK, Positions, LengthAt
  <1>2. ASSUME NEW p \in Positions
        PROVE  Padded(message)[qb + p + 1] = b[p]
    <2>1. /\ p \in 0..(BLOCK - 1) /\ qb + p + 1 \in 1..size
          /\ (qb + p + 1 - 1) - (size - LENGTH) = p - LengthAt
          /\ qb + p + 1 <= Len(message) <=> p < i
          /\ qb + p + 1 = Len(message) + 1 <=> p = i
          /\ qb + p + 1 <= size - LENGTH <=> p < LengthAt
      <3> HIDE DEF size
      <3>1. QED BY <1>1 DEF Positions
    <2>2. b[p] = IF p < LengthAt
                 THEN IF p = i THEN OCTET \div 2
                      ELSE IF p > i THEN 0 ELSE Message_Block[p]
                 ELSE LengthOctet(p - LengthAt)
      BY DEF WithLength, Marked
    <2>3. p < i => Message_Block[p] = message[qb + p + 1]
      BY <2>1, <1>1 DEF Filled
    <2> DEFINE j == qb + p + 1
    <2>4. /\ j <= Len(message) => Padded(message)[j] = message[j]
          /\ j = Len(message) + 1 => Padded(message)[j] = OCTET \div 2
          /\ Len(message) + 1 < j /\ j <= size - LENGTH => Padded(message)[j] = 0
          /\ j > size - LENGTH =>
               Padded(message)[j] = LengthOctet((j - 1) - (size - LENGTH))
      BY <2>1, PaddedOctet
    <2> HIDE DEF b, size, qb
    <2>5. QED BY <1>1, <2>1, <2>2, <2>3, <2>4
  <1>3. b = [p \in Positions |-> b[p]]
    BY DEF WithLength
  <1> HIDE DEF b
  <1>4. Block(Padded(message), q + 1) = [p \in Positions |-> Padded(message)[qb + p + 1]]
    BY BlockOfNext
  <1>5. QED BY <1>2, <1>3, <1>4 DEF b

LEMMA BlocksWithoutRoom ==
    ASSUME WordsAreFull, TypeOK, NEW q \in Nat, Filled(q), ~HasRoom,
           Length_High * WORD + Length_Low = Bits
    PROVE  /\ Block(Padded(message), q + 1) = Marked(BLOCK)
           /\ Block(Padded(message), (q + 1) + 1) = WithLength([p \in Positions |-> 0])
  <1> DEFINE qb == q * BLOCK
             size == Len(message) + 1 + Zeros(message) + LENGTH
             i == Message_Block_Index
             b == Marked(BLOCK)
             c == WithLength([p \in Positions |-> 0])
  <1>1. /\ qb \in Nat /\ size = (qb + BLOCK) + BLOCK /\ Len(message) = qb + i
        /\ BLOCK \in Nat \ {0} /\ LENGTH \in Nat \ {0} /\ LENGTH < BLOCK
        /\ i \in 0..(BLOCK - 1) /\ LengthAt = BLOCK - LENGTH
    <2>1. qb \in Nat /\ size = (qb + BLOCK) + BLOCK
      BY SizeOfPadded
    <2>2. Len(message) = qb + i
      BY DEF Filled
    <2>3. QED BY <2>1, <2>2, SizesAssumption DEF TypeOK, Positions, LengthAt
  <1>2. ASSUME NEW p \in Positions
        PROVE  Padded(message)[qb + p + 1] = b[p]
    <2>1. /\ p \in 0..(BLOCK - 1) /\ qb + p + 1 \in 1..size
          /\ qb + p + 1 <= Len(message) <=> p < i
          /\ qb + p + 1 = Len(message) + 1 <=> p = i
          /\ qb + p + 1 <= size - LENGTH
      <3> HIDE DEF size
      <3>1. QED BY <1>1 DEF Positions
    <2>2. b[p] = IF p = i THEN OCTET \div 2
                 ELSE IF p > i THEN 0 ELSE Message_Block[p]
      BY <2>1, <1>1 DEF Marked
    <2>3. p < i => Message_Block[p] = message[qb + p + 1]
      BY <2>1, <1>1 DEF Filled
    <2> DEFINE j == qb + p + 1
    <2>4. /\ j <= Len(message) => Padded(message)[j] = message[j]
          /\ j = Len(message) + 1 => Padded(message)[j] = OCTET \div 2
          /\ Len(message) + 1 < j /\ j <= size - LENGTH => Padded(message)[j] = 0
      BY <2>1, PaddedOctet
    <2> HIDE DEF b, size, qb
    <2>5. QED BY <1>1, <2>1, <2>2, <2>3, <2>4
  <1>3. (q + 1) * BLOCK = qb + BLOCK
    BY <1>1, NextMultiple
  <1>4. ASSUME NEW p \in Positions
        PROVE  Padded(message)[(q + 1) * BLOCK + p + 1] = c[p]
    <2> DEFINE j == (q + 1) * BLOCK + p + 1
    <2>1. /\ p \in 0..(BLOCK - 1) /\ j \in 1..size
          /\ (j - 1) - (size - LENGTH) = p - LengthAt
          /\ ~(j <= Len(message)) /\ Len(message) + 1 < j
          /\ j <= size - LENGTH <=> p < LengthAt
      <3> HIDE DEF size
      <3>1. QED BY <1>1, <1>3 DEF Positions
    <2>2. c[p] = IF p < LengthAt THEN 0 ELSE LengthOctet(p - LengthAt)
      BY DEF WithLength
    <2>3. /\ Len(message) + 1 < j /\ j <= size - LENGTH => Padded(message)[j] = 0
          /\ j > size - LENGTH =>
               Padded(message)[j] = LengthOctet((j - 1) - (size - LENGTH))
      BY <2>1, PaddedOctet
    <2> HIDE DEF c, size, j
    <2>4. size - LENGTH \in Int /\ j \in Int
      BY <1>1, <2>1 DEF size
    <2>5. Padded(message)[j] = c[p]
      BY <2>1, <2>2, <2>3, <2>4
    <2>6. QED BY <2>5 DEF j
  <1>5. b = [p \in Positions |-> b[p]] /\ c = [p \in Positions |-> c[p]]
    BY DEF WithLength, Marked
  <1> HIDE DEF b, c
  <1>6. /\ Block(Padded(message), q + 1)
             = [p \in Positions |-> Padded(message)[qb + p + 1]]
        /\ Block(Padded(message), (q + 1) + 1)
             = [p \in Positions |-> Padded(message)[(q + 1) * BLOCK + p + 1]]
    <2>1. q + 1 \in Nat
      OBVIOUS
    <2>2. QED BY <2>1, BlockOfNext
  <1>7. QED BY <1>2, <1>4, <1>5, <1>6 DEF b, c
LEMMA PaddedIsTheDigest ==
    ASSUME WordsAreFull, TypeOK, LengthInv, ~Corrupted, PadMessage,
           NEW q \in Nat, Filled(q)
    PROVE  H' = Reference
  <1> DEFINE P == Padded(message)
  <1>1. Length_High * WORD + Length_Low = Bits
    BY CountOfLength DEF LengthInv
  <1>2. /\ P \in Seq(Octets) /\ q * BLOCK \in Nat /\ BLOCK \in Nat \ {0}
        /\ q + 1 \in Nat /\ (q + 1) * BLOCK = q * BLOCK + BLOCK
        /\ ((q + 1) + 1) * BLOCK = (q * BLOCK + BLOCK) + BLOCK
    BY PaddedType, SizesAssumption, NextMultiple
  <1>3. Chain(P)[q] = H
    <2>1. \A j \in 1..Len(message) : P[j] = message[j]
      BY PaddedType
    <2>2. q * BLOCK <= Len(message) /\ Len(message) \in Nat
      BY <1>2 DEF Filled, TypeOK, Positions
    <2>3. message \in Seq(Octets)
      BY DEF TypeOK
    <2> HIDE DEF P
    <2>4. \A j \in 1..(q * BLOCK) : P[j] = message[j]
      BY <1>2, <2>1, <2>2
    <2>5. Chain(P)[q] = Chain(message)[q]
      BY <1>2, <2>3, <2>4, ChainsAgree
    <2>6. QED BY <2>5 DEF Filled
  <1>4. \A n \in Nat : Chain(P)[n + 1] = Compress(Chain(P)[n], Block(P, n + 1))
    BY <1>2, ChainStep
  <1>5. \A n \in Nat : Len(P) = n * BLOCK => Reference = Chain(P)[n]
    <2>1. ASSUME NEW n \in Nat
          PROVE  (n * BLOCK) \div BLOCK = n
      BY SizesAssumption
    <2>2. QED BY <2>1 DEF Reference, DigestOf
  <1>6. CASE HasRoom
    <2>1. Block(P, q + 1) = WithLength(Marked(LengthAt))
      BY <1>1, <1>6, LastBlockWithRoom
    <2>2. Len(P) = (q + 1) * BLOCK
      BY <1>2, <1>6, PaddedType, SizeOfPadded
    <2>3. H' = Compress(H, WithLength(Marked(LengthAt)))
      BY <1>6 DEF PadMessage
    <2> HIDE DEF P
    <2>4. Reference = Chain(P)[q + 1]
      BY <1>2, <1>5, <2>2
    <2>5. QED BY <1>3, <1>4, <2>1, <2>3, <2>4
  <1>7. CASE ~HasRoom
    <2>1. /\ Block(P, q + 1) = Marked(BLOCK)
          /\ Block(P, (q + 1) + 1) = WithLength([p \in Positions |-> 0])
      BY <1>1, <1>7, BlocksWithoutRoom
    <2>2. Len(P) = ((q + 1) + 1) * BLOCK
      BY <1>2, <1>7, PaddedType, SizeOfPadded
    <2>3. H' = Compress(Compress(H, Marked(BLOCK)), WithLength([p \in Positions |-> 0]))
      BY <1>7 DEF PadMessage
    <2> HIDE DEF P
    <2>4. Reference = Chain(P)[(q + 1) + 1]
      BY <1>2, <1>5, <2>2
    <2>5. Chain(P)[q + 1] = Compress(H, Marked(BLOCK))
      BY <1>3, <1>4, <2>1
    <2>6. QED BY <1>2, <1>4, <2>1, <2>3, <2>4, <2>5
  <1>8. QED BY <1>6, <1>7

\* The inductive invariant: before the digest a message is part compressed, part
\* in the block; afterwards H is the digest and is what was returned.
DigestInv ==
    /\ ~Computed => \E q \in Nat : Filled(q)
    /\ Computed => H = Reference
    /\ \A digest \in returned : Computed /\ digest = H

LEMMA DigestBegins ==
    ASSUME H = IV, Message_Block_Index = 0, message = <<>>, ~Computed, returned = {}
    PROVE  DigestInv
  <1>1. Chain(<<>>)[0] = IV
    <2>1. <<>> \in Seq(Octets)
      OBVIOUS
    <2>2. QED BY <2>1, ChainStep
  <1>2. 0 * BLOCK = 0
    BY SizesAssumption
  <1>3. Filled(0)
    BY <1>1, <1>2 DEF Filled
  <1>4. QED BY <1>3 DEF DigestInv

LEMMA DigestKept ==
    ASSUME DigestInv, UNCHANGED <<H, block, Computed, message, returned>>
    PROVE  DigestInv'
  BY DEF DigestInv, Filled, Reference, DigestOf, block

LEMMA DigestInputOctet ==
    ASSUME TypeInv, DigestInv, InputOctet
    PROVE  DigestInv'
  <1> DEFINE i == Message_Block_Index
             x == Head(rest)
             filled == [Message_Block EXCEPT ![i] = x]
  <1>1. ~Computed /\ ~Computed' /\ rest # <<>> /\ returned' = returned
    BY DEF InputOctet, Idle, TypeInv, Running
  <1>2. PICK q \in Nat : Filled(q)
    BY <1>1 DEF DigestInv
  <1>3. /\ message \in Seq(Octets) /\ x \in Octets /\ message' = Append(message, x)
        /\ BLOCK \in Nat \ {0} /\ i \in 0..(BLOCK - 1)
        /\ Message_Block \in [Positions -> Octets] /\ q * BLOCK \in Nat
        /\ Positions = 0..(BLOCK - 1)
    BY <1>1, SizesAssumption, NextMultiple
       DEF InputOctet, TypeInv, TypeOK, Positions
  <1>4. /\ message' \in Seq(Octets) /\ Len(message') = q * BLOCK + i + 1
        /\ \A j \in 1..(q * BLOCK + i) : message'[j] = message[j]
        /\ message'[q * BLOCK + i + 1] = x
    BY <1>2, <1>3 DEF Filled
  <1>5. Chain(message')[q] = H
    <2>1. \A j \in 1..(q * BLOCK) : message'[j] = message[j]
      BY <1>3, <1>4
    <2>2. Chain(message')[q] = Chain(message)[q]
      BY <1>3, <1>4, <2>1, ChainsAgree
    <2>3. QED BY <1>2, <2>2 DEF Filled
  <1>6. \A p \in 0..i : filled[p] = message'[q * BLOCK + p + 1]
    <2>1. ASSUME NEW p \in 0..(i - 1)
          PROVE  filled[p] = message'[q * BLOCK + p + 1]
      <3>1. q * BLOCK + p + 1 \in 1..(q * BLOCK + i)
        BY <1>3
      <3>2. filled[p] = Message_Block[p]
        BY <1>3
      <3>3. QED BY <1>2, <1>4, <3>1, <3>2 DEF Filled
    <2>2. filled[i] = x
      BY <1>3
    <2>3. filled[i] = message'[q * BLOCK + i + 1]
      BY <1>4, <2>2
    <2>4. \A p \in 0..i : p \in 0..(i - 1) \/ p = i
      BY <1>3
    <2> HIDE DEF filled
    <2>5. QED BY <2>1, <2>3, <2>4
  <1>7. Message_Block' = filled
    BY DEF InputOctet
  <1>8. CASE i + 1 = BLOCK
    <2>1. H' = Compress(H, filled) /\ Message_Block_Index' = 0
      BY <1>8 DEF InputOctet
    <2>2. Block(message', q + 1) = filled
      <3>1. \A p \in Positions : message'[q * BLOCK + p + 1] = filled[p]
        <4>1. Positions = 0..i
          BY <1>3, <1>8
        <4> HIDE DEF filled
        <4>2. QED BY <1>6, <4>1
      <3>2. filled = [p \in Positions |-> filled[p]]
        BY <1>3
      <3> HIDE DEF filled
      <3>3. QED BY <3>1, <3>2, BlockOfNext
    <2>3. Chain(message')[q + 1] = Compress(Chain(message')[q], Block(message', q + 1))
      BY <1>4, ChainStep
    <2>4. Len(message') = (q + 1) * BLOCK + 0
      BY <1>3, <1>4, <1>8, NextMultiple
    <2>5. Filled(q + 1)'
      BY <1>5, <2>1, <2>2, <2>3, <2>4 DEF Filled
    <2>6. QED BY <1>1, <2>5 DEF DigestInv
  <1>9. CASE i + 1 # BLOCK
    <2>1. H' = H /\ Message_Block_Index' = i + 1
      BY <1>9 DEF InputOctet
    <2>2. \A p \in 0..(Message_Block_Index' - 1) :
              Message_Block'[p] = message'[q * BLOCK + p + 1]
      <3>1. Message_Block_Index' - 1 = i
        BY <1>3, <2>1
      <3> HIDE DEF filled
      <3>2. QED BY <1>6, <1>7, <3>1
    <2>3. Len(message') = q * BLOCK + Message_Block_Index'
      BY <1>3, <1>4, <2>1
    <2>4. Filled(q)'
      BY <1>5, <2>1, <2>2, <2>3 DEF Filled
    <2>5. QED BY <1>1, <2>4 DEF DigestInv
  <1>10. QED BY <1>8, <1>9

LEMMA DigestResult ==
    ASSUME WordsAreFull, TypeInv, LengthInv, DigestInv, Result
    PROVE  DigestInv'
  <1>1. /\ ~Corrupted /\ Computed' = TRUE /\ message' = message
        /\ returned' = returned \cup {H'}
    BY DEF Result, history
  <1>2. Reference' = Reference
    BY <1>1 DEF Reference, DigestOf
  <1>3. CASE Computed
    BY <1>1, <1>2, <1>3 DEF Result, DigestInv
  <1>4. CASE ~Computed
    <2>1. PICK q \in Nat : Filled(q)
      BY <1>4 DEF DigestInv
    <2>2. H' = Reference
      BY <1>1, <1>4, <2>1, PaddedIsTheDigest DEF Result, TypeInv
    <2>3. returned = {}
      BY <1>4 DEF DigestInv
    <2>4. QED BY <1>1, <1>2, <2>2, <2>3 DEF DigestInv
  <1>5. QED BY <1>3, <1>4 DEF TypeInv, TypeOK

LEMMA DigestStep ==
    ASSUME WordsAreFull, TypeInv, LengthInv, DigestInv, [Next]_vars
    PROVE  DigestInv'
  <1>1. CASE Reset
    <2>1. /\ H' = IV /\ Message_Block_Index' = 0 /\ message' = <<>>
          /\ ~Computed' /\ returned' = {}
      BY <1>1 DEF Reset
    <2>2. Filled(0)'
      <3>1. Chain(<<>>)[0] = IV
        <4>1. <<>> \in Seq(Octets)
          OBVIOUS
        <4>2. QED BY <4>1, ChainStep
      <3>2. 0 * BLOCK = 0
        BY SizesAssumption
      <3>3. QED BY <2>1, <3>1, <3>2 DEF Filled
    <2>3. QED BY <2>1, <2>2 DEF DigestInv
  <1>2. ASSUME NEW array, Input(array)
        PROVE  DigestInv'
    BY <1>2, DigestKept DEF Input
  <1>3. ASSUME NEW array, Insert(array)
        PROVE  DigestInv'
    BY <1>2, <1>3 DEF Insert
  <1>4. CASE InputOctet
    BY <1>4, DigestInputOctet
  <1>5. CASE Result
    BY <1>5, DigestResult
  <1>6. CASE UNCHANGED vars
    BY <1>6, DigestKept DEF vars, history
  <1>7. QED BY <1>1, <1>2, <1>3, <1>4, <1>5, <1>6 DEF Next, ResultFails

(***************************************************************************)
(* Whatever is called, in whatever pieces a message comes, with room for   *)
(* the length in the last block or without, Result() hands out the digest  *)
(* of the padded message, for every size of block and octet and every      *)
(* compression, as long as a word of the length is made of whole octets.   *)
(***************************************************************************)
THEOREM DigestIsTheReference ==
    ASSUME WordsAreFull
    PROVE  Spec => []DigestIsOfTheMessage
  <1>1. Init => DigestInv
    BY DigestBegins DEF Init
  <1>2. TypeInv /\ LengthInv /\ DigestInv /\ [Next]_vars => DigestInv'
    BY DigestStep
  <1>3. DigestInv => DigestIsOfTheMessage
    BY DEF DigestInv, DigestIsOfTheMessage
  <1>4. QED BY <1>1, <1>2, <1>3, TypeInitial, TypeStep, LengthInitial, LengthStep,
            PTL DEF Spec

-----------------------------------------------------------------------------
(***************************************************************************)
(* Ints.  Where the mathematical result is an int nothing wraps.           *)
(***************************************************************************)
LEMMA RemainderOfNegative ==
    ASSUME NEW m \in Nat \ {0}, NEW n \in (-m)..(-1)
    PROVE  n % m = n + m
  OBVIOUS

LEMMA RemainderOfLarge ==
    ASSUME NEW m \in Nat \ {0}, NEW n \in m..(2 * m - 1)
    PROVE  n % m = n - m
  OBVIOUS

LEMMA WrappedInt ==
    ASSUME NEW n \in Ints
    PROVE  Wrapped(n) = n
  <1>1. INT_MAX \in Nat
    BY MiscAssumption
  <1>2. n + INT_MAX + 1 \in 0..((2 * INT_MAX + 2) - 1)
    BY <1>1 DEF Ints
  <1>3. (n + INT_MAX + 1) % (2 * INT_MAX + 2) = n + INT_MAX + 1
    BY <1>1, <1>2, SmallRemainder
  <1>4. QED BY <1>1, <1>3 DEF Wrapped, Ints

LEMMA WrappedToZero ==
    ASSUME NEW n \in (-2 * INT_MAX)..(2 * INT_MAX + 2), Wrapped(n) = 0
    PROVE  n = 0 \/ n = 2 * INT_MAX + 2
  <1> DEFINE m == 2 * INT_MAX + 2
             x == n + INT_MAX + 1
  <1>1. INT_MAX \in Nat \ {0} /\ m \in Nat \ {0} /\ x \in Int /\ INT_MAX + 1 < m
    BY MiscAssumption
  <1>2. x % m = INT_MAX + 1
    <2>1. x % m \in Int
      BY <1>1
    <2>2. QED BY <1>1, <2>1 DEF Wrapped
  <1>3. CASE x < 0
    <2>1. x % m = x + m
      <3>1. x \in (-m)..(-1)
        BY <1>1, <1>3
      <3>2. QED BY <1>1, <3>1, RemainderOfNegative
    <2>2. QED BY <1>1, <1>2, <2>1
  <1>4. CASE x \in 0..(m - 1)
    <2>1. x % m = x
      BY <1>1, <1>4, SmallRemainder
    <2>2. QED BY <1>1, <1>2, <2>1
  <1>5. CASE x >= m
    <2>1. x % m = x - m
      <3>1. x \in m..(2 * m - 1)
        BY <1>1, <1>5
      <3>2. QED BY <1>1, <3>1, RemainderOfLarge
    <2>2. QED BY <1>1, <1>2, <2>1
  <1>6. QED BY <1>1, <1>3, <1>4, <1>5

LEMMA RandomInRange ==
    ASSUME NEW min \in Ints, NEW max \in Ints, NEW r \in 0..RAND_MAX,
           max - min \in 0..(INT_MAX - 1)
    PROVE  Wrapped(Drawn(r, Width(min, max)) + min) \in min..max
  <1> DEFINE width == max - min + 1
  <1>1. /\ INT_MAX \in Nat \ {0} /\ RAND_MAX \in Nat /\ min \in Int /\ max \in Int
        /\ Ints = (-INT_MAX - 1)..INT_MAX
    BY MiscAssumption DEF Ints
  <1>2. width \in Ints /\ width \in Nat \ {0} /\ width - 1 = max - min
    BY <1>1
  <1>3. Width(min, max) = width
    BY <1>2, WrappedInt DEF Width
  <1> HIDE DEF width
  <1>4. Drawn(r, width) \in 0..(width - 1)
    <2>1. r % width \in 0..(width - 1)
      BY <1>1, <1>2, RemainderInRange
    <2>2. QED BY <1>2, <2>1 DEF Drawn
  <1>5. Drawn(r, width) + min \in min..max /\ Drawn(r, width) + min \in Ints
    BY <1>1, <1>2, <1>4
  <1>6. QED BY <1>3, <1>5, WrappedInt

LEMMA WidthIsZero ==
    ASSUME NEW min \in Ints, NEW max \in Ints, Width(min, max) = 0
    PROVE  (max - min) \in {-1, 2 * INT_MAX + 1}
  <1>1. /\ INT_MAX \in Nat \ {0} /\ min \in Int /\ max \in Int
        /\ max - min + 1 \in (-2 * INT_MAX)..(2 * INT_MAX + 2)
    BY MiscAssumption DEF Ints
  <1>2. max - min + 1 = 0 \/ max - min + 1 = 2 * INT_MAX + 2
    BY <1>1, WrappedToZero DEF Width
  <1>3. QED BY <1>1, <1>2

-----------------------------------------------------------------------------
(***************************************************************************)
(* The loop over readdir() keeps what is an entry.                         *)
(***************************************************************************)
Listings == INSTANCE Recursion WITH
                Base <- [names \in Seq(STRING) |-> <<>>],
                Step <- LAMBDA read, n : [names \in Seq(STRING) |->
                            IF IsEntry(names[n]) THEN Append(read[names], names[n])
                            ELSE read[names]]

LEMMA EntriesStep ==
    ASSUME NEW names \in Seq(STRING)
    PROVE  \E read :
              /\ Entries(names) = read[Len(names)]
              /\ read[0] = <<>>
              /\ \A n \in Nat : read[n + 1] = IF IsEntry(names[n + 1])
                                              THEN Append(read[n], names[n + 1])
                                              ELSE read[n]
  <1> DEFINE Next_(f, n) == IF n = 0 THEN <<>>
                            ELSE IF IsEntry(names[n]) THEN Append(f[n - 1], names[n])
                            ELSE f[n - 1]
             Follows(f) == f = [n \in Nat |-> Next_(f, n)]
             V == Listings!Values
             g == [n \in Nat |-> V[n][names]]
             read == CHOOSE f : Follows(f)
  <1>1. V = [n \in Nat |->
               IF n = 0 THEN [text \in Seq(STRING) |-> <<>>]
               ELSE [text \in Seq(STRING) |->
                       IF IsEntry(text[n]) THEN Append(V[n - 1][text], text[n])
                       ELSE V[n - 1][text]]]
    BY Listings!FollowsEquation
  <1> HIDE DEF V
  <1>2. ASSUME NEW n \in Nat
        PROVE  g[n] = Next_(g, n)
    <2>1. CASE n = 0
      <3>1. V[0] = [text \in Seq(STRING) |-> <<>>]
        BY <1>1
      <3>2. QED BY <2>1, <3>1
    <2>2. CASE n # 0
      <3>1. V[n] = [text \in Seq(STRING) |->
                      IF IsEntry(text[n]) THEN Append(V[n - 1][text], text[n])
                      ELSE V[n - 1][text]]
        BY <1>1, <2>2
      <3>2. g[n] = V[n][names] /\ g[n - 1] = V[n - 1][names]
        BY <2>2
      <3>3. V[n][names] = IF IsEntry(names[n]) THEN Append(V[n - 1][names], names[n])
                          ELSE V[n - 1][names]
        BY <3>1
      <3>4. QED BY <2>2, <3>2, <3>3
    <2>3. QED BY <2>1, <2>2
  <1>3. Follows(g)
    <2> HIDE DEF Next_
    <2> DEFINE h == [n \in Nat |-> Next_(g, n)]
    <2>1. \A n \in Nat : g[n] = h[n]
      BY <1>2
    <2>2. g = h
      BY <2>1
    <2>3. QED BY <2>2
  <1>4. Entries(names) = read[Len(names)]
    BY DEF Entries
  <1>5. Follows(read)
    <2> HIDE DEF g, Follows
    <2>1. QED BY <1>3
  <1> HIDE DEF read
  <1>6. read = [n \in Nat |-> Next_(read, n)]
    BY <1>5
  <1>7. read[0] = <<>>
    BY <1>6
  <1>8. ASSUME NEW n \in Nat
        PROVE  read[n + 1] = IF IsEntry(names[n + 1]) THEN Append(read[n], names[n + 1])
                             ELSE read[n]
    <2>1. n + 1 \in Nat /\ n + 1 # 0 /\ (n + 1) - 1 = n
      OBVIOUS
    <2>2. read[n + 1] = Next_(read, n + 1)
      <3> HIDE DEF Next_
      <3>1. QED BY <1>6, <2>1
    <2>3. QED BY <2>1, <2>2
  <1>9. QED BY <1>4, <1>7, <1>8

LEMMA AppendedMembers ==
    ASSUME NEW S, NEW s \in Seq(S), NEW x \in S
    PROVE  /\ Append(s, x) \in Seq(S)
           /\ ToSet(Append(s, x)) = ToSet(s) \cup {x}
  <1>1. /\ Append(s, x) \in Seq(S) /\ Len(Append(s, x)) = Len(s) + 1
        /\ \A i \in 1..Len(s) : Append(s, x)[i] = s[i]
        /\ Append(s, x)[Len(s) + 1] = x
        /\ Len(s) \in Nat
    OBVIOUS
  <1>2. DOMAIN Append(s, x) = 1..(Len(s) + 1) /\ DOMAIN s = 1..Len(s)
    BY <1>1
  <1>3. \A i \in 1..(Len(s) + 1) : i \in 1..Len(s) \/ i = Len(s) + 1
    BY <1>1
  <1>4. 1..Len(s) \subseteq 1..(Len(s) + 1) /\ Len(s) + 1 \in 1..(Len(s) + 1)
    BY <1>1
  <1> DEFINE t == Append(s, x)
  <1> HIDE DEF t
  <1>5. ToSet(t) \subseteq ToSet(s) \cup {x}
    BY <1>1, <1>2, <1>3 DEF ToSet, t
  <1>6. ToSet(s) \cup {x} \subseteq ToSet(t)
    BY <1>1, <1>2, <1>4 DEF ToSet, t
  <1>7. QED BY <1>1, <1>5, <1>6 DEF t

LEMMA EntriesAre ==
    ASSUME NEW names \in Seq(STRING)
    PROVE  ToSet(Entries(names)) = ToSet(names) \ {".", ".."}
  <1>1. PICK read :
          /\ Entries(names) = read[Len(names)]
          /\ read[0] = <<>>
          /\ \A n \in Nat : read[n + 1] = IF IsEntry(names[n + 1])
                                          THEN Append(read[n], names[n + 1])
                                          ELSE read[n]
    BY EntriesStep
  <1> DEFINE Before(n) == {names[i] : i \in 1..n}
             S == {n \in Nat : n <= Len(names) =>
                      /\ read[n] \in Seq(STRING)
                      /\ ToSet(read[n]) = Before(n) \ {".", ".."}}
  <1>2. 0 \in S
    <2>1. Before(0) = {}
      OBVIOUS
    <2>2. <<>> \in Seq(STRING) /\ ToSet(<<>>) = {}
      BY DEF ToSet
    <2>3. QED BY <1>1, <2>1, <2>2
  <1>3. ASSUME NEW n \in Nat, n \in S
        PROVE  n + 1 \in S
    <2>1. CASE n + 1 <= Len(names)
      <3>1. n <= Len(names) /\ names[n + 1] \in STRING
        BY <2>1
      <3>2. read[n] \in Seq(STRING) /\ ToSet(read[n]) = Before(n) \ {".", ".."}
        BY <1>3, <3>1
      <3>3. Before(n + 1) = Before(n) \cup {names[n + 1]}
        <4>1. 1..(n + 1) = 1..n \cup {n + 1}
          OBVIOUS
        <4>2. QED BY <4>1
      <3> HIDE DEF Before
      <3>4. CASE IsEntry(names[n + 1])
        <4>1. read[n + 1] = Append(read[n], names[n + 1])
          BY <1>1, <3>4
        <4>2. /\ read[n + 1] \in Seq(STRING)
              /\ ToSet(read[n + 1]) = ToSet(read[n]) \cup {names[n + 1]}
          BY <3>1, <3>2, <4>1, AppendedMembers
        <4>3. ToSet(read[n + 1]) = Before(n + 1) \ {".", ".."}
          BY <3>2, <3>3, <3>4, <4>2 DEF IsEntry
        <4>4. QED BY <4>2, <4>3
      <3>5. CASE ~IsEntry(names[n + 1])
        <4>1. read[n + 1] = read[n]
          BY <1>1, <3>5
        <4>2. ToSet(read[n + 1]) = Before(n + 1) \ {".", ".."}
          BY <3>2, <3>3, <3>5, <4>1 DEF IsEntry
        <4>3. QED BY <3>2, <4>1, <4>2
      <3>6. QED BY <3>4, <3>5
    <2>2. QED BY <2>1
  <1>4. Len(names) \in S
    <2>1. Nat \subseteq S
      <3> HIDE DEF S
      <3>1. QED BY <1>2, <1>3, Powers!ByInduction
    <2> HIDE DEF S
    <2>2. Len(names) \in Nat
      OBVIOUS
    <2>3. QED BY <2>1, <2>2
  <1>5. Before(Len(names)) = ToSet(names)
    BY DEF ToSet
  <1>6. ToSet(read[Len(names)]) = Before(Len(names)) \ {".", ".."}
    <2> HIDE DEF Before
    <2>1. Len(names) <= Len(names)
      OBVIOUS
    <2>2. QED BY <1>4, <2>1
  <1> HIDE DEF Before
  <1>7. QED BY <1>1, <1>5, <1>6

-----------------------------------------------------------------------------
(***************************************************************************)
(* What the calls that answer at once answer.                              *)
(***************************************************************************)
AnswersInv ==
    /\ held \in 0..FdLimit
    /\ RandomIsInRange /\ ListdirIsTheDirectory

LEMMA AnswersOfNone ==
    ASSUME AnswersInv, UNCHANGED <<held, dead>>, answer'.call \in {"none", "sha1", "randomString"}
    PROVE  AnswersInv'
  BY DEF AnswersInv, RandomIsInRange, ListdirIsTheDirectory

LEMMA AnswersKept ==
    ASSUME AnswersInv, UNCHANGED <<answer, held, dead>>
    PROVE  AnswersInv'
  BY DEF AnswersInv, RandomIsInRange, ListdirIsTheDirectory

LEMMA AnswersRandom ==
    ASSUME AnswersInv, NEW min \in Ints, NEW max \in Ints, Random(min, max)
    PROVE  AnswersInv'
  <1>1. CASE Width(min, max) # 0
    <2>1. PICK r \in 0..RAND_MAX :
            Answer([call |-> "random", min |-> min, max |-> max,
                    value |-> Wrapped(Drawn(r, Width(min, max)) + min)])
      BY <1>1 DEF Random
    <2>2. /\ answer'.call = "random" /\ answer'.min = min /\ answer'.max = max
          /\ answer'.value = Wrapped(Drawn(r, Width(min, max)) + min)
          /\ dead' = dead /\ ~dead /\ held' = held
      BY <1>1, <2>1 DEF Answer, Ready, Random
    <2>3. RandomIsInRange'
      BY <2>2, RandomInRange DEF RandomIsInRange
    <2>4. QED BY <2>2, <2>3
              DEF AnswersInv, ListdirIsTheDirectory
  <1>2. CASE Width(min, max) = 0
    <2>1. /\ answer'.call = "random" /\ answer'.min = min /\ answer'.max = max
          /\ dead' = TRUE /\ held' = held
      BY <1>2 DEF Random
    <2>2. RandomIsInRange'
      BY <1>2, <2>1, WidthIsZero DEF RandomIsInRange
    <2>3. QED BY <2>1, <2>2
              DEF AnswersInv, ListdirIsTheDirectory
  <1>3. QED BY <1>1, <1>2

LEMMA AnswersListdir ==
    ASSUME AnswersInv, NEW dir, Listdir(dir)
    PROVE  AnswersInv'
  <1>1. FdLimit \in Nat /\ held \in 0..FdLimit
    BY MiscAssumption DEF AnswersInv
  <1>2. CASE dir \in DOMAIN Dirs /\ held < FdLimit
    <2>1. /\ answer'.call = "listdir" /\ answer'.of = dir /\ answer'.found = TRUE
          /\ answer'.value = Entries(Dirs[dir]) /\ held' = held + 1
      BY <1>2 DEF Listdir, Answer
    <2>2. ToSet(Entries(Dirs[dir])) = ToSet(Dirs[dir]) \ {".", ".."}
      BY <1>2, MiscAssumption, EntriesAre
    <2>3. held' \in 0..FdLimit
      BY <1>1, <1>2, <2>1
    <2>4. QED BY <2>1, <2>2, <2>3
              DEF AnswersInv, RandomIsInRange, ListdirIsTheDirectory
  <1>3. CASE ~(dir \in DOMAIN Dirs /\ held < FdLimit)
    <2>1. /\ answer'.call = "listdir" /\ answer'.of = dir /\ answer'.found = FALSE
          /\ answer'.full = (held = FdLimit) /\ held' = held
      BY <1>3 DEF Listdir, Answer
    <2>2. dir \notin DOMAIN Dirs \/ held = FdLimit
      BY <1>1, <1>3
    <2>3. QED BY <1>1, <2>1, <2>2
              DEF AnswersInv, RandomIsInRange, ListdirIsTheDirectory
  <1>4. QED BY <1>2, <1>3

LEMMA AnswersSleep ==
    ASSUME AnswersInv, NEW ms \in Ints, Sleep(ms)
    PROVE  AnswersInv'
  <1>1. answer'.call = "sleep" /\ held' = held
    BY DEF Sleep, Answer
  <1>2. QED BY <1>1 DEF AnswersInv, RandomIsInRange, ListdirIsTheDirectory

LEMMA AnswersStep == AnswersInv /\ [MiscNext]_allVars => AnswersInv'
  <1> SUFFICES ASSUME AnswersInv, [MiscNext]_allVars
               PROVE  AnswersInv'
    OBVIOUS
  <1>1. ASSUME NEW s \in DOMAIN Known, CallSha1(s)
        PROVE  AnswersInv'
    BY <1>1, AnswersOfNone DEF CallSha1, NoAnswer
  <1>2. CASE Feed
    BY <1>2, AnswersKept DEF Feed
  <1>3. CASE Take
    BY <1>3, AnswersKept DEF Take, miscVars
  <1>4. CASE EndSha1
    BY <1>4, AnswersOfNone DEF EndSha1
  <1>5. ASSUME NEW size \in -1..MaxSize, NEW majs \in BOOLEAN, NEW nums \in BOOLEAN,
               RandomString(size, majs, nums)
        PROVE  AnswersInv'
    BY <1>5, AnswersOfNone DEF RandomString, Answer
  <1>6. CASE UNCHANGED allVars
    BY <1>6, AnswersKept DEF allVars, miscVars
  <1>7. QED BY <1>1, <1>2, <1>3, <1>4, <1>5, <1>6, AnswersRandom, AnswersListdir,
               AnswersSleep DEF MiscNext

LEMMA AnswersInvariant == MiscSpec => []AnswersInv
  <1>1. MiscInit => AnswersInv
    BY MiscAssumption
       DEF MiscInit, NoAnswer, AnswersInv, RandomIsInRange, ListdirIsTheDirectory
  <1>2. QED BY <1>1, AnswersStep, PTL DEF MiscSpec

(***************************************************************************)
(* random() answers within its bounds, for ints of any width and any       *)
(* RAND_MAX, and kills the process only where the width of the range is    *)
(* or wraps to zero.                                                       *)
(***************************************************************************)
THEOREM RandomStaysInRange == MiscSpec => []RandomIsInRange
  BY AnswersInvariant, PTL DEF AnswersInv

(***************************************************************************)
(* listdir() answers what is in the directory, for any directories, and    *)
(* nil only when there is none or no descriptor is left.                   *)
(***************************************************************************)
THEOREM ListdirListsTheDirectory == MiscSpec => []ListdirIsTheDirectory
  BY AnswersInvariant, PTL DEF AnswersInv

-----------------------------------------------------------------------------
(***************************************************************************)
(* sha1(): what the object has taken, what its Input() is taking and what  *)
(* is still to come are the string, up to its NUL.                         *)
(***************************************************************************)
NulExists ==
    \A s : s \in Seq(Octets) => \E n \in 0..Len(s) : IsUpToNul(n, s)

LEMMA CStringEnds == NulExists
  <1> SUFFICES ASSUME NEW s \in Seq(Octets)
               PROVE  \E n \in 0..Len(s) : IsUpToNul(n, s)
    BY DEF NulExists
  <1> DEFINE Nuls == {i \in 1..Len(s) : s[i] = 0}
  <1>1. CASE Nuls = {}
    <2>1. Len(s) \in 0..Len(s) /\ \A i \in 1..Len(s) : s[i] # 0
      BY <1>1
    <2>2. IsUpToNul(Len(s), s)
      BY <2>1 DEF IsUpToNul
    <2>3. QED BY <2>1, <2>2
  <1>2. CASE Nuls # {}
    <2>1. PICK m \in Nuls : \A k \in Nuls : m <= k
      <3>1. Nuls \in SUBSET Nat
        OBVIOUS
      <3> HIDE DEF Nuls
      <3>2. QED BY <1>2, <3>1, Powers!LeastOf
    <2>2. m - 1 \in 0..Len(s) /\ (m - 1) + 1 = m /\ s[m] = 0
      OBVIOUS
    <2>3. \A i \in 1..(m - 1) : s[i] # 0
      <3> SUFFICES ASSUME NEW i \in 1..(m - 1), s[i] = 0
                   PROVE  FALSE
        OBVIOUS
      <3>1. i \in Nuls /\ ~(m <= i)
        OBVIOUS
      <3>2. QED BY <2>1, <3>1
    <2>4. IsUpToNul(m - 1, s)
      BY <2>2, <2>3 DEF IsUpToNul
    <2>5. QED BY <2>2, <2>4
  <1>3. QED BY <1>1, <1>2

LEMMA CStringType ==
    ASSUME NEW s \in Seq(Octets)
    PROVE  CString(s) \in Seq(Octets) /\ Len(CString(s)) <= Len(s)
  <1> DEFINE n == CHOOSE k \in 0..Len(s) : IsUpToNul(k, s)
  <1>1. n \in 0..Len(s)
    BY CStringEnds DEF NulExists
  <1>2. CString(s) = SubSeq(s, 1, n)
    BY DEF CString
  <1> HIDE DEF n
  <1>3. SubSeq(s, 1, n) \in Seq(Octets) /\ Len(SubSeq(s, 1, n)) = n
    BY <1>1
  <1>4. QED BY <1>1, <1>2, <1>3

Fed(s) ==
    /\ argument = <<s>>
    /\ (message \o rest) \o input = CString(s)
    /\ ~late /\ ~Corrupted /\ ~Computed

HashInv ==
    /\ input \in Seq(Octets)
    /\ argument = <<>> => rest = <<>> /\ input = <<>>
    /\ argument # <<>> => \E s \in DOMAIN Known : Fed(s)

ObjectInv == TypeInv /\ LengthInv

LEMMA TakenTogether ==
    ASSUME NEW S, NEW s \in Seq(S), NEW r \in Seq(S), r # <<>>, NEW t \in Seq(S)
    PROVE  (Append(s, Head(r)) \o Tail(r)) \o t = (s \o r) \o t
  <1>1. Append(s, Head(r)) = s \o <<Head(r)>> /\ Head(r) \in S
    BY AppendIsConcat
  <1>2. <<Head(r)>> \o Tail(r) = r
    OBVIOUS
  <1>3. <<Head(r)>> \in Seq(S) /\ Tail(r) \in Seq(S)
    BY <1>1
  <1>4. (s \o <<Head(r)>>) \o Tail(r) = s \o (<<Head(r)>> \o Tail(r))
    BY <1>3, ConcatAssociative
  <1>5. QED BY <1>1, <1>2, <1>4

LEMMA FedTogether ==
    ASSUME NEW S, NEW s \in Seq(S), NEW t \in Seq(S), t # <<>>
    PROVE  (s \o <<Head(t)>>) \o Tail(t) = (s \o <<>>) \o t
  <1>1. s \o <<>> = s /\ Head(t) \in S
    BY ConcatEmptySeq
  <1>2. <<Head(t)>> \o Tail(t) = t
    OBVIOUS
  <1>3. <<Head(t)>> \in Seq(S) /\ Tail(t) \in Seq(S)
    BY <1>1
  <1>4. (s \o <<Head(t)>>) \o Tail(t) = s \o (<<Head(t)>> \o Tail(t))
    BY <1>3, ConcatAssociative
  <1>5. QED BY <1>1, <1>2, <1>4

LEMMA ObjectStep ==
    ASSUME ObjectInv, HashInv, [MiscNext]_allVars
    PROVE  ObjectInv'
  <1>1. ASSUME NEW s, CallSha1(s)
        PROVE  ObjectInv'
    BY <1>1, TypeStep, LengthStep DEF CallSha1, Next, ObjectInv
  <1>2. CASE Feed
    <2>1. <<Head(input)>> \in Seq(Octets) /\ Input(<<Head(input)>>)
      BY <1>2 DEF Feed, HashInv
    <2>2. QED BY <2>1, TypeInput, LengthInput DEF ObjectInv
  <1>3. CASE Take
    BY <1>3, TypeStep, LengthStep DEF Take, Next, ObjectInv
  <1>4. CASE EndSha1
    BY <1>4, TypeStep, LengthStep DEF EndSha1, Next, ObjectInv
  <1>5. CASE UNCHANGED vars
    BY <1>5, TypeStep, LengthStep DEF ObjectInv
  <1>6. QED BY <1>1, <1>2, <1>3, <1>4, <1>5
            DEF MiscNext, Random, RandomString, Listdir, Sleep, Answer, allVars

LEMMA FedTakes ==
    ASSUME ObjectInv, HashInv, NEW s \in DOMAIN Known, Fed(s), Take
    PROVE  Fed(s)'
  <1>1. /\ message \in Seq(Octets) /\ rest \in Seq(Octets) /\ input \in Seq(Octets)
        /\ rest # <<>> /\ message' = Append(message, Head(rest)) /\ input' = input
        /\ s \in Seq(Octets) /\ Len(s) < WORD /\ argument' = argument
        /\ late' = late /\ Computed' = Computed
        /\ rest' = IF TooLong THEN <<>> ELSE Tail(rest)
        /\ Corrupted' = (Corrupted \/ TooLong)
    BY MiscAssumption
       DEF Take, InputOctet, Idle, ObjectInv, TypeInv, TypeOK, HashInv, miscVars
  <1>2. ~Full'
    <2>1. Len((message \o rest) \o input) = Len(message) + Len(rest) + Len(input)
      BY <1>1
    <2>2. Len(rest) \in Nat \ {0} /\ Len(input) \in Nat /\ Len(message) \in Nat
      BY <1>1
    <2>3. Len(CString(s)) <= Len(s) /\ Len(CString(s)) \in Nat /\ Len(s) \in Nat
      BY <1>1, CStringType
    <2>4. Len(message') = Len(message) + 1
      BY <1>1
    <2>5. Len(message') < WORD
      BY <1>1, <2>1, <2>2, <2>3, <2>4, SizesAssumption DEF Fed
    <2>6. WORD <= WORD * OctetsPerWord
      <3>1. WORD \in Nat \ {0} /\ OctetsPerWord \in Nat \ {0}
        BY SizesAssumption
      <3>2. QED BY <3>1
    <2>7. WORD \in Nat /\ WORD * OctetsPerWord \in Nat /\ Len(message') \in Nat
      BY <2>2, <2>4, SizesAssumption, NextMultiple
    <2>8. Len(message') # WORD * OctetsPerWord
      BY <2>5, <2>6, <2>7
    <2>9. QED BY <2>8 DEF Full
  <1>3. ~TooLong
    <2>1. LengthInv'
      BY LengthInputOctet DEF Take, ObjectInv
    <2>2. ~Corrupted'
      BY <1>1, <1>2, <2>1 DEF LengthInv, Fed
    <2>3. QED BY <1>1, <2>2
  <1>4. (message' \o rest') \o input' = (message \o rest) \o input
    BY <1>1, <1>3, TakenTogether, SMTT(30)
  <1>5. ~Corrupted'
    BY <1>1, <1>3 DEF Fed
  <1>6. QED BY <1>1, <1>4, <1>5 DEF Fed

LEMMA FedFeeds ==
    ASSUME ObjectInv, HashInv, NEW s \in DOMAIN Known, Fed(s), Feed
    PROVE  Fed(s)'
  <1>1. /\ message \in Seq(Octets) /\ input \in Seq(Octets) /\ input # <<>>
        /\ rest = <<>> /\ message' = message /\ input' = Tail(input)
        /\ rest' = <<Head(input)>> /\ argument' = argument
        /\ late' = late /\ Computed' = Computed /\ Corrupted' = Corrupted
    BY DEF Feed, Input, Idle, Fed, ObjectInv, TypeInv, TypeOK, HashInv
  <1>2. (message' \o rest') \o input' = (message \o rest) \o input
    BY <1>1, FedTogether
  <1>3. QED BY <1>1, <1>2 DEF Fed

LEMMA HashStep ==
    ASSUME ObjectInv, HashInv, [MiscNext]_allVars
    PROVE  HashInv'
  <1>1. ASSUME NEW s \in DOMAIN Known, CallSha1(s)
        PROVE  HashInv'
    <2>1. /\ message' = <<>> /\ rest' = <<>> /\ input' = CString(s)
          /\ argument' = <<s>> /\ ~late' /\ ~Corrupted' /\ ~Computed'
      BY <1>1 DEF CallSha1, Reset, Idle
    <2>2. CString(s) \in Seq(Octets)
      BY MiscAssumption, CStringType
    <2>3. (<<>> \o <<>>) \o CString(s) = CString(s)
      BY <2>2, ConcatEmptySeq
    <2>4. Fed(s)'
      BY <2>1, <2>3 DEF Fed
    <2>5. argument' # <<>>
      BY <2>1
    <2>6. QED BY <2>1, <2>2, <2>4, <2>5 DEF HashInv
  <1>2. CASE Feed
    <2>1. argument # <<>> /\ argument' = argument /\ input' = Tail(input) /\ input # <<>>
      BY <1>2 DEF Feed, Ready
    <2>2. PICK s \in DOMAIN Known : Fed(s)
      BY <2>1 DEF HashInv
    <2>3. Fed(s)'
      BY <1>2, <2>2, FedFeeds
    <2>4. input' \in Seq(Octets)
      BY <2>1 DEF HashInv
    <2>5. QED BY <2>1, <2>3, <2>4 DEF HashInv
  <1>3. CASE Take
    <2>1. argument # <<>> /\ argument' = argument /\ input' = input
      BY <1>3 DEF Take, InputOctet, Idle, HashInv, miscVars
    <2>2. PICK s \in DOMAIN Known : Fed(s)
      BY <2>1 DEF HashInv
    <2>3. Fed(s)'
      BY <1>3, <2>2, FedTakes
    <2>4. QED BY <2>1, <2>3 DEF HashInv
  <1>4. CASE EndSha1
    <2>1. argument' = <<>> /\ input' = input /\ input = <<>> /\ rest' = rest /\ rest = <<>>
      BY <1>4 DEF EndSha1, Result, ResultFails, Idle, vars
    <2>2. QED BY <2>1 DEF HashInv
  <1>5. CASE UNCHANGED <<vars, input, argument>>
    BY <1>5 DEF HashInv, Fed, vars, history
  <1>6. QED BY <1>1, <1>2, <1>3, <1>4, <1>5
            DEF MiscNext, Random, RandomString, Listdir, Sleep, Answer, allVars, miscVars

\* When sha1() is answered the object has taken the string and nothing else.
LEMMA FedIsTheString ==
    ASSUME HashInv, ObjectInv, NEW s, Fed(s), input = <<>>, rest = <<>>
    PROVE  message = CString(s)
  <1>1. message \in Seq(Octets)
    BY DEF ObjectInv, TypeInv, TypeOK
  <1>2. (message \o <<>>) \o <<>> = message
    BY <1>1, ConcatEmptySeq
  <1>3. QED BY <1>2 DEF Fed

-----------------------------------------------------------------------------
(***************************************************************************)
(* The digits.                                                             *)
(***************************************************************************)
LEMMA PowersOf16 ==
    ASSUME NEW e \in 0..3
    PROVE  16 ^ e \in Nat \ {0}
  <1>1. /\ 16 ^ 0 \in Nat \ {0} /\ 16 ^ 1 \in Nat \ {0}
        /\ 16 ^ 2 \in Nat \ {0} /\ 16 ^ 3 \in Nat \ {0}
    OBVIOUS
  <1>2. e = 0 \/ e = 1 \/ e = 2 \/ e = 3
    OBVIOUS
  <1>3. QED BY <1>1, <1>2, Zenon

LEMMA SmallCapital ==
    ASSUME NEW k \in 1..6
    PROVE  Small(Capitals[k]) = Smalls[k]
  <1>1. DOMAIN Capitals = 1..6
    BY DEF Capitals
  <1>2. \A j \in 1..6 : Capitals[k] = Capitals[j] => j = k
    BY DEF Capitals
  <1> DEFINE m == CHOOSE j \in DOMAIN Capitals : Capitals[k] = Capitals[j]
  <1>3. \E j \in DOMAIN Capitals : Capitals[k] = Capitals[j]
    BY <1>1
  <1>4. m = k
    BY <1>1, <1>2, <1>3
  <1>5. Small(Capitals[k]) = Smalls[m]
    BY <1>3, Zenon DEF Small
  <1>6. QED BY <1>4, <1>5, Zenon

LEMMA SmallFigure ==
    ASSUME NEW k \in 1..10
    PROVE  Small(Figures16[k]) = Figures16[k]
  <1>1. ~ \E j \in DOMAIN Capitals : Figures16[k] = Capitals[j]
    BY DEF Figures16, Capitals
  <1>2. QED BY <1>1, Zenon DEF Small

LEMMA SmallDigit ==
    ASSUME NEW n \in 0..15
    PROVE  Small(Hexadecimal[n + 1]) = (Figures16 \o Smalls)[n + 1]
  <1>1. CASE n \in 0..9
    <2>1. Hexadecimal[n + 1] = Figures16[n + 1] /\ (Figures16 \o Smalls)[n + 1] = Figures16[n + 1]
      BY <1>1 DEF Hexadecimal, Figures16, Smalls, Capitals
    <2>2. n + 1 \in 1..10
      BY <1>1
    <2>3. QED BY <2>1, <2>2, SmallFigure, Zenon
  <1>2. CASE n \in 10..15
    <2>1. Hexadecimal[n + 1] = Capitals[n - 9] /\ (Figures16 \o Smalls)[n + 1] = Smalls[n - 9]
      BY <1>2 DEF Hexadecimal, Figures16, Smalls, Capitals
    <2>2. n - 9 \in 1..6
      BY <1>2
    <2>3. QED BY <2>1, <2>2, SmallCapital, Zenon
  <1>3. n \in 0..9 \/ n \in 10..15
    OBVIOUS
  <1>4. QED BY <1>1, <1>2, <1>3, Zenon

LEMMA DigitPlaces ==
    ASSUME NEW i \in 1..40
    PROVE  /\ ((i - 1) \div 8) + 1 = (i + 7) \div 8
           /\ (((i - 1) \div 4) % 2) + 1 = IF (i - 1) % 8 < 4 THEN 1 ELSE 2
           /\ 3 - ((i - 1) % 4) = (40 - i) % 4
           /\ (i + 7) \div 8 \in 1..5 /\ (40 - i) % 4 \in 0..3
  OBVIOUS

\* What lowercase() makes of what sprintf() wrote for five words.
LEMMA PrintedSmall ==
    ASSUME NEW words,
           \A word \in 1..5, half \in 1..2 : words[word][half] \in Nat
    PROVE  /\ Len(lowercase(Printed(words))) = 40
           /\ \A i \in 1..40 :
                LET half == words[(i + 7) \div 8][IF (i - 1) % 8 < 4 THEN 1 ELSE 2]
                IN lowercase(Printed(words))[i] =
                     (Figures16 \o Smalls)[((half \div 16 ^ ((40 - i) % 4)) % 16) + 1]
  <1>1. DOMAIN Printed(words) = 1..40
    BY DEF Printed
  <1>2. lowercase(Printed(words)) = [i \in 1..40 |-> Small(Printed(words)[i])]
    BY <1>1, Zenon DEF lowercase
  <1>3. Len(lowercase(Printed(words))) = 40
    BY <1>2
  <1>4. ASSUME NEW i \in 1..40
        PROVE  lowercase(Printed(words))[i] =
                 (Figures16 \o Smalls)
                   [((words[(i + 7) \div 8][IF (i - 1) % 8 < 4 THEN 1 ELSE 2]
                       \div 16 ^ ((40 - i) % 4)) % 16) + 1]
    <2> DEFINE w == (i + 7) \div 8
               h == IF (i - 1) % 8 < 4 THEN 1 ELSE 2
               e == (40 - i) % 4
               p == 16 ^ e
               d == (words[w][h] \div p) % 16
    <2>1. Printed(words)[i] = Hexadecimal[((words[((i - 1) \div 8) + 1][(((i - 1) \div 4) % 2) + 1] \div 16 ^ (3 - ((i - 1) % 4))) % 16) + 1]
      BY Zenon DEF Printed
    <2>2. Printed(words)[i] = Hexadecimal[d + 1]
      BY <2>1, DigitPlaces, Zenon
    <2>3. e \in 0..3 /\ w \in 1..5 /\ h \in 1..2
      BY DigitPlaces
    <2>4. p \in Nat \ {0}
      BY <2>3, PowersOf16, Zenon
    <2>5. words[w][h] \in Nat
      BY <2>3, Zenon
    <2>6. d \in 0..15
      <3> HIDE DEF p, w, h
      <3>1. words[w][h] \div p \in Nat
        BY <2>4, <2>5
      <3>2. QED BY <3>1
    <2>7. lowercase(Printed(words))[i] = Small(Printed(words)[i])
      BY <1>2, Zenon
    <2>8. Small(Hexadecimal[d + 1]) = (Figures16 \o Smalls)[d + 1]
      <3> HIDE DEF d
      <3>1. QED BY <2>6, SmallDigit, Zenon
    <2>9. QED BY <2>2, <2>7, <2>8, Zenon
  <1>5. QED BY <1>3, <1>4, Zenon

-----------------------------------------------------------------------------
(***************************************************************************)
(* The answer of sha1().                                                   *)
(***************************************************************************)
KnownAreTheDigests == \A s \in DOMAIN Known : Known[s] = DigestOf(CString(s))

LEMMA DigestMiscStep ==
    ASSUME WordsAreFull, ObjectInv, DigestInv, HashInv, [MiscNext]_allVars
    PROVE  DigestInv'
  <1>1. ASSUME NEW s, CallSha1(s)
        PROVE  DigestInv'
    BY <1>1, DigestStep DEF CallSha1, Next, ObjectInv
  <1>2. CASE Feed
    <2>1. Input(<<Head(input)>>)
      BY <1>2 DEF Feed
    <2>2. QED BY <2>1, DigestKept DEF Input
  <1>3. CASE Take
    BY <1>3, DigestStep DEF Take, Next, ObjectInv
  <1>4. CASE EndSha1
    BY <1>4, DigestStep DEF EndSha1, Next, ObjectInv
  <1>5. CASE UNCHANGED vars
    BY <1>5, DigestStep DEF ObjectInv
  <1>6. QED BY <1>1, <1>2, <1>3, <1>4, <1>5
            DEF MiscNext, Random, RandomString, Listdir, Sleep, Answer, allVars

LEMMA EndAnswersTheString ==
    ASSUME WordsAreFull, KnownAreTheDigests, ObjectInv, DigestInv, HashInv, EndSha1
    PROVE  Sha1OfTheString'
  <1>1. argument # <<>> /\ input = <<>> /\ rest = <<>>
    BY DEF EndSha1, Result, ResultFails, Idle
  <1>2. PICK s \in DOMAIN Known : Fed(s)
    BY <1>1 DEF HashInv
  <1>3. ~Corrupted /\ argument = <<s>>
    BY <1>2 DEF Fed
  <1>4. message = CString(s)
    BY <1>1, <1>2, FedIsTheString
  <1>5. Result /\ message' = message /\ Computed'
    BY <1>3 DEF EndSha1, Result, history
  <1>6. H' = Reference'
    BY <1>5, DigestResult DEF ObjectInv, DigestInv
  <1>7. H' = Known[s]
    BY <1>4, <1>5, <1>6, Zenon DEF Reference, DigestOf, KnownAreTheDigests
  <1>8. \A word \in 1..5, half \in 1..2 : H'[word][half] \in Nat
    BY <1>7, MiscAssumption
  <1>9. answer'.of = s /\ answer'.value = lowercase(Printed(H'))
    BY <1>3 DEF EndSha1
  <1>10. Len(answer'.value) = 40
    BY <1>8, <1>9, PrintedSmall, Zenon
  <1>11. ASSUME NEW i \in 1..40
         PROVE  answer'.value[i] =
                  (Figures16 \o Smalls)
                    [((Known[answer'.of][(i + 7) \div 8][IF (i - 1) % 8 < 4 THEN 1 ELSE 2]
                        \div 16 ^ ((40 - i) % 4)) % 16) + 1]
    <2>1. lowercase(Printed(H'))[i] =
            (Figures16 \o Smalls)
              [((H'[(i + 7) \div 8][IF (i - 1) % 8 < 4 THEN 1 ELSE 2]
                  \div 16 ^ ((40 - i) % 4)) % 16) + 1]
      BY <1>8, PrintedSmall, Zenon
    <2>2. Known[answer'.of] = H'
      BY <1>7, <1>9, Zenon
    <2>3. QED BY <1>9, <2>1, <2>2, Zenon
  <1>12. QED BY <1>10, <1>11, Zenon DEF Sha1OfTheString

LEMMA Sha1AnswerStep ==
    ASSUME WordsAreFull, KnownAreTheDigests, ObjectInv, DigestInv, HashInv,
           Sha1OfTheString, [MiscNext]_allVars
    PROVE  Sha1OfTheString'
  <1>1. CASE EndSha1
    BY <1>1, EndAnswersTheString
  <1>2. CASE answer'.call # "sha1"
    BY <1>2 DEF Sha1OfTheString
  <1>3. CASE answer' = answer
    BY <1>3, Zenon DEF Sha1OfTheString
  <1>4. QED BY <1>1, <1>2, <1>3
            DEF MiscNext, CallSha1, Feed, Take, Random, RandomString, Listdir, Sleep,
                Answer, NoAnswer, allVars, miscVars

(***************************************************************************)
(* sha1() answers its string's digest: the forty small digits of the five  *)
(* words that the standard gives for the octets before the first NUL,      *)
(* whatever the other calls did before and whatever the string, as long as *)
(* Known is what the standard gives and a word is made of whole octets.    *)
(***************************************************************************)
THEOREM Sha1IsOfTheString ==
    ASSUME WordsAreFull, KnownAreTheDigests
    PROVE  MiscSpec => []Sha1OfTheString
  <1>1. MiscInit => ObjectInv
    BY TypeInitial, LengthInitial DEF MiscInit, ObjectInv
  <1>2. MiscInit => DigestInv
    BY DigestBegins DEF MiscInit, Init
  <1>3. MiscInit => HashInv
    BY DEF MiscInit, HashInv, Init
  <1>4. MiscInit => Sha1OfTheString
    <2>1. MiscInit => answer.call # "sha1"
      BY DEF MiscInit, NoAnswer
    <2>2. QED BY <2>1, Zenon DEF Sha1OfTheString
  <1>5. ObjectInv /\ HashInv /\ [MiscNext]_allVars => ObjectInv' /\ HashInv'
    BY ObjectStep, HashStep
  <1>6. ObjectInv /\ HashInv /\ DigestInv /\ [MiscNext]_allVars => DigestInv'
    BY DigestMiscStep
  <1>7. ObjectInv /\ HashInv /\ DigestInv /\ Sha1OfTheString /\ [MiscNext]_allVars
          => Sha1OfTheString'
    BY Sha1AnswerStep
  <1>8. QED BY <1>1, <1>2, <1>3, <1>4, <1>5, <1>6, <1>7, PTL DEF MiscSpec
=============================================================================
