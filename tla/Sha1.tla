-------------------------------- MODULE Sha1 --------------------------------
(***************************************************************************)
(* The SHA1 object of src/sha1.cpp: a message is fed in with Input() and   *)
(* operator<<, Result() pads it and hands out the digest, Reset() starts   *)
(* again.  The 160-bit value H, the message block, its index, the length   *)
(* in two words and the two flags are the members of the class; message,   *)
(* late and returned are history.                                          *)
(*                                                                         *)
(* The compression of a block is a parameter: Sha1Words defines the one of *)
(* the code.  So are the sizes, 64 octets a block, 8 of them the length,   *)
(* 8 bits an octet and 32 bits a word in the code, so that TLC reaches the *)
(* end of the length counters.                                             *)
(***************************************************************************)
EXTENDS Integers, Sequences

CONSTANTS
    BLOCK,          \* the octets of a block: 64
    LENGTH,         \* the octets of a block that hold the length: 8
    OCTET,          \* the values of an octet: 256
    OCTET_BITS,     \* the bits of an octet: 8
    WORD,           \* the values of an unsigned: 2^32
    IV,             \* what Reset() puts into H
    Compress(_, _), \* ProcessMessageBlock(): H and a block to the next H
    Arrays          \* the octet arrays a program feeds in

WordOctets == LENGTH \div 2
OctetsPerWord == WORD \div OCTET_BITS

ASSUME SizesAssumption ==
    /\ BLOCK \in Nat /\ LENGTH \in Nat /\ LENGTH > 0 /\ LENGTH < BLOCK
    /\ LENGTH = 2 * WordOctets
    /\ OCTET \in Nat /\ OCTET > 1
    /\ OCTET_BITS \in Nat \ {0} /\ WORD \in Nat \ {0}
    /\ OctetsPerWord \in Nat \ {0} /\ WORD = OCTET_BITS * OctetsPerWord

Octets == 0..(OCTET - 1)
Positions == 0..(BLOCK - 1)
LengthAt == BLOCK - LENGTH

ASSUME ArraysAssumption == \A array \in Arrays : array \in Seq(Octets)

VARIABLES
    H, Length_Low, Length_High,
    Message_Block, Message_Block_Index,
    Computed, Corrupted,
    rest,           \* what the Input() that is running still has to take
    message,        \* the octets taken since the last Reset()
    late,           \* Input() was called when it could take nothing
    returned        \* the digests Result() returned since the last Reset()

lengths == <<Length_Low, Length_High>>
block == <<Message_Block, Message_Block_Index>>
history == <<message, late, returned>>
vars == <<H, lengths, block, Computed, Corrupted, rest, history>>

(***************************************************************************)
(* The constructor calls Reset(), which leaves the block alone: it holds   *)
(* whatever was in the memory.                                             *)
(***************************************************************************)
Init ==
    /\ H = IV /\ Length_Low = 0 /\ Length_High = 0
    /\ \E o \in Octets : Message_Block = [p \in Positions |-> o]
    /\ Message_Block_Index = 0
    /\ Computed = FALSE /\ Corrupted = FALSE
    /\ rest = <<>>
    /\ message = <<>> /\ late = FALSE /\ returned = {}

Idle == rest = <<>>

Reset ==
    /\ Idle
    /\ H' = IV /\ Length_Low' = 0 /\ Length_High' = 0
    /\ Message_Block_Index' = 0
    /\ Computed' = FALSE /\ Corrupted' = FALSE
    /\ message' = <<>> /\ late' = FALSE /\ returned' = {}
    /\ UNCHANGED <<Message_Block, rest>>

(***************************************************************************)
(* Input() refuses what comes after the digest or after an error, and      *)
(* remembers that as an error; otherwise its loop takes octet after octet. *)
(***************************************************************************)
Input(array) ==
    /\ Idle
    /\ array # <<>>
    /\ IF Computed \/ Corrupted
       THEN Corrupted' = TRUE /\ late' = TRUE /\ rest' = rest
       ELSE Corrupted' = Corrupted /\ late' = late /\ rest' = array
    /\ UNCHANGED <<H, lengths, block, Computed, message, returned>>

\* operator<< for strings inputs character after character, up to the NUL
IsUpToNul(n, array) ==
    /\ n < Len(array) => array[n + 1] = 0
    /\ \A i \in 1..n : array[i] # 0

Insert(array) ==
    \E n \in 0..Len(array) :
        IsUpToNul(n, array) /\ Input(SubSeq(array, 1, n))

\* Mutant: the low word is not cut to its width.
NextLowUncut == Length_Low + OCTET_BITS
NextLow == (Length_Low + OCTET_BITS) % WORD
\* Mutant: the low word has no carry.
NextHighUncarried == Length_High
NextHigh == IF NextLow = 0 THEN (Length_High + 1) % WORD ELSE Length_High
\* Mutant: the message is too long for one word.
TooLongForLow == NextLow = 0
TooLong == NextLow = 0 /\ NextHigh = 0

\* One turn of the loop; one that finds the message too long is the last.
InputOctet ==
    /\ ~Idle
    /\ LET filled == [Message_Block EXCEPT ![Message_Block_Index] = Head(rest)]
       IN /\ Message_Block' = filled
          /\ IF Message_Block_Index + 1 = BLOCK
             THEN H' = Compress(H, filled) /\ Message_Block_Index' = 0
             ELSE H' = H /\ Message_Block_Index' = Message_Block_Index + 1
    /\ Length_Low' = NextLow /\ Length_High' = NextHigh
    /\ Corrupted' = (Corrupted \/ TooLong)
    /\ rest' = IF TooLong THEN <<>> ELSE Tail(rest)
    /\ message' = Append(message, Head(rest))
    /\ UNCHANGED <<Computed, late, returned>>

(***************************************************************************)
(* PadMessage(): a one bit, zeros, and the length at the end of the block, *)
(* of a second block when the first has no room for it.                    *)
(***************************************************************************)
Power[n \in Nat] == IF n = 0 THEN 1 ELSE OCTET * Power[n - 1]

Octet(word, n) == (word \div Power[WordOctets - 1 - n]) % OCTET

LengthOctet(n) ==
    IF n < WordOctets THEN Octet(Length_High, n)
                      ELSE Octet(Length_Low, n - WordOctets)

\* The block with the one bit after the message, and zeros up to end
Marked(end) ==
    [p \in Positions |->
        IF p = Message_Block_Index THEN OCTET \div 2
        ELSE IF p > Message_Block_Index /\ p < end THEN 0
        ELSE Message_Block[p]]

WithLength(b) ==
    [p \in Positions |-> IF p < LengthAt THEN b[p] ELSE LengthOctet(p - LengthAt)]

\* Mutant: the one bit takes an octet of the length.
HasRoomForLength == Message_Block_Index <= LengthAt
HasRoom == Message_Block_Index <= LengthAt - 1

PadMessage ==
    /\ Message_Block' = WithLength(IF HasRoom THEN Marked(LengthAt)
                                   ELSE [p \in Positions |-> 0])
    /\ H' = Compress(IF HasRoom THEN H ELSE Compress(H, Marked(BLOCK)),
                     Message_Block')
    /\ Message_Block_Index' = 0

Result ==
    /\ Idle
    /\ ~Corrupted
    /\ IF Computed THEN UNCHANGED <<H, block>> ELSE PadMessage
    /\ Computed' = TRUE
    /\ returned' = returned \cup {H'}
    /\ UNCHANGED <<lengths, Corrupted, rest, message, late>>

\* Result() of a corrupted object returns false and changes nothing.
ResultFails == Idle /\ Corrupted /\ UNCHANGED vars

Next ==
    \/ Reset
    \/ \E array \in Arrays : Input(array) \/ Insert(array)
    \/ InputOctet
    \/ Result
    \/ ResultFails

Spec == Init /\ [][Next]_vars

-----------------------------------------------------------------------------
(***************************************************************************)
(* The reference: the message, a one bit, the zeros that make the blocks   *)
(* whole, the length in bits; its blocks compressed one after another.     *)
(***************************************************************************)
Bits == OCTET_BITS * Len(message)

Zeros(text) == (BLOCK - ((Len(text) + 1 + LENGTH) % BLOCK)) % BLOCK

Padded(text) ==
    LET size == Len(text) + 1 + Zeros(text) + LENGTH
    IN [i \in 1..size |->
            IF i <= Len(text) THEN text[i]
            ELSE IF i = Len(text) + 1 THEN OCTET \div 2
            ELSE IF i <= size - LENGTH THEN 0
            ELSE ((OCTET_BITS * Len(text)) \div Power[size - i]) % OCTET]

\* The n-th block of some octets, and what the first n compress to
Block(octets, n) == [p \in Positions |-> octets[(n - 1) * BLOCK + p + 1]]

Chain(octets) ==
    LET after[n \in Nat] ==
            IF n = 0 THEN IV ELSE Compress(after[n - 1], Block(octets, n))
    IN after

DigestOf(text) == Chain(Padded(text))[Len(Padded(text)) \div BLOCK]

Reference == DigestOf(message)

-----------------------------------------------------------------------------
TypeOK ==
    /\ Length_Low \in 0..(WORD - 1) /\ Length_High \in 0..(WORD - 1)
    /\ Message_Block \in [Positions -> Octets]
    /\ Message_Block_Index \in Positions
    /\ Computed \in BOOLEAN /\ Corrupted \in BOOLEAN /\ late \in BOOLEAN
    /\ rest \in Seq(Octets) /\ message \in Seq(Octets)

(***************************************************************************)
(* What Result() hands out is the digest of the octets Input() took, in    *)
(* whatever pieces they came, however full the block was when it was       *)
(* padded and whatever an object held before Reset().                      *)
(***************************************************************************)
DigestIsOfTheMessage == returned \subseteq {Reference}

(***************************************************************************)
(* An object is corrupted for two reasons only: something was fed in when  *)
(* it could take nothing, or the message has as many bits as the two words *)
(* of the length can count, and then always.                               *)
(***************************************************************************)
CorruptedForAReason == Corrupted <=> (late \/ Bits >= WORD * WORD)

(***************************************************************************)
(* The two words of the length, with their carry, count the bits of the    *)
(* message until they overflow.                                            *)
(***************************************************************************)
LengthIsOfTheMessage ==
    Bits < WORD * WORD => Length_High * WORD + Length_Low = Bits
=============================================================================
