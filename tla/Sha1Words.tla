------------------------------ MODULE Sha1Words ------------------------------
(***************************************************************************)
(* ProcessMessageBlock() of src/sha1.cpp and the value Reset() puts into   *)
(* H.  The 32-bit words are pairs of 16-bit halves, the higher first: TLC  *)
(* has no number of 32 bits without a sign.                                *)
(***************************************************************************)
EXTENDS Integers, Sequences, Bitwise

Half == 65536

XorWords(a, b) == << a[1] ^^ b[1], a[2] ^^ b[2] >>
AndWords(a, b) == << a[1] & b[1], a[2] & b[2] >>
OrWords(a, b) == << a[1] | b[1], a[2] | b[2] >>
NotWord(a) == << Half - 1 - a[1], Half - 1 - a[2] >>

\* The sum of the words, cut to 32 bits
Sum(words) ==
    LET total[i \in 0..Len(words), h \in {1, 2}] ==
            IF i = 0 THEN 0 ELSE total[i - 1, h] + words[i][h]
        low == total[Len(words), 2]
    IN << (total[Len(words), 1] + low \div Half) % Half, low % Half >>

CircularShift(bits, word) ==
    LET n     == bits % 16
        turned == IF bits < 16 THEN word ELSE << word[2], word[1] >>
        half(high, low) == ((high * 2 ^ n) % Half) + low \div 2 ^ (16 - n)
    IN << half(turned[1], turned[2]), half(turned[2], turned[1]) >>

InitialH == << <<26437, 8961>>, <<61389, 43913>>, <<39098, 56574>>,
               <<4146, 21622>>, <<50130, 57840>> >>

K == << <<23170, 31129>>, <<28377, 60321>>, <<36635, 48348>>, <<51810, 49622>> >>

\* Sixteen words of four octets each, the first octet the highest
Loaded(octets) ==
    [t \in 1..16 |-> << octets[4 * t - 4] * 256 + octets[4 * t - 3],
                        octets[4 * t - 2] * 256 + octets[4 * t - 1] >>]

Extended(W) ==
    LET t == Len(W) + 1
    IN Append(W, CircularShift(1, XorWords(XorWords(W[t - 3], W[t - 8]),
                                           XorWords(W[t - 14], W[t - 16]))))

\* The words of the 80 rounds.  (The sets of one element make TLC evaluate a
\* step before the next one uses it.)
Schedule(octets) ==
    LET words[t \in 16..80] ==
            IF t = 16 THEN Loaded(octets)
            ELSE CHOOSE W \in {Extended(before) : before \in {words[t - 1]}} : TRUE
    IN words[80]

\* Mutant: the first twenty rounds are twenty-one.
MixedLate(t, B, C, D) ==
    CASE t <= 21      -> OrWords(AndWords(B, C), AndWords(NotWord(B), D))
      [] t \in 41..60 -> OrWords(OrWords(AndWords(B, C), AndWords(B, D)),
                                 AndWords(C, D))
      [] OTHER        -> XorWords(XorWords(B, C), D)

Mixed(t, B, C, D) ==
    CASE t <= 20      -> OrWords(AndWords(B, C), AndWords(NotWord(B), D))
      [] t \in 41..60 -> OrWords(OrWords(AndWords(B, C), AndWords(B, D)),
                                 AndWords(C, D))
      [] OTHER        -> XorWords(XorWords(B, C), D)

\* A round: v holds the word buffers A to E
Round(v, t, w) ==
    << Sum(<< CircularShift(5, v[1]), Mixed(t, v[2], v[3], v[4]), v[5], w,
              K[((t - 1) \div 20) + 1] >>),
       v[1], CircularShift(30, v[2]), v[3], v[4] >>

Rounds(H, W) ==
    LET after[t \in 0..80] ==
            IF t = 0 THEN H
            ELSE CHOOSE v \in {Round(before, t, W[t]) : before \in {after[t - 1]}} : TRUE
    IN after[80]

ProcessMessageBlock(H, octets) ==
    CHOOSE next \in {[i \in 1..5 |-> Sum(<<H[i], Rounds(H, W)[i]>>)]
                     : W \in {Schedule(octets)}} : TRUE
=============================================================================
