----------------------------- MODULE LuanetMisc -----------------------------
(***************************************************************************)
(* luanet.misc (src/luanet_misc.cpp) and luanet.sleep                      *)
(* (src/luanet_sleep.cpp): the calls of a Lua program, one at a time, and  *)
(* what they answer.  sha1() drives an object of Sha1, octet by octet; the *)
(* others answer at once.                                                  *)
(***************************************************************************)
EXTENDS Sha1, SequencesExt

CONSTANTS
    Known,              \* the strings sha1() is asked for, with their digests
    MaxHashes,          \* bound: the calls of sha1()
    INT_MAX, RAND_MAX,  \* the widest int and what rand() goes up to
    MICROS,             \* the microseconds of a millisecond: 1000
    Lower, Upper, Figures,  \* the characters of random_string()
    MaxSize,            \* bound: the longest random string
    Dirs,               \* the directories and the entries readdir() finds
    FdLimit             \* the descriptors opendir() can get

\* The widths are those of C; a string has no more characters than the index of
\* sha1()'s loop, an unsigned, can count, and its digest five words in halves.
ASSUME MiscAssumption ==
    /\ INT_MAX \in Nat \ {0} /\ RAND_MAX \in Nat /\ MICROS \in Nat \ {0}
    /\ FdLimit \in Nat
    /\ \A s \in DOMAIN Known :
          /\ s \in Seq(Octets) /\ Len(s) < WORD
          /\ \A word \in 1..5, half \in 1..2 : Known[s][word][half] \in Nat
    /\ \A dir \in DOMAIN Dirs : Dirs[dir] \in Seq(STRING)

Ints == (-INT_MAX - 1)..INT_MAX
\* An int after an overflow, and one read as an unsigned
Wrapped(n) == ((n + INT_MAX + 1) % (2 * INT_MAX + 2)) - INT_MAX - 1
Unsigned(n) == n % (2 * INT_MAX + 2)

NoAnswer == [call |-> "none"]

VARIABLES
    input,      \* what sha1() still has to feed in
    argument,   \* the string sha1() was called with, empty outside a call
    answer,     \* the last call and what it answered
    hashes,     \* the calls of sha1() so far
    held,       \* the directories left open
    dead        \* the process was killed

miscVars == <<input, argument, answer, hashes, held, dead>>
allVars == <<vars, miscVars>>

MiscInit ==
    /\ Init
    /\ Message_Block = [p \in Positions |-> 0]
    /\ input = <<>> /\ argument = <<>> /\ answer = NoAnswer
    /\ hashes = 0 /\ held = 0 /\ dead = FALSE

Ready == argument = <<>> /\ ~dead

-----------------------------------------------------------------------------
(***************************************************************************)
(* luanet_sha1() takes the argument as a C string, sha1() makes an object  *)
(* and feeds it one character at a time.                                   *)
(***************************************************************************)
CString(s) == SubSeq(s, 1, CHOOSE n \in 0..Len(s) : IsUpToNul(n, s))

CallSha1(s) ==
    /\ Ready /\ hashes < MaxHashes
    /\ Reset
    /\ input' = CString(s) /\ argument' = <<s>>
    /\ answer' = NoAnswer
    /\ hashes' = hashes + 1
    /\ UNCHANGED <<held, dead>>

Feed ==
    /\ ~Ready /\ ~dead /\ input # <<>>
    /\ Input(<<Head(input)>>)
    /\ input' = Tail(input)
    /\ UNCHANGED <<argument, answer, hashes, held, dead>>

Take == InputOctet /\ UNCHANGED miscVars

\* sprintf() writes the five words with capitals, lowercase() turns them.
Capitals == <<"A", "B", "C", "D", "E", "F">>
Smalls == <<"a", "b", "c", "d", "e", "f">>
Figures16 == <<"0", "1", "2", "3", "4", "5", "6", "7", "8", "9">>
Hexadecimal == Figures16 \o Capitals

Printed(words) ==
    LET half(i) == words[((i - 1) \div 8) + 1][(((i - 1) \div 4) % 2) + 1]
    IN [i \in 1..40 |-> Hexadecimal[((half(i) \div 16 ^ (3 - ((i - 1) % 4))) % 16) + 1]]

Small(c) ==
    IF \E j \in DOMAIN Capitals : c = Capitals[j]
    THEN Smalls[CHOOSE j \in DOMAIN Capitals : c = Capitals[j]]
    ELSE c
lowercase(text) == [i \in DOMAIN text |-> Small(text[i])]

EndSha1 ==
    /\ argument # <<>> /\ input = <<>>
    /\ IF Corrupted THEN ResultFails ELSE Result
    /\ answer' = [call |-> "sha1", of |-> Head(argument),
                  value |-> IF Corrupted THEN <<>> ELSE lowercase(Printed(H'))]
    /\ argument' = <<>>
    /\ UNCHANGED <<input, hashes, held, dead>>

-----------------------------------------------------------------------------
Answer(record) ==
    /\ Ready
    /\ answer' = record
    /\ UNCHANGED <<vars, input, argument, hashes, dead>>

(***************************************************************************)
(* random(min, max): the width of the range is an int that may overflow,   *)
(* rand() % 0 kills the process, and % has the sign of its left side.      *)
(***************************************************************************)
\* Mutant: the range lacks its end.
WidthShort(min, max) == Wrapped(max - min)
Width(min, max) == Wrapped(max - min + 1)
Drawn(r, width) == r % (IF width < 0 THEN -width ELSE width)

Random(min, max) ==
    \/ /\ Width(min, max) # 0
       /\ \E r \in 0..RAND_MAX :
            Answer([call |-> "random", min |-> min, max |-> max,
                    value |-> Wrapped(Drawn(r, Width(min, max)) + min)])
       /\ UNCHANGED held
    \/ /\ Width(min, max) = 0 /\ Ready
       /\ dead' = TRUE
       /\ answer' = [call |-> "random", min |-> min, max |-> max]
       /\ UNCHANGED <<vars, input, argument, hashes, held>>

\* randomString(size, majs, nums): the alphabet grows with the flags (which are
\* true when the program gives no boolean).
Alphabet(majs, nums) ==
    Lower \o (IF majs THEN Upper ELSE <<>>)
          \o (IF nums THEN Figures ELSE <<>>)

RandomString(size, majs, nums) ==
    LET letters == Alphabet(majs, nums)
    IN /\ \E rs \in [1..size -> 0..RAND_MAX] :
            Answer([call |-> "randomString", size |-> size, majs |-> majs,
                    nums |-> nums,
                    value |-> [i \in 1..size |-> letters[Drawn(rs[i], Len(letters)) + 1]]])
       /\ UNCHANGED held

\* Mutant: "." counts as an entry.
IsEntryOrDot(name) == name # ".."
IsEntry(name) == name \notin {".", ".."}

\* The loop over readdir()
Entries(names) ==
    LET read[n \in Nat] ==
            IF n = 0 THEN <<>>
            ELSE IF IsEntry(names[n]) THEN Append(read[n - 1], names[n])
            ELSE read[n - 1]
    IN read[Len(names)]

\* listdir(): what opendir() opens is never closed; not found is a nil.
Listdir(dir) ==
    IF dir \in DOMAIN Dirs /\ held < FdLimit
    THEN /\ Answer([call |-> "listdir", of |-> dir, found |-> TRUE,
                    value |-> Entries(Dirs[dir])])
         /\ held' = held + 1
    ELSE /\ Answer([call |-> "listdir", of |-> dir, found |-> FALSE,
                    full |-> held = FdLimit])
         /\ UNCHANGED held

\* sleep(): the microseconds are an int that may overflow, taken as unsigned.
Microseconds(ms) == Unsigned(Wrapped(ms * MICROS))

\* usleep() may refuse its argument (a second or more, on some systems) or be
\* interrupted by a signal, and nobody looks at its result: the call returns
\* after any part of the time, at the least value microseconds.
Sleep(ms) ==
    /\ \E slept \in 0..Microseconds(ms) :
         Answer([call |-> "sleep", of |-> ms, value |-> slept])
    /\ UNCHANGED held

MiscNext ==
    \/ \E s \in DOMAIN Known : CallSha1(s)
    \/ Feed \/ Take \/ EndSha1
    \/ \E min, max \in Ints : Random(min, max)
    \/ \E size \in -1..MaxSize, majs, nums \in BOOLEAN : RandomString(size, majs, nums)
    \/ \E dir \in DOMAIN Dirs \cup {"missing"} : Listdir(dir)
    \/ \E ms \in Ints : Sleep(ms)

MiscSpec == MiscInit /\ [][MiscNext]_allVars

-----------------------------------------------------------------------------
(***************************************************************************)
(* sha1() answers the digest of its string, up to its first NUL, in small  *)
(* letters: the octets reach the object in order and as unsigned values,   *)
(* the padding and the rounds are those of the standard.                   *)
(***************************************************************************)
Sha1OfTheString ==
    answer.call = "sha1" =>
        /\ Len(answer.value) = 40
        /\ \A i \in 1..40 :
             LET half == Known[answer.of][(i + 7) \div 8][IF (i - 1) % 8 < 4 THEN 1 ELSE 2]
             IN answer.value[i] =
                  (Figures16 \o Smalls)[((half \div 16 ^ ((40 - i) % 4)) % 16) + 1]

(***************************************************************************)
(* random() answers within its bounds whenever their distance is an int    *)
(* and they are in order; it kills the process only when the width of the  *)
(* range is zero or wraps to zero.                                         *)
(***************************************************************************)
RandomIsInRange ==
    answer.call = "random" =>
        IF dead THEN (answer.max - answer.min) \in {-1, 2 * INT_MAX + 1}
        ELSE \/ answer.max - answer.min \notin 0..(INT_MAX - 1)
             \/ answer.value \in answer.min..answer.max

(***************************************************************************)
(* listdir() answers the entries of the directory and neither "." nor      *)
(* "..", and nil only for what is no directory, until the descriptors it   *)
(* never closes are used up: then it answers nil for ever.                 *)
(***************************************************************************)
ListdirIsTheDirectory ==
    answer.call = "listdir" =>
        IF ~answer.found
        THEN answer.of \notin DOMAIN Dirs \/ answer.full
        ELSE ToSet(answer.value) = ToSet(Dirs[answer.of]) \ {".", ".."}
=============================================================================
