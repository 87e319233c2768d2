------------------------------ MODULE RegexCode ------------------------------
(***************************************************************************)
(* What the two halves of GNU regex (src/regex.c) share: characters and    *)
(* their codes, the syntax bits, and the bytecode that regex_compile       *)
(* writes and re_match_2 executes AND rewrites.                            *)
(*                                                                         *)
(* The compiled pattern is kept byte by byte, because both halves look     *)
(* into it at computed addresses (p[-3], p1[mcnt-3], p1[5], ...).  Byte i  *)
(* of the C buffer is element i + 1 here; a null pointer is 0.             *)
(***************************************************************************)
EXTENDS Integers, Sequences, FiniteSetsExt

(* A text is a sequence of characters.  NUL is what the code reads where   *)
(* a C string ends, HIGH stands for the character with code 255, BACKQUOTE *)
(* for the one with code 96.                                               *)
NUL == "NUL"
HIGH == "HIGH"
BACKQUOTE == "BACKQUOTE"
Chars(s) == [i \in 1..Len(s) |-> SubSeq(s, i, i)]
From32 == Chars(" !\"#$%&'()*+,-./0123456789:;<=>?@ABCDEFGHIJKLMNOPQRSTUVWXYZ[\\]^_")
From97 == Chars("abcdefghijklmnopqrstuvwxyz{|}~")
Ascii  == From32 \o <<BACKQUOTE>> \o From97

Ord == [c \in {Ascii[i] : i \in 1..95} \cup {NUL, "\n", HIGH} |->
         CASE c = NUL  -> 0
           [] c = "\n" -> 10
           [] c = HIGH -> 255
           [] OTHER    -> 31 + CHOOSE i \in 1..95 : Ascii[i] = c]

Char(text, i) == IF i \in 1..Len(text) THEN text[i] ELSE NUL

(* The table regcomp() builds for REG_ICASE, as characters and as codes.   *)
LowerCode(o) == IF o \in 65..90 THEN o + 32 ELSE o
LowerChar == [c \in DOMAIN Ord |-> IF Ord[c] \in 65..90 THEN Ascii[Ord[c] + 1] ELSE c]

(* re_syntax_table: the codes of word constituents.                        *)
WordCodes == (97..122) \cup (65..90) \cup (48..57) \cup {95}

(* <ctype.h> in the C locale, for [:name:].                                *)
CharClass ==
  LET upper == 65..90   lower == 97..122   digit == 48..57   graph == 33..126
  IN [alpha |-> upper \cup lower, upper |-> upper, lower |-> lower, digit |-> digit,
      alnum |-> upper \cup lower \cup digit,
      xdigit |-> digit \cup (65..70) \cup (97..102),
      space |-> (9..13) \cup {32}, blank |-> {9, 32},
      print |-> graph \cup {32}, graph |-> graph,
      punct |-> graph \ (upper \cup lower \cup digit),
      cntrl |-> (0..31) \cup {127}]

-----------------------------------------------------------------------------
(* Syntax bits (regex.h), as sets of their names.                          *)
POSIX_COMMON == {"RE_CHAR_CLASSES", "RE_DOT_NEWLINE", "RE_DOT_NOT_NULL",
                 "RE_INTERVALS", "RE_NO_EMPTY_RANGES"}
POSIX_BASIC  == POSIX_COMMON \cup {"RE_BK_PLUS_QM"}
POSIX_EXTENDED == POSIX_COMMON \cup
  {"RE_CONTEXT_INDEP_ANCHORS", "RE_CONTEXT_INDEP_OPS", "RE_NO_BK_BRACES",
   "RE_NO_BK_PARENS", "RE_NO_BK_VBAR", "RE_UNMATCHED_RIGHT_PAREN_ORD"}
RE_DUP_MAX == 2^15 - 1

-----------------------------------------------------------------------------
(* The opcodes and the number of argument bytes of each.                   *)
op == [no_op |-> 0, exactn |-> 1, anychar |-> 2, charset |-> 3, charset_not |-> 4,
       start_memory |-> 5, stop_memory |-> 6, duplicate |-> 7, begline |-> 8,
       endline |-> 9, begbuf |-> 10, endbuf |-> 11, jump |-> 12, jump_past_alt |-> 13,
       on_failure_jump |-> 14, on_failure_keep_string_jump |-> 15,
       pop_failure_jump |-> 16, maybe_pop_jump |-> 17, dummy_failure_jump |-> 18,
       push_dummy_failure |-> 19, succeed_n |-> 20, jump_n |-> 21, set_number_at |-> 22,
       wordchar |-> 23, notwordchar |-> 24, wordbeg |-> 25, wordend |-> 26,
       wordbound |-> 27, notwordbound |-> 28]

Jumps  == {op.jump, op.jump_past_alt, op.on_failure_jump, op.pop_failure_jump,
           op.on_failure_keep_string_jump, op.maybe_pop_jump, op.dummy_failure_jump}
Jumps2 == {op.succeed_n, op.jump_n}

EmptyOps == {op.no_op, op.begline, op.endline, op.begbuf, op.endbuf, op.wordbeg,
             op.wordend, op.wordbound, op.notwordbound}

ArgBytes(code, i) ==
  CASE code[i] \in {op.exactn, op.charset, op.charset_not} -> 1 + code[i + 1]
    [] code[i] \in {op.start_memory, op.stop_memory}        -> 2
    [] code[i] = op.duplicate                               -> 1
    [] code[i] \in Jumps                                    -> 2
    [] code[i] \in Jumps2 \cup {op.set_number_at}           -> 4
    [] OTHER                                                -> 0

End(code) == Len(code) + 1   \* pend; also b, the next free byte, of the compiler

(* STORE_NUMBER and EXTRACT_NUMBER: two bytes, low first, sign in the high one. *)
NumberBytes(n) == <<n % 256, (n \div 256) % 256>>
Number(code, i) ==
  code[i] + 256 * (IF code[i + 1] < 128 THEN code[i + 1] ELSE code[i + 1] - 256)

(* Bytes written over the code at loc, or put in before it.                *)
Put(code, loc, bytes) ==
  SubSeq(code, 1, loc - 1) \o bytes \o SubSeq(code, loc + Len(bytes), Len(code))
Insert(code, loc, bytes) ==
  SubSeq(code, 1, loc - 1) \o bytes \o SubSeq(code, loc, Len(code))
Op1(o, arg)        == <<o>> \o NumberBytes(arg)
Op2(o, arg1, arg2) == <<o>> \o NumberBytes(arg1) \o NumberBytes(arg2)

StoreJump(o, code, loc, to)        == Put(code, loc, Op1(o, to - loc - 3))
StoreJump2(o, code, loc, to, arg)  == Put(code, loc, Op2(o, to - loc - 3, arg))
(* Mutant: the jump's own length is not taken off.                         *)
InsertJumpShort(o, code, loc, to)  == Insert(code, loc, Op1(o, to - loc))
InsertJump(o, code, loc, to)       == Insert(code, loc, Op1(o, to - loc - 3))
InsertJump2(o, code, loc, to, arg) == Insert(code, loc, Op2(o, to - loc - 3, arg))

(* A set of codes as the bitmap of a charset, trailing zero bytes cut off, *)
(* and the test the matcher makes: map is the address of the length byte.  *)
Bitmap(S) ==
  LET n == IF S = {} THEN 0 ELSE Max(S) \div 8 + 1
      bit(i, k) == IF 8 * (i - 1) + k \in S THEN 2^k ELSE 0
  IN [i \in 1..n |-> bit(i, 0) + bit(i, 1) + bit(i, 2) + bit(i, 3)
                      + bit(i, 4) + bit(i, 5) + bit(i, 6) + bit(i, 7)]
InBitmap(code, map, c) ==
  c < 8 * code[map] /\ (code[map + 1 + c \div 8] \div 2^(c % 8)) % 2 = 1

(* REG_MATCH_NULL_STRING_P, two bits: "unset" is 3 and as true as "yes".   *)
Nullable(info, r) == info[r].null # "no"
SetNull(info, r, ok) ==
  [info EXCEPT ![r].null = IF @ = "unset" THEN IF ok THEN "yes" ELSE "no" ELSE @]
==============================================================================
