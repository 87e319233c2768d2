---------------------------- MODULE RegexLanguage ----------------------------
(***************************************************************************)
(* What a regular expression promises, independently of bytecode and       *)
(* backtracking: the texts it stands for, by structural recursion on its   *)
(* syntax tree.  The implementation of src/regex.c is compared with it.    *)
(*                                                                         *)
(* A tree is <<"char", c>>, <<"any">>, <<"set", S, negated>>, <<"empty">>, *)
(* <<"bol">>, <<"eol">>, <<"word">>, <<"begbuf">>, <<"endbuf">>,           *)
(* <<"cat", r, s>>, <<"alt", r, s>>,                                       *)
(* <<"group", r, n>>, <<"back", n>>, <<"star", r>>, <<"plus", r>>,         *)
(* <<"opt", r>>, <<"times", r, low, high>>, or <<"raw", text, r>> for a    *)
(* text given as it is, which should mean r, or nothing if r is <<"bad">>. *)
(***************************************************************************)
EXTENDS RegexCode, SequencesExt

(* The text of a tree, as a syntax (a set of bits) wants it written.       *)
Mark(bare, c) == IF bare THEN <<c>> ELSE <<"\\", c>>
Decimal(n) == Chars(ToString(n))

RECURSIVE Text(_, _)
Text(r, syntax) ==
  LET Of(s) == Text(s, syntax)
      Bare(bit) == bit \in syntax
      Suffix(c) == Of(r[2]) \o Mark(~Bare("RE_BK_PLUS_QM"), c)
      Paren(c)  == Mark(Bare("RE_NO_BK_PARENS"), c)
      Brace(c)  == Mark(Bare("RE_NO_BK_BRACES"), c)
      Listed(c) == Mark(c # "\\" \/ ~Bare("RE_BACKSLASH_ESCAPE_IN_LISTS"), c)
  IN CASE r[1] = "char"  -> <<r[2]>>
       [] r[1] = "any"   -> <<".">>
       [] r[1] = "set"   -> <<"[">> \o (IF r[3] THEN <<"^">> ELSE <<>>)
                              \o FlattenSeq([k \in 1..Cardinality(r[2]) |-> Listed(SetToSeq(r[2])[k])])
                              \o <<"]">>
       [] r[1] = "empty" -> <<>>
       [] r[1] = "raw"   -> r[2]
       [] r[1] = "bol"   -> <<"^">>
       [] r[1] = "eol"   -> <<"$">>
       [] r[1] = "word"  -> <<"\\", "b">>
       [] r[1] = "begbuf" -> <<"\\", BACKQUOTE>>
       [] r[1] = "endbuf" -> <<"\\", "'">>
       [] r[1] = "cat"   -> Of(r[2]) \o Of(r[3])
       [] r[1] = "alt"   -> Of(r[2]) \o Mark(Bare("RE_NO_BK_VBAR"), "|") \o Of(r[3])
       [] r[1] = "group" -> Paren("(") \o Of(r[2]) \o Paren(")")
       [] r[1] = "back"  -> <<"\\">> \o Decimal(r[2])
       [] r[1] = "star"  -> Of(r[2]) \o <<"*">>
       [] r[1] = "plus"  -> Suffix("+")
       [] r[1] = "opt"   -> Suffix("?")
       [] r[1] = "times" -> Of(r[2]) \o Brace("{") \o Decimal(r[3]) \o <<",">>
                              \o Decimal(r[4]) \o Brace("}")

(* What the pattern is matched with, x: the text, the buffer's settings,   *)
(* and whether its ends count as ends of a line.                           *)
(* A position is a number of characters passed, with what each group       *)
(* matched last.                                                           *)
RECURSIVE From(_, _, _), Closure(_, _, _, _)

Repeat(r, x, S) == UNION {From(r, x, s) : s \in S}
(* Every position reached from S by at most n more repetitions.            *)
Closure(r, x, S, n) == IF n = 0 THEN S ELSE Closure(r, x, S \cup Repeat(r, x, S), n - 1)

From(r, x, s) ==
  LET i == s.pos
      size == Len(x.text)
      fold(c) == IF x.translate THEN LowerChar[c] ELSE c
      char == fold(x.text[i + 1])
      Newline(k) == k \in 1..size /\ x.text[k] = "\n"
      Excludes(lines) == Newline(i + 1) /\ lines
      Word(k) == k \in 1..size /\ Ord[x.text[k]] \in WordCodes
      One(ok) == IF ok THEN {[s EXCEPT !.pos = i + 1]} ELSE {}
      Here(ok) == IF ok THEN {s} ELSE {}
      All == Closure(r[2], x, {s}, size + 1)
  IN CASE r[1] = "char"  -> One(i < size /\ char = fold(r[2]))
       [] r[1] = "any"   -> One(i < size /\ ~Excludes("RE_DOT_NEWLINE" \notin x.syntax))
       [] r[1] = "set"   -> One(i < size /\ (char \in {fold(c) : c \in r[2]}) # r[3]
                                  /\ ~Excludes(r[3] /\ "RE_HAT_LISTS_NOT_NEWLINE" \in x.syntax))
       [] r[1] = "empty" -> {s}
       [] r[1] = "bad"   -> {}
       [] r[1] = "raw"   -> From(r[3], x, s)
       [] r[1] = "bol"   -> Here(IF i = 0 THEN ~x.not_bol ELSE x.newline_anchor /\ Newline(i))
       [] r[1] = "eol"   -> Here(IF i = size THEN ~x.not_eol
                                 ELSE x.newline_anchor /\ Newline(i + 1))
       [] r[1] = "word"  -> Here(i = 0 \/ i = size \/ Word(i) # Word(i + 1))
       [] r[1] = "begbuf" -> Here(i = 0)
       [] r[1] = "endbuf" -> Here(i = size)
       [] r[1] = "cat"   -> Repeat(r[3], x, From(r[2], x, s))
       [] r[1] = "alt"   -> From(r[2], x, s) \cup From(r[3], x, s)
       [] r[1] = "group" -> {[e EXCEPT !.groups = (r[3] :> <<i, e.pos>>) @@ @] :
                               e \in From(r[2], x, s)}
       [] r[1] = "back"  ->
            IF r[2] \notin DOMAIN s.groups THEN {}
            ELSE LET g == s.groups[r[2]]
                     n == g[2] - g[1]
                 IN IF \/ i + n > size
                       \/ \E k \in 1..n : fold(x.text[i + k]) # fold(x.text[g[1] + k])
                    THEN {} ELSE {[s EXCEPT !.pos = i + n]}
       [] r[1] = "star"  -> All
       [] r[1] = "plus"  -> Repeat(r[2], x, All)
       [] r[1] = "opt"   -> {s} \cup From(r[2], x, s)
       [] r[1] = "times" ->
            LET must == FoldLeft(LAMBDA S, k : Repeat(r[2], x, S), {s}, [k \in 1..r[3] |-> k])
            IN Closure(r[2], x, must, r[4] - r[3])

(* The places where a match may end if it starts after i characters, and   *)
(* the places where a match starts.                                        *)
Ends(r, x, i) == {e.pos : e \in From(r, x, [pos |-> i, groups |-> <<>>])}
Starts(r, x)  == {i \in 0..Len(x.text) : Ends(r, x, i) # {}}
==============================================================================
