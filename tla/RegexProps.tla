------------------------------ MODULE RegexProps ------------------------------
(***************************************************************************)
(* What luanet.regex and GNU regex promise, over LuanetRegex.              *)
(***************************************************************************)
EXTENDS RegexSafety

L == INSTANCE RegexLanguage

Malformed(tree) == tree[1] = "raw" /\ tree[3] = <<"bad">>
Searches == {"regex_match", "regexec", "re_exec", "re_search"}
Searched == result.fn \in Searches /\ ~Malformed(result.tree)

(* What a finished search was asked, for RegexLanguage.                    *)
Asked ==
  LET buf == IF result.fn = "regex_match" THEN RegcompBuffer(LuanetFlags)
             ELSE bufp
      eflags == IF result.fn = "regexec" THEN result.eflags ELSE {}
  IN [text |-> result.text, translate |-> buf.translate, syntax |-> buf.syntax,
      newline_anchor |-> buf.newline_anchor,
      not_bol |-> "REG_NOTBOL" \in eflags, not_eol |-> "REG_NOTEOL" \in eflags]
(* The places it tried, the first and the last.                            *)
First == IF result.fn = "re_search" THEN result.startpos ELSE 0
Stop  == IF result.fn = "re_search" THEN First + result.range ELSE Len(result.text)

(* A search finds the pattern where its language says it first occurs, and *)
(* finds nothing exactly when it does not occur, whatever earlier searches *)
(* rewrote in the bytecode and whether or not a fastmap skips places       *)
(* (re_search_2, re_match_2, re_compile_fastmap).                          *)
SearchFindsTheFirst ==
  Searched =>
    LET S == {i \in L!Starts(result.tree, Asked) : i \in First..Stop \cup Stop..First}
    IN result.search.ret = IF S = {} THEN -1 ELSE IF First <= Stop THEN Min(S) ELSE Max(S)

(* What is reported as the match is one: the text from its start to its    *)
(* end is in the language, and what a group is said to have matched lies   *)
(* inside it, start before end (re_match_2, regexec's pmatch).             *)
MatchIsReal ==
  (Searched /\ result.search.ret >= 0) =>
    LET whole == result.search.whole
    IN /\ whole[2] \in L!Ends(result.tree, Asked, whole[1])
       /\ \A r \in DOMAIN result.search.regs :
            LET reg == result.search.regs[r]
            IN reg = <<-1, -1>> \/ (whole[1] <= reg[1] /\ reg[1] <= reg[2] /\ reg[2] <= whole[2])

(* regex_match() is true exactly for the strings the expression matches    *)
(* somewhere, and false for an expression that does not compile            *)
(* (luanet_regex.cpp).                                                     *)
MatchIsTrueIfItOccurs ==
  result.fn = "regex_match" => (result.ret = (L!Starts(result.tree, Asked) # {}))

(* A pattern is refused exactly when it is malformed: what the compiler    *)
(* gathers about groups and alternatives left open is settled at the end   *)
(* of the others (regex_compile).                                          *)
RefusesTheMalformed ==
  /\ result.fn = "regex_match" => ((result.err = "REG_NOERROR") = ~Malformed(result.tree))
  /\ result.fn \in {"regcomp", "re_compile_pattern", "re_comp"} =>
       ((result.ret = "REG_NOERROR") = ~Malformed(result.tree))

-----------------------------------------------------------------------------
(* Every call returns: no loop of a pattern is run for ever without        *)
(* matching a character.                                                   *)
CallsReturn == (call.fn # "none") ~> (call.fn = "none")
===============================================================================
