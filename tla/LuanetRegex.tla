----------------------------- MODULE LuanetRegex -----------------------------
(***************************************************************************)
(* luanet.regex.match() of src/luanet_regex.cpp over the POSIX entry       *)
(* points of src/regex.c, and the GNU and BSD entry points beside them:    *)
(* who compiles which pattern, searches with it, and frees it.             *)
(*                                                                         *)
(* A pattern is a tree (of RegexLanguage); the compiler gets its text.     *)
(***************************************************************************)
EXTENDS RegexMatch

CONSTANTS
  TextOf(_, _), \* the text of a tree, as a syntax wants it written
  LuanetTrees, LuanetTexts,  \* the patterns and strings of match()
  Trees, Texts, \* those of the other entry points
  CFlags,       \* sets of flags given to regcomp
  EFlags,       \* sets of flags given to regexec
  Syntaxes,     \* values of re_syntax_options
  MaxSearches   \* bound on the searches made with one compiled pattern

VARIABLES
  call,     \* the entry point being executed
  result,   \* what the last one returned
  searches  \* searches made with the compiled pattern

regexVars == <<pattern, bufp, cl, heap, m, call, result, searches>>

NoBuffer ==
  [buffer |-> <<>>, allocated |-> 0, re_nsub |-> 0, syntax |-> {}, translate |-> FALSE,
   newline_anchor |-> FALSE, no_sub |-> FALSE, not_bol |-> FALSE, not_eol |-> FALSE,
   fastmap |-> FALSE, fastmap_accurate |-> FALSE, map |-> {}, can_be_null |-> FALSE]
NoCall   == [fn |-> "none", interface |-> "none"]
NoResult == [fn |-> "none"]

Init ==
  /\ pattern = <<>> /\ bufp = NoBuffer /\ cl = NoLocals("none") /\ heap = {}
  /\ m = Idle /\ call = NoCall /\ result = NoResult /\ searches = 0

-----------------------------------------------------------------------------
(* Compiling.                                                              *)
Enter(new) == call' = new /\ result' = NoResult
Compile(tree, buf) == StartCompile(TextOf(tree, buf.syntax), buf) /\ UNCHANGED <<m, searches>>

(* The program has one pattern at a time, and reads a result before it     *)
(* calls again.                                                            *)
Fresh == call = NoCall /\ result = NoResult /\ heap = {}

(* The buffer regcomp hands to regex_compile.                              *)
RegcompBuffer(cflags) ==
  LET syntax == IF "REG_EXTENDED" \in cflags THEN POSIX_EXTENDED ELSE POSIX_BASIC
      lines  == "REG_NEWLINE" \in cflags
  IN [NoBuffer EXCEPT
        !.syntax = IF lines THEN (syntax \ {"RE_DOT_NEWLINE"}) \cup {"RE_HAT_LISTS_NOT_NEWLINE"}
                   ELSE syntax,
        !.translate = "REG_ICASE" \in cflags, !.newline_anchor = lines,
        !.no_sub = "REG_NOSUB" \in cflags]

LuanetFlags == {"REG_NOSUB", "REG_EXTENDED"}

(* Every text is made of characters that have a code.                      *)
ASSUME TextAssumption ==
  \A tree \in LuanetTrees \cup Trees :
    \A syntax \in Syntaxes \cup {RegcompBuffer(cflags).syntax :
                                    cflags \in CFlags \cup {LuanetFlags}} :
      TextOf(tree, syntax) \in Seq(DOMAIN Ord)

Regcomp(tree, cflags) ==
  /\ Enter([fn |-> "regcomp", interface |-> "posix", tree |-> tree])
  /\ Compile(tree, RegcompBuffer(cflags))

(* regex_match: the same, then regexec, then regfree.                      *)
RegexMatch(chaine, tree) ==
  /\ Enter([fn |-> "regex_match", interface |-> "luanet", tree |-> tree, text |-> chaine,
            eflags |-> {}])
  /\ Compile(tree, RegcompBuffer(LuanetFlags))

(* re_compile_pattern, with or without a fastmap of the caller's, and      *)
(* re_comp, whose one buffer has a fastmap and 200 bytes.                  *)
ReCompilePattern(tree, syntax, fastmap) ==
  /\ Enter([fn |-> "re_compile_pattern", interface |-> "gnu", tree |-> tree])
  /\ Compile(tree, [NoBuffer EXCEPT !.syntax = syntax, !.newline_anchor = TRUE,
                                    !.fastmap = fastmap])
ReComp(tree, syntax) ==
  /\ Enter([fn |-> "re_comp", interface |-> "bsd", tree |-> tree])
  /\ Compile(tree, [NoBuffer EXCEPT !.syntax = syntax, !.newline_anchor = TRUE,
                                    !.fastmap = TRUE, !.allocated = Min({200, MAX_BUF_SIZE})])

Compiling == call.fn # "none" /\ cl.pc = "returned" /\ m.pc = "idle"
(* POSIX has one code for both unmatched parentheses.                      *)
Reported(err) == IF err = "REG_ERPAREN" THEN "REG_EPAREN" ELSE err
CompileReturns ==
  /\ Compiling /\ call.fn \in {"regcomp", "re_compile_pattern", "re_comp"}
  /\ result' = [fn |-> call.fn, tree |-> call.tree,
                ret |-> IF call.fn = "regcomp" THEN Reported(cl.ret) ELSE cl.ret]
  /\ call' = [NoCall EXCEPT !.interface = call.interface]
  /\ UNCHANGED <<compileVars, m, searches>>

-----------------------------------------------------------------------------
(* Searching with what was compiled without an error.                      *)
Ready(interface) ==
  call = [NoCall EXCEPT !.interface = interface] /\ cl.ret = "REG_NOERROR"
Search(text, startpos, range, eflags) ==
  /\ \E high_half \in IF bufp.re_nsub = 0 THEN {FALSE} ELSE BOOLEAN :
       StartSearch(text, startpos, range, "REG_NOTBOL" \in eflags, "REG_NOTEOL" \in eflags,
                   high_half)
  /\ searches' = searches + 1
  /\ UNCHANGED <<pattern, cl, heap>>
Searching(fn, interface, text, startpos, range, eflags) ==
  /\ Ready(interface)
  /\ Enter([fn |-> fn, interface |-> interface, tree |-> result.tree, text |-> text,
            startpos |-> startpos, range |-> range, eflags |-> eflags])
  /\ Search(text, startpos, range, eflags)

Regexec(text, eflags) == Searching("regexec", "posix", text, 0, Len(text), eflags)
ReExec(text)          == Searching("re_exec", "bsd", text, 0, Len(text), {})
ReSearch(text, startpos, range) ==
  Searching("re_search", "gnu", text, startpos, range, {})

SearchReturns ==
  /\ m.pc = "done" /\ call.fn \in {"regexec", "re_exec", "re_search"}
  /\ result' = [fn |-> call.fn, tree |-> call.tree, text |-> call.text, search |-> m,
                startpos |-> call.startpos, range |-> call.range, eflags |-> call.eflags,
                ret |-> CASE call.fn = "re_search" -> m.ret
                          [] call.fn = "re_exec"   -> m.ret >= 0
                          [] OTHER -> IF m.ret >= 0 THEN "REG_NOERROR" ELSE "REG_NOMATCH"]
  /\ call' = [NoCall EXCEPT !.interface = call.interface]
  /\ m' = Idle
  /\ UNCHANGED <<compileVars, searches>>

-----------------------------------------------------------------------------
(* regfree.  It knows nothing of the stack of the compiler.                *)
(* Mutant: the buffer is forgotten.                                        *)
FreedBut1 == heap \ {"translate"}
Freed == heap \ {"buffer", "translate"}
Reset ==
  /\ heap' = Freed /\ bufp' = NoBuffer /\ pattern' = <<>> /\ cl' = NoLocals("none")
  /\ m' = Idle /\ searches' = 0
Regfree ==
  /\ call = [NoCall EXCEPT !.interface = "posix"]
  /\ Reset /\ call' = NoCall /\ result' = NoResult

(* The rest of regex_match: an error is false, and so is REG_NOMATCH only. *)
RegexMatchExec ==
  /\ Compiling /\ call.fn = "regex_match" /\ cl.ret = "REG_NOERROR"
  /\ Search(call.text, 0, Len(call.text), {})
  /\ UNCHANGED <<call, result>>
RegexMatchReturns ==
  /\ call.fn = "regex_match"
  /\ m.pc = "done" \/ (Compiling /\ cl.ret # "REG_NOERROR")
  /\ result' = [fn |-> "regex_match", tree |-> call.tree, text |-> call.text, search |-> m,
                err |-> Reported(cl.ret), ret |-> m.pc = "done" /\ m.ret >= 0]
  /\ Reset /\ call' = NoCall

CompileRuns == call.fn # "none" /\ CompileStep /\ UNCHANGED <<m, call, result, searches>>
SearchRuns  == MatchStep /\ UNCHANGED <<call, result, searches>>

(* The program: it calls an entry point when none is running.              *)
CallCompile ==
  \/ \E tree \in LuanetTrees, chaine \in LuanetTexts : RegexMatch(chaine, tree)
  \/ \E tree \in Trees :
       \/ \E cflags \in CFlags : Regcomp(tree, cflags)
       \/ \E syntax \in Syntaxes :
            \/ ReComp(tree, syntax)
            \/ \E fastmap \in BOOLEAN : ReCompilePattern(tree, syntax, fastmap)
CallSearch ==
  \E text \in Texts :
    \/ \E eflags \in EFlags : Regexec(text, eflags)
    \/ ReExec(text)
    \/ \E startpos \in 0..Len(text) : \E range \in (-startpos)..(Len(text) - startpos) :
         ReSearch(text, startpos, range)
Call ==
  \/ Fresh /\ CallCompile
  \/ call.fn = "none" /\ searches < MaxSearches /\ CallSearch
  \/ Regfree

(* The steps of a call that is running.                                    *)
Run ==
  \/ CompileRuns \/ SearchRuns \/ CompileReturns \/ SearchReturns
  \/ RegexMatchExec \/ RegexMatchReturns

Next == Call \/ Run
Spec == Init /\ [][Next]_regexVars /\ WF_regexVars(Run)
==============================================================================
