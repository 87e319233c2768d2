------------------------------ MODULE RegexMatch ------------------------------
(***************************************************************************)
(* re_search_2() and re_match_2() of src/regex.c on one string: one action *)
(* per opcode, and one for the label `fail'.  The matcher rewrites the     *)
(* bytecode as it runs (maybe_pop_jump, succeed_n, jump_n, set_number_at), *)
(* in the buffer every later search with the same pattern uses.            *)
(*                                                                         *)
(* The string is string2 of the code (string1 is null); d is the number of *)
(* its characters before the current position.                             *)
(***************************************************************************)
EXTENDS RegexCompile

CONSTANTS
  re_max_failures,  \* the variable of that name: 2000
  NullOf(_, _, _),  \* group_match_null_string_p(), GroupNull of RegexNull
  FastmapOf(_, _)   \* re_compile_fastmap(), Fastmap of RegexNull

VARIABLE m   \* the locals of re_search_2 and re_match_2

INIT_FAILURE_ALLOC == 5
NO_HIGHEST_ACTIVE_REG == 256
NO_LOWEST_ACTIVE_REG  == 257
UNSET == -1   \* REG_UNSET_VALUE
KEEP  == -1   \* the null string of a failure point: d stays as it is

Groups == 1..bufp.re_nsub
Idle == [pc |-> "idle", ret |-> 0]

(* re_search: what re_search_2 starts from.  high_half says on which side  *)
(* of 2^31 the low 32 bits of the string's addresses lie: stop_memory      *)
(* compares pointers cast to int.                                          *)
StartSearch(text, startpos, range, not_bol, not_eol, high_half) ==
  LET endpos == startpos + range
      inside == IF endpos < -1 THEN -1 - startpos
                ELSE IF endpos > Len(text) THEN Len(text) - startpos ELSE range
      begbuf == Len(Code) > 0 /\ Code[1] = op.begbuf /\ inside > 0
      use    == bufp.fastmap /\ ~bufp.fastmap_accurate
      fast   == IF use THEN FastmapOf(Code, Has("RE_DOT_NEWLINE"))
                ELSE [map |-> bufp.map, can_be_null |-> bufp.can_be_null]
      bad    == startpos \notin 0..Len(text) \/ (begbuf /\ startpos > 0)
  IN /\ m' = IF bad THEN [pc |-> "done", ret |-> -1]
             ELSE [pc |-> "search", text |-> text, startpos |-> startpos,
                   range |-> IF begbuf THEN 1 ELSE inside,
                   not_bol |-> not_bol, not_eol |-> not_eol, high_half |-> high_half]
     /\ bufp' = IF bad THEN bufp
                ELSE [bufp EXCEPT !.map = fast.map, !.can_be_null = fast.can_be_null,
                                  !.fastmap_accurate = @ \/ use]

Step(new) == m' = new /\ UNCHANGED compileVars
Rewrite(code, new) ==
  m' = new /\ bufp' = [bufp EXCEPT !.buffer = code] /\ UNCHANGED <<pattern, cl, heap>>

-----------------------------------------------------------------------------
(* The loop of re_search_2.  The fastmap skips places forwards; backwards  *)
(* it passes over one.                                                     *)
TextEnd == Len(m.text)
CodeAt(i) == Ord[Translated(m.text[i + 1])]

EnterMatch(startpos, range) ==
  [pc |-> "match", text |-> m.text, startpos |-> startpos, range |-> range,
   not_bol |-> m.not_bol, not_eol |-> m.not_eol, high_half |-> m.high_half,
   p |-> 1, d |-> startpos, stack |-> <<>>, size |-> INIT_FAILURE_ALLOC,
   low |-> NO_LOWEST_ACTIVE_REG, high |-> NO_HIGHEST_ACTIVE_REG,
   start |-> [r \in Groups |-> UNSET], end |-> [r \in Groups |-> UNSET],
   oldstart |-> [r \in Groups |-> UNSET], oldend |-> [r \in Groups |-> UNSET],
   info |-> [r \in Groups |-> [null |-> "unset", active |-> FALSE,
                               matched |-> FALSE, ever |-> FALSE]],
   best |-> <<>>]

Done(ret) == [pc |-> "done", ret |-> ret]
Advance(at) ==
  IF at.range = 0 THEN Done(-1)
  ELSE LET step == IF at.range > 0 THEN 1 ELSE -1
       IN [pc |-> "search", text |-> at.text, startpos |-> at.startpos + step,
           range |-> at.range - step, not_bol |-> at.not_bol, not_eol |-> at.not_eol,
           high_half |-> at.high_half]

TryHere ==
  /\ m.pc = "search"
  /\ LET skips == bufp.fastmap /\ ~bufp.can_be_null /\ m.startpos < TextEnd
         n == IF ~skips \/ m.range <= 0 THEN 0
              ELSE Min({m.range} \cup {k \in 0..(m.range - 1) : CodeAt(m.startpos + k) \in bufp.map})
         startpos == m.startpos + n
         range    == m.range - n
     IN Step(IF skips /\ m.range <= 0 /\ CodeAt(m.startpos) \notin bufp.map THEN Advance(m)
             ELSE IF /\ range >= 0 /\ startpos = TextEnd
                     /\ bufp.fastmap /\ ~bufp.can_be_null
             THEN Done(-1)
             ELSE EnterMatch(startpos, range))

(* What re_match_2 returned: a length (with the registers, as offsets), a  *)
(* failure, or an overflow of the failure stack.                           *)
Registers ==
  [r \in Groups |-> IF m.start[r] = UNSET \/ m.end[r] = UNSET THEN <<-1, -1>>
                    ELSE <<m.start[r], m.end[r]>>]
Result ==
  /\ m.pc \in {"accept", "reject", "overflow"}
  /\ Step(CASE m.pc = "accept" -> [pc |-> "done", ret |-> m.startpos,
                                   whole |-> <<m.startpos, m.d>>, regs |-> Registers]
            [] m.pc = "overflow" -> Done(-2)
            [] OTHER -> Advance(m))

-----------------------------------------------------------------------------
(* The failure stack.  A point saves the place in the pattern (0 in a      *)
(* dummy), the place in the string and the active registers; room for      *)
(* `items' is made for it in an array that doubles up to a limit.  The     *)
(* count is unsigned: below zero it is more than any array has room for.   *)
Saved(at, r) == [start |-> at.start[r], end |-> at.end[r], info |-> at.info[r]]
(* Mutant: the range of registers is counted without its last one.         *)
ItemsBut1(at) == 3 * (at.high - at.low) + 4
Items(at) == 3 * (at.high - at.low + 1) + 4
MaxItems  == 3 * bufp.re_nsub + 4
Pushed(point) == 3 * Cardinality(DOMAIN point.regs) + 4
Avail(at) == FoldLeft(LAMBDA n, point : n + Pushed(point), 0, at.stack)

Push(at, pat, str) ==
  LET need == Avail(at) + Items(at)
      k    == CHOOSE k \in 0..16 : /\ at.size * 2^k >= need
                                   /\ k = 0 \/ at.size * 2^(k - 1) < need
      point == [pat |-> pat, str |-> str, low |-> at.low, high |-> at.high,
                regs |-> [r \in at.low..at.high |-> Saved(at, r)], items |-> Items(at)]
  IN IF Items(at) < 0 \/ (k > 0 /\ at.size * 2^(k - 1) > re_max_failures * MaxItems)
     THEN [at EXCEPT !.pc = "overflow"]
     ELSE [at EXCEPT !.stack = Append(@, point), !.size = @ * 2^k]

(* POP_FAILURE_POINT, of a stack that holds a point; without one the code  *)
(* reads below the array.                                                  *)
Restored(at) ==
  LET point == Last(at.stack)
      Of(old, new(_)) == [r \in Groups |-> IF r \in DOMAIN point.regs THEN new(point.regs[r])
                                           ELSE old[r]]
  IN [at EXCEPT !.stack = Front(@), !.p = point.pat,
                !.d = IF point.str = KEEP THEN @ ELSE point.str,
                !.low = point.low, !.high = point.high,
                !.start = Of(@, LAMBDA s : s.start), !.end = Of(@, LAMBDA s : s.end),
                !.info = Of(@, LAMBDA s : s.info)]
Dropped(at) == IF at.stack = <<>> THEN [at EXCEPT !.pc = "crashed"]
               ELSE [at EXCEPT !.stack = Front(@)]

(* The label fail: one point is taken off.  A dummy is skipped, and so is  *)
(* a point at the backward jump of a loop.  Of a jump to the end, which is *)
(* none, the code reads the byte beyond the bytecode, which nobody wrote.  *)
AtLoopJump(code, beyond, i) ==
  /\ i <= Len(code)
  /\ code[i] \in {op.jump_n, op.maybe_pop_jump, op.pop_failure_jump, op.jump}
  /\ Append(code, beyond)[i + 3 + Number(code, i + 1)]
       = IF code[i] = op.jump_n THEN op.succeed_n ELSE op.on_failure_jump

(* Mutant: the best match is remembered and not brought back.              *)
BestKept(at) == [at EXCEPT !.pc = IF at.best = <<>> THEN "reject" ELSE "accept"]
Best(at) == IF at.best = <<>> THEN [at EXCEPT !.pc = "reject"]
            ELSE [at EXCEPT !.pc = "accept", !.d = at.best[1].d,
                            !.start = at.best[1].start, !.end = at.best[1].end]
Backtrack ==
  /\ m.pc = "fail"
  /\ \E beyond \in {op.no_op, op.on_failure_jump} :
       Step(IF m.stack = <<>> THEN Best(m)
            ELSE LET at == Restored(m)
                 IN IF at.p = 0 \/ AtLoopJump(Code, beyond, at.p) THEN at
                    ELSE [at EXCEPT !.pc = "match"])

-----------------------------------------------------------------------------
(* Through the pattern: a match of the whole string ends the search, a     *)
(* shorter one only when no failure point is left to try.                  *)
PatternEnd ==
  /\ m.pc = "match" /\ m.p = End(Code)
  /\ Step(IF m.d = TextEnd THEN [m EXCEPT !.pc = "accept"]
          ELSE IF m.stack # <<>>
          THEN [m EXCEPT !.pc = "fail",
                         !.best = IF @ = <<>> \/ m.d > @[1].d
                                  THEN <<[d |-> m.d, start |-> m.start, end |-> m.end]>> ELSE @]
          ELSE IF m.best = <<>> THEN [m EXCEPT !.pc = "accept"] ELSE Best(m))

At(ops) == m.pc = "match" /\ m.p <= Len(Code) /\ Code[m.p] \in ops
Next1 == m.p + 1 + ArgBytes(Code, m.p)     \* the following instruction
Target(i) == i + 3 + Number(Code, i + 1)   \* where the jump at i goes
Fail(d) == [m EXCEPT !.pc = "fail", !.d = d]

(* SET_REGS_MATCHED, then past the n characters matched.                   *)
Matched(n) ==
  [m EXCEPT !.p = Next1, !.d = @ + n,
            !.info = [r \in Groups |-> IF r \in m.low..m.high
                                       THEN [@[r] EXCEPT !.matched = TRUE, !.ever = TRUE]
                                       ELSE @[r]]]

(* exactn: a character that differs has been passed when the match fails.  *)
ExactN ==
  /\ At({op.exactn})
  /\ LET n   == Code[m.p + 1]
         bad == {i \in 1..n : \/ m.d + i > TextEnd
                              \/ CodeAt(m.d + i - 1) # Code[m.p + 1 + i]}
     IN Step(IF bad = {} THEN Matched(n) ELSE Fail(Min({m.d + Min(bad), TextEnd})))

(* WORDCHAR_P indexes its table with the character as it is, a signed char:  *)
(* one above 127 reads in front of the table; here it is no word character.  *)
Word(i) == i \in 0..(TextEnd - 1) /\ Ord[m.text[i + 1]] \in WordCodes
Accepts(c) ==
  CASE Code[m.p] = op.anychar -> ~\/ ~Has("RE_DOT_NEWLINE") /\ c = 10
                                  \/ Has("RE_DOT_NOT_NULL") /\ c = 0
    [] Code[m.p] \in {op.charset, op.charset_not} ->
         InBitmap(Code, m.p + 1, c) = (Code[m.p] = op.charset)
    [] OTHER -> Word(m.d) = (Code[m.p] = op.wordchar)
OneChar ==
  /\ At({op.anychar, op.charset, op.charset_not, op.wordchar, op.notwordchar})
  /\ Step(IF m.d < TextEnd /\ Accepts(CodeAt(m.d)) THEN Matched(1) ELSE Fail(m.d))

(* Anchors and word boundaries.                                            *)
AtBeg == m.d = 0
AtEnd == m.d = TextEnd
Newline(i) == bufp.newline_anchor /\ m.text[i + 1] = "\n"
Boundary == AtBeg \/ AtEnd \/ Word(m.d - 1) # Word(m.d)
Holds(o) ==
  CASE o = op.no_op        -> TRUE
    [] o = op.begline      -> IF AtBeg THEN ~m.not_bol ELSE Newline(m.d - 1)
    [] o = op.endline      -> IF AtEnd THEN ~m.not_eol ELSE Newline(m.d)
    [] o = op.begbuf       -> AtBeg
    [] o = op.endbuf       -> AtEnd
    [] o = op.wordbound    -> Boundary
    [] o = op.notwordbound -> ~Boundary
    [] o = op.wordbeg      -> Word(m.d) /\ (AtBeg \/ ~Word(m.d - 1))
    [] o = op.wordend      -> ~AtBeg /\ Word(m.d - 1) /\ (~Word(m.d) \/ AtEnd)
Assertion ==
  /\ At(EmptyOps)
  /\ Step(IF Holds(Code[m.p]) THEN [m EXCEPT !.p = Next1] ELSE Fail(m.d))

-----------------------------------------------------------------------------
(* Groups.                                                                 *)
StartMemory ==
  /\ At({op.start_memory})
  /\ LET r    == Code[m.p + 1]
         g    == NullOf(Code, m.p + 1, m.info)
         info == IF m.info[r].null = "unset" THEN SetNull(g.info, r, g.ok) ELSE m.info
     IN Step([m EXCEPT
          !.p = Next1, !.start[r] = m.d, !.high = r,
          !.oldstart[r] = IF Nullable(info, r) /\ m.start[r] = UNSET THEN m.d ELSE m.start[r],
          !.low  = IF @ = NO_LOWEST_ACTIVE_REG THEN r ELSE @,
          !.info = [info EXCEPT ![r].active = TRUE, ![r].matched = FALSE]])

(* (int) a >= (int) b for two string pointers, one of which may be -1.     *)
IntGe(a, b) == IF a = UNSET THEN b = UNSET \/ m.high_half
               ELSE IF b = UNSET THEN ~m.high_half ELSE a >= b

(* The loop the group ending here repeats in, seen from the jump after it: *)
(* the target of its on_failure_jump, 0 if there is none.                  *)
(* Mutant: no loop is ever left for having matched nothing.                *)
LoopExitNone(r) == 0
LoopExit(r) ==
  LET i == Next1
      jumps == {op.jump_n, op.pop_failure_jump, op.maybe_pop_jump, op.jump,
                op.dummy_failure_jump}
      to == Target(i) + IF Code[i] = op.jump_n THEN 2 ELSE 0
  IN IF /\ Code[i] \in jumps /\ Number(Code, i + 1) < 0
        /\ Code[to] = op.on_failure_jump
        /\ Code[to + 3] = op.start_memory /\ Code[to + 4] = r
     THEN Target(to) ELSE 0

(* A group that matched nothing this time leaves its loop, with what it    *)
(* and the groups inside it matched before.                                *)
StopMemory ==
  /\ At({op.stop_memory})
  /\ LET r      == Code[m.p + 1]
         inner  == Code[m.p + 2]
         others == {q \in 1..(r - 1) : m.info[q].active}
         none   == m.low = m.high \/ others = {}
         closed == [m EXCEPT
                      !.end[r] = m.d, !.info[r].active = FALSE,
                      !.oldend[r] = IF Nullable(m.info, r) /\ m.end[r] = UNSET THEN m.d
                                    ELSE m.end[r],
                      !.low  = IF none THEN NO_LOWEST_ACTIVE_REG ELSE @,
                      !.high = IF none THEN NO_HIGHEST_ACTIVE_REG ELSE Max(others)]
         empty  == ~m.info[r].matched \/ Code[m.p - 2] = op.start_memory
         back   == IF ~m.info[r].ever THEN {} ELSE r..(r + inner - 1)
         left   == [closed EXCEPT
                      !.start = [q \in Groups |-> IF q \in back THEN m.oldstart[q] ELSE @[q]],
                      !.end   = [q \in Groups |->
                                   IF q \in back /\ IntGe(closed.oldend[q], m.oldstart[q])
                                   THEN closed.oldend[q] ELSE @[q]],
                      !.info[r].ever = FALSE]
         pushed == Push(left, LoopExit(r), m.d)
     IN Step(IF empty /\ Next1 <= Len(Code) /\ LoopExit(r) # 0
             THEN [pushed EXCEPT !.pc = IF @ = "overflow" THEN @ ELSE "fail"]
             ELSE [closed EXCEPT !.p = Next1])

(* A back reference, which sets no flag of the groups around it.           *)
BackReference ==
  /\ At({op.duplicate})
  /\ LET r == Code[m.p + 1]
         n == m.end[r] - m.start[r]
         k == Min({n, TextEnd - m.d})
         same == \A i \in 0..(k - 1) : CodeAt(m.start[r] + i) = CodeAt(m.d + i)
     IN Step(IF m.start[r] = UNSET \/ m.end[r] = UNSET THEN Fail(m.d)
             ELSE IF n < 0 THEN [m EXCEPT !.pc = "crashed"]
             ELSE IF ~same THEN Fail(m.d)
             ELSE IF k < n THEN Fail(TextEnd)
             ELSE [m EXCEPT !.p = Next1, !.d = @ + n])

-----------------------------------------------------------------------------
(* Jumps.  A repetition begins with a jump that pushes a failure point; if *)
(* a group follows, its registers are saved with it.                       *)
OnFailure(code, at, next) ==
  LET i    == CHOOSE i \in next..End(code) :
                /\ i = End(code) \/ code[i] # op.no_op
                /\ \A k \in next..(i - 1) : code[k] = op.no_op
      at1  == IF i > Len(code) \/ code[i] # op.start_memory THEN at
              ELSE [at EXCEPT !.high = code[i + 1] + code[i + 2],
                              !.low = IF @ = NO_LOWEST_ACTIVE_REG THEN code[i + 1] ELSE @]
  IN [Push(at1, Target(m.p), m.d) EXCEPT !.p = next]

OnFailureJump == At({op.on_failure_jump}) /\ Step(OnFailure(Code, m, Next1))
KeepStringJump ==
  /\ At({op.on_failure_keep_string_jump})
  /\ Step([Push(m, Target(m.p), KEEP) EXCEPT !.p = Next1])
(* Mutant: the dummy is not pushed.                                        *)
DummyFailureUnpushed ==
  /\ At({op.dummy_failure_jump, op.push_dummy_failure})
  /\ Step([m EXCEPT !.p = IF Code[m.p] = op.dummy_failure_jump THEN Target(m.p) ELSE Next1])
DummyFailure ==
  \/ At({op.dummy_failure_jump}) /\ Step([Push(m, 0, KEEP) EXCEPT !.p = Target(m.p)])
  \/ At({op.push_dummy_failure}) /\ Step([Push(m, 0, KEEP) EXCEPT !.p = Next1])
Jump == At({op.jump, op.jump_past_alt}) /\ Step([m EXCEPT !.p = Target(m.p)])
PopFailureJump ==
  At({op.pop_failure_jump}) /\ Step([Dropped(m) EXCEPT !.p = Target(m.p)])

(* maybe_pop_jump becomes a pop_failure_jump if what follows the loop can  *)
(* never match where its body begins, else a jump, for good.               *)
PastGroupOps(i) ==
  LET past[k \in Nat] ==
        IF k + 2 <= Len(Code) /\ Code[k] \in {op.start_memory, op.stop_memory}
        THEN past[k + 3] ELSE k
  IN past[i]
(* Mutant: any character after the loop ends its backtracking.             *)
NeverBacktracksEver == PastGroupOps(Next1) = End(Code) \/ Code[PastGroupOps(Next1)] = op.exactn
NeverBacktracks ==
  LET i == PastGroupOps(Next1)
      endline == bufp.newline_anchor /\ Code[i] = op.endline
      c    == IF endline THEN 10 ELSE Code[i + 2]
      body == Target(m.p) + 3
      InMap == c < (8 * Code[body + 1]) % 256 /\ InBitmap(Code, body + 1, c)
  IN \/ i = End(Code)
     \/ /\ Code[i] = op.exactn \/ endline
        /\ CASE Code[body] = op.exactn      -> Code[body + 2] # c
             [] Code[body] = op.charset     -> ~InMap
             [] Code[body] = op.charset_not -> InMap
             [] OTHER -> FALSE
MaybePopJump ==
  /\ At({op.maybe_pop_jump})
  /\ IF NeverBacktracks
     THEN Rewrite([Code EXCEPT ![m.p] = op.pop_failure_jump],
                  [Dropped(m) EXCEPT !.p = Target(m.p)])
     ELSE Rewrite([Code EXCEPT ![m.p] = op.jump], [m EXCEPT !.p = Target(m.p)])

(* Intervals count down in the bytecode.                                   *)
Count == Number(Code, m.p + 3)
(* Mutant: the count is written over the jump in front of it.              *)
CountedOverJump == Put(Code, m.p + 1, NumberBytes(Count - 1))
Counted == Put(Code, m.p + 3, NumberBytes(Count - 1))
SucceedN ==
  /\ At({op.succeed_n})
  /\ IF Count > 0 THEN Rewrite(Counted, [m EXCEPT !.p = Next1])
     ELSE LET code == Put(Code, m.p + 3, <<op.no_op, op.no_op>>)
          IN Rewrite(code, OnFailure(code, m, m.p + 3))
JumpN ==
  /\ At({op.jump_n})
  /\ IF Count # 0 THEN Rewrite(Counted, [m EXCEPT !.p = Target(m.p)])
     ELSE Step([m EXCEPT !.p = Next1])
SetNumberAt ==
  /\ At({op.set_number_at})
  /\ Rewrite(Put(Code, Target(m.p), NumberBytes(Count)), [m EXCEPT !.p = Next1])

MatchStep ==
  \/ TryHere \/ Result \/ Backtrack \/ PatternEnd \/ ExactN \/ OneChar \/ Assertion
  \/ StartMemory \/ StopMemory \/ BackReference \/ OnFailureJump \/ KeepStringJump
  \/ DummyFailure \/ Jump \/ PopFailureJump \/ MaybePopJump \/ SucceedN \/ JumpN
  \/ SetNumberAt
=============================================================================
