----------------------------- MODULE RegexSafety -----------------------------
(***************************************************************************)
(* What holds of the buffers, the heap and the failure stack of GNU regex  *)
(* whatever the patterns mean, over LuanetRegex.                           *)
(***************************************************************************)
EXTENDS LuanetRegex

Compiled == cl.pc = "returned" /\ cl.ret = "REG_NOERROR"

(* The failure stack holds what is pushed on it: the range of active       *)
(* registers is empty in the one way NUM_FAILURE_ITEMS can count, or it is *)
(* a range of groups of the pattern, so that the room a point was given is *)
(* what its items take, and they all fit (start_memory, stop_memory,       *)
(* on_failure_jump, PUSH_FAILURE_POINT, POP_FAILURE_POINT).                *)
FailurePointsFit ==
  m.pc \in {"match", "fail"} =>
    /\ \/ m.low = NO_LOWEST_ACTIVE_REG /\ m.high = NO_HIGHEST_ACTIVE_REG
       \/ m.low \in Groups /\ m.high \in m.low..bufp.re_nsub
    /\ \A k \in DOMAIN m.stack :
         m.stack[k].items = 3 * Cardinality(DOMAIN m.stack[k].regs) + 4
    /\ Avail(m) <= m.size

(* What is written always fits what was allocated, the 32 bytes a bracket  *)
(* expression's bitmap takes while it is read included, and the buffer     *)
(* never passes MAX_BUF_SIZE (GET_BUFFER_SPACE, EXTEND_BUFFER).            *)
BufferHoldsTheCode ==
  bufp.allocated # 0 =>
    /\ Len(Code) + (IF cl.pc = "list" THEN 32 ELSE 0) <= bufp.allocated
    /\ bufp.allocated <= MAX_BUF_SIZE

(* Everything an expression allocated is freed with it, but for the stack  *)
(* of the compiler, which only a compilation that succeeds frees           *)
(* (regex_match, regfree, regex_compile's compile_stack).                  *)
NothingIsLeaked ==
  /\ Compiled => "compile_stack" \notin heap
  /\ (call = NoCall /\ bufp = NoBuffer) => heap \subseteq {"compile_stack"}
-----------------------------------------------------------------------------
(* The places of the instructions of a bytecode: 1, and what follows each  *)
(* one found before the byte i.                                            *)
Instructions(code) ==
  LET upto[i \in Nat] ==
        IF i = 0 THEN {1}
        ELSE LET before == upto[i - 1]
             IN IF i \in before /\ i <= Len(code)
                THEN before \cup {i + 1 + ArgBytes(code, i)} ELSE before
  IN upto[Len(code)]

(* The bytecode of a compiled pattern is whole: its instructions end where *)
(* it ends, no gap was left unfilled, every jump leads to an instruction   *)
(* and every set_number_at to a counter.  Insertions in the middle move    *)
(* what earlier jumps led over, and matching rewrites it (regex_compile's  *)
(* INSERT_JUMP, re_match_2's stores).                                      *)
BytecodeIsWhole ==
  (Compiled /\ m.pc \in {"idle", "done"}) =>
    LET at == Instructions(Code)
    IN /\ End(Code) \in at
       /\ \A i \in DOMAIN Code : Code[i] \in 0..255
       /\ \A i \in at \ {End(Code)} :
            /\ Code[i] \in Jumps \cup Jumps2 => Target(i) \in at
            /\ Code[i] = op.set_number_at =>
                 Target(i) - 3 \in at /\ Code[Target(i) - 3] \in Jumps2

(* The matcher stays on instructions, or on the no_ops a succeed_n leaves  *)
(* in its own argument: it never takes an argument for an opcode           *)
(* (re_match_2's p, whatever jump or failure point it comes from).         *)
MatcherStaysInside ==
  m.pc = "match" =>
    LET at == Instructions(Code)
    IN \/ m.p \in at
       \/ \E i \in at \ {End(Code)} : Code[i] = op.succeed_n /\ m.p \in {i + 3, i + 4}

(* No failure point is taken from an empty stack, and no back reference is *)
(* to a group that ends before it starts (re_match_2's pop_failure_jump    *)
(* and duplicate).                                                         *)
NoMatchCrashes == m.pc # "crashed"
==============================================================================
