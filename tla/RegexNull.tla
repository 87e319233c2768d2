------------------------------ MODULE RegexNull ------------------------------
(***************************************************************************)
(* The two analyses of the bytecode that src/regex.c makes: which groups   *)
(* can match the empty string (asked by re_match_2 at every start_memory)  *)
(* and which characters can start a match (the fastmap of re_search_2).    *)
(* Both walk the bytes and read them at computed places, so a byte of an   *)
(* argument may be taken for an opcode: it is here too.                    *)
(***************************************************************************)
EXTENDS RegexCode

(* What the helpers return: their result, the place they leave p at, and   *)
(* reg_info, where they note what they learn of inner groups.              *)
Found(ok, p, info) == [ok |-> ok, p |-> p, info |-> info]

RECURSIVE GroupWalk(_, _, _), AltWalk(_, _, _, _), CommonOp(_, _, _), Alternatives(_, _, _, _)

(* common_op_match_null_string_p, for the opcode at i: a back reference    *)
(* leaves p at its argument, a group at its last one.                      *)
CommonOp(code, i, info) ==
  CASE code[i] \in EmptyOps -> Found(TRUE, i + 1, info)
    [] code[i] = op.start_memory ->
         LET g == GroupWalk(code, i + 3, info)
         IN [g EXCEPT !.info = SetNull(@, code[i + 1], g.ok)]
    [] code[i] = op.jump /\ Number(code, i + 1) >= 0 ->
         Found(TRUE, i + 3 + Number(code, i + 1), info)
    [] code[i] = op.succeed_n /\ Number(code, i + 3) = 0 ->
         Found(TRUE, i + 3 + Number(code, i + 1), info)
    [] code[i] = op.duplicate /\ Nullable(info, code[i + 1]) -> Found(TRUE, i + 1, info)
    [] OTHER -> Found(FALSE, i, info)

(* alt_match_null_string_p, from i to stop.                                *)
AltWalk(code, i, stop, info) ==
  IF i >= stop THEN Found(TRUE, i, info)
  ELSE IF code[i] = op.on_failure_jump
  THEN AltWalk(code, i + 3 + Number(code, i + 1), stop, info)
  ELSE LET c == CommonOp(code, i, info)
       IN IF c.ok THEN AltWalk(code, c.p, stop, c.info) ELSE c

(* group_match_null_string_p, from i on (after the start_memory).          *)
GroupWalk(code, i, info) ==
  IF i > Len(code) THEN Found(FALSE, i, info)
  ELSE IF code[i] = op.stop_memory THEN Found(TRUE, i + 2, info)
  ELSE LET c == IF code[i] # op.on_failure_jump THEN CommonOp(code, i, info)
                ELSE IF Number(code, i + 1) < 0 THEN Found(TRUE, i + 3, info)
                ELSE Alternatives(code, i + 3, Number(code, i + 1), info)
       IN IF c.ok THEN GroupWalk(code, c.p, c.info) ELSE c

(* Its inner loop: the alternative of n bytes at j, then the following     *)
(* ones, the last being as long as the jump before it says.                *)
Alternatives(code, j, n, info) ==
  LET next == j + n
      final(k, x) == LET stop == k + Number(code, k - 2)
                     IN [AltWalk(code, k, stop, x) EXCEPT !.p = stop]
  IN IF code[next - 3] # op.jump_past_alt THEN final(j, info)
     ELSE LET a == AltWalk(code, j, next - 3, info)
          IN IF ~a.ok THEN a
             ELSE IF \/ code[next] # op.on_failure_jump
                     \/ code[next + Number(code, next + 1)] # op.jump_past_alt
             THEN final(next, a.info)
             ELSE Alternatives(code, next + 3, Number(code, next + 1), a.info)

GroupNull(code, r_at, info) == GroupWalk(code, r_at + 2, info)

-----------------------------------------------------------------------------
(* re_compile_fastmap.  f is where the walk is: its place p, the places    *)
(* still to visit, the codes found, can_be_null and path_can_be_null.      *)
Bytes == 0..255
(* Mutant: a [^...] accepts nothing beyond its bitmap.                     *)
FirstCharsOfMap(code, i, dot_newline) ==
  CASE code[i] = op.charset_not -> {c \in 0..(8 * code[i + 1] - 1) : ~InBitmap(code, i + 1, c)}
    [] code[i] = op.exactn      -> {code[i + 2]}
    [] OTHER -> Bytes
FirstChars(code, i, dot_newline) ==
  CASE code[i] = op.exactn      -> {code[i + 2]}
    [] code[i] = op.charset     -> {c \in Bytes : InBitmap(code, i + 1, c)}
    [] code[i] = op.charset_not -> {c \in Bytes : ~InBitmap(code, i + 1, c)}
    [] code[i] = op.wordchar    -> WordCodes
    [] code[i] = op.notwordchar -> Bytes \ WordCodes
    [] code[i] = op.anychar     -> IF dot_newline THEN Bytes ELSE Bytes \ {10}
    [] OTHER -> {}
CharOps == {op.exactn, op.charset, op.charset_not, op.wordchar, op.notwordchar, op.anychar}

(* A jump of displacement 0 at the end of the code (of a\|, say) makes the  *)
(* code look at the byte beyond it, as a jump backward does at its target; *)
(* that byte is taken here for none of the two opcodes it is compared to.  *)
RECURSIVE Walk(_, _, _)
Walk(code, dot_newline, f) ==
  LET i == f.p
      Go(g) == Walk(code, dot_newline, g)
      target == i + 3 + Number(code, i + 1)
      Push(place, next) ==
        Go(IF place < End(code) THEN [f EXCEPT !.p = next, !.stack = <<place>> \o @]
           ELSE [f EXCEPT !.p = next, !.null = TRUE])
  IN IF i = End(code)
     THEN LET g == [f EXCEPT !.null = @ \/ f.path]
          IN IF f.stack = <<>> THEN g
             ELSE Go([g EXCEPT !.p = Head(f.stack), !.stack = Tail(@), !.path = TRUE])
     ELSE CASE code[i] = op.duplicate -> [f EXCEPT !.null = TRUE]
            [] code[i] = op.anychar /\ dot_newline /\ f.null -> [f EXCEPT !.map = Bytes]
            [] code[i] \in CharOps ->   \* a dot erases a newline found before it
                 Go([f EXCEPT !.p = End(code), !.path = FALSE,
                              !.map = (IF code[i] = op.anychar THEN {} ELSE @)
                                      \cup FirstChars(code, i, dot_newline)])
            [] code[i] \in {op.on_failure_jump, op.on_failure_keep_string_jump} ->
                 Push(target, i + 3)
            [] code[i] = op.succeed_n /\ Number(code, i + 3) = 0 -> Push(target, i + 5)
            [] code[i] \in (Jumps \cup {op.jump_n})
                             \ {op.on_failure_jump, op.on_failure_keep_string_jump} ->
                 IF \/ target > i + 3 \/ target = End(code)
                    \/ code[target] \notin {op.on_failure_jump, op.succeed_n}
                 THEN Go([f EXCEPT !.p = target])
                 ELSE LET past == target + 3 + Number(code, target + 1)
                      IN Go([f EXCEPT !.p = past,
                                      !.stack = IF @ # <<>> /\ Head(@) = past
                                                THEN Tail(@) ELSE @])
            [] OTHER -> Go([f EXCEPT !.p = i + 1 + ArgBytes(code, i)])

Fastmap(code, dot_newline) ==
  LET f == Walk(code, dot_newline,
                [p |-> 1, stack |-> <<>>, map |-> {}, null |-> FALSE, path |-> TRUE])
  IN [map |-> f.map, can_be_null |-> f.null]
==============================================================================
