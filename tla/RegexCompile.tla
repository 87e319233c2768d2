----------------------------- MODULE RegexCompile -----------------------------
(***************************************************************************)
(* regex_compile() of src/regex.c: one action per construct of the         *)
(* pattern, which appends to the bytecode, inserts into its middle, and    *)
(* leaves gaps it fills when it has seen more of the pattern.              *)
(***************************************************************************)
EXTENDS RegexCode, SequencesExt

CONSTANTS
  INIT_BUF_SIZE,  \* first size of the buffer (32)
  MAX_BUF_SIZE,   \* size it never exceeds (2^16)
  MAX_REGNUM      \* last group that gets a register (255)

ASSUME SizeAssumption ==
  /\ INIT_BUF_SIZE \in Nat \ {0} /\ MAX_BUF_SIZE \in Nat
  /\ INIT_BUF_SIZE <= MAX_BUF_SIZE /\ MAX_REGNUM \in 1..255

(* The characters the compiler names and writes have codes.                *)
ASSUME LiteralAssumption == {"[", ":", "{"} \subseteq DOMAIN Ord

VARIABLES
  pattern,  \* the text being compiled
  bufp,     \* the re_pattern_buffer: the bytecode and its settings
  cl,       \* the locals of regex_compile
  heap      \* blocks allocated and not freed

compileVars == <<pattern, bufp, cl, heap>>

Hole == -1  \* a byte of a gap left by `b += 3'

NoLocals(err) ==
  [pc |-> "returned", ret |-> err, p |-> 0, laststart |-> 0, begalt |-> 0,
   pending_exact |-> 0, fixup_alt_jump |-> 0, regnum |-> 0, stack |-> <<>>,
   p1 |-> 0, list |-> {}, had_char_class |-> FALSE]

Has(bit) == bit \in bufp.syntax
Translated(c) == IF bufp.translate THEN LowerChar[c] ELSE c
Fetch(i) == Translated(Char(pattern, i))   \* PATFETCH without its REG_EEND test
Code == bufp.buffer

(* Entry of regex_compile: the pattern buffer before its first byte.       *)
StartCompile(text, buf) ==
  /\ pattern' = text
  /\ bufp' = [buf EXCEPT !.buffer = <<>>, !.re_nsub = 0, !.not_bol = FALSE,
                         !.not_eol = FALSE, !.fastmap_accurate = FALSE,
                         !.allocated = IF @ = 0 THEN INIT_BUF_SIZE ELSE @]
  /\ cl' = [NoLocals("none") EXCEPT !.pc = "pattern", !.p = 1, !.begalt = 1]
  /\ heap' = heap \cup {"compile_stack", "buffer"}
                  \cup (IF buf.translate THEN {"translate"} ELSE {})

Return(err) ==
  /\ cl' = NoLocals(err)
  /\ UNCHANGED <<pattern, bufp, heap>>

(* GET_BUFFER_SPACE(request), which doubles the buffer up to MAX_BUF_SIZE, *)
(* then the new code and locals.                                           *)
(* Mutant: the buffer is doubled once, however much is needed.             *)
GrownOnce(size, need) == IF need <= size THEN size ELSE Min({2 * size, MAX_BUF_SIZE})
Grown(size, need) ==
  Min({a \in {size * 2^k : k \in 0..16} \cup {MAX_BUF_SIZE} : a >= need})
EmitWith(nsub, request, code, locals) ==
  IF Len(Code) + request > MAX_BUF_SIZE
  THEN Return("REG_ESIZE")
  ELSE /\ bufp' = [bufp EXCEPT !.buffer = code, !.re_nsub = nsub,
                               !.allocated = Grown(@, Len(Code) + request)]
       /\ cl' = locals
       /\ UNCHANGED <<pattern, heap>>
Emit(request, code, locals) == EmitWith(bufp.re_nsub, request, code, locals)

-----------------------------------------------------------------------------
(* The switch on the next character: which label it reaches, the character *)
(* c that label works on, and the position after it.                       *)

AtBeglineLoc(i) ==   \* at_begline_loc_p, for the ^ at i
  LET quoted == i > 2 /\ Char(pattern, i - 2) = "\\"
  IN \/ Char(pattern, i - 1) = "(" /\ (Has("RE_NO_BK_PARENS") \/ quoted)
     \/ Char(pattern, i - 1) = "|" /\ (Has("RE_NO_BK_VBAR") \/ quoted)
AtEndlineLoc(i) ==   \* at_endline_loc_p, for the position after the $
  LET Next(c, bare) == IF bare THEN Char(pattern, i) = c
                       ELSE Char(pattern, i) = "\\" /\ Char(pattern, i + 1) = c
  IN Next(")", Has("RE_NO_BK_PARENS")) \/ Next("|", Has("RE_NO_BK_VBAR"))

Bare(special, label) == IF special THEN label ELSE "normal_char"
PlainLabel(c, i) ==
  CASE c = "^" -> Bare(i = 1 \/ Has("RE_CONTEXT_INDEP_ANCHORS") \/ AtBeglineLoc(i), "begline")
    [] c = "$" -> Bare(\/ i = Len(pattern) \/ Has("RE_CONTEXT_INDEP_ANCHORS")
                       \/ AtEndlineLoc(i + 1), "endline")
    [] c \in {"+", "?"} -> Bare(~Has("RE_BK_PLUS_QM") /\ ~Has("RE_LIMITED_OPS"), "handle_plus")
    [] c = "*"  -> "handle_plus"
    [] c = "."  -> "anychar"
    [] c = "["  -> "list"
    [] c = "("  -> Bare(Has("RE_NO_BK_PARENS"), "handle_open")
    [] c = ")"  -> Bare(Has("RE_NO_BK_PARENS"), "handle_close")
    [] c = "\n" -> Bare(Has("RE_NEWLINE_ALT"), "handle_alt")
    [] c = "|"  -> Bare(Has("RE_NO_BK_VBAR"), "handle_alt")
    [] c = "{"  -> Bare(Has("RE_INTERVALS") /\ Has("RE_NO_BK_BRACES"), "handle_interval")
    [] OTHER    -> "normal_char"

SimpleOps ==   \* opcodes without arguments, by the character after the backslash
  [c \in {"w", "W", "b", "B", "<", ">", BACKQUOTE, "'"} |->
     CASE c = "w" -> op.wordchar    [] c = "W" -> op.notwordchar
       [] c = "b" -> op.wordbound   [] c = "B" -> op.notwordbound
       [] c = "<" -> op.wordbeg     [] c = ">" -> op.wordend
       [] c = BACKQUOTE -> op.begbuf [] c = "'" -> op.endbuf]
Digits == {Ascii[i] : i \in 17..26}
Digit(c) == Ord[c] - 48

BackslashLabel(c) ==
  CASE c = "(" -> Bare(~Has("RE_NO_BK_PARENS"), "handle_open")
    [] c = ")" -> IF Has("RE_NO_BK_PARENS") THEN "normal_char"
                  ELSE IF cl.stack # <<>> THEN "handle_close"
                  ELSE Bare(~Has("RE_UNMATCHED_RIGHT_PAREN_ORD"), "REG_ERPAREN")
    [] c = "|" -> Bare(~Has("RE_LIMITED_OPS") /\ ~Has("RE_NO_BK_VBAR"), "handle_alt")
    [] c = "{" -> Bare(/\ Has("RE_INTERVALS") /\ ~Has("RE_NO_BK_BRACES")
                       /\ ~(cl.p = 1 /\ Len(pattern) = 2), "handle_interval")
    [] c \in DOMAIN SimpleOps -> "simple"
    [] c \in Digits \ {"0"}   ->
         IF Has("RE_NO_BK_REFS") THEN "normal_char"
         ELSE IF Digit(c) \notin 1..cl.regnum THEN "REG_ESUBREG"
         ELSE Bare(\A k \in DOMAIN cl.stack : cl.stack[k].regnum # Digit(c), "duplicate")
    [] c \in {"+", "?"} -> Bare(Has("RE_BK_PLUS_QM"), "handle_plus")
    [] OTHER -> "normal_char"

Token ==
  LET c == Fetch(cl.p)   c1 == Char(pattern, cl.p + 1) IN
  IF c # "\\" THEN [label |-> PlainLabel(c, cl.p), c |-> c, p |-> cl.p + 1]
  ELSE IF cl.p = Len(pattern) THEN [label |-> "REG_EESCAPE", c |-> c, p |-> cl.p + 1]
  ELSE LET label == BackslashLabel(c1)
       IN [label |-> label, p |-> cl.p + 2,
           c |-> IF label = "normal_char" THEN Translated(c1) ELSE c1]

AtToken(labels) ==
  cl.pc = "pattern" /\ cl.p <= Len(pattern) /\ Token.label \in labels

-----------------------------------------------------------------------------
(* normal_char: another character of the current exactn, or a new one; a   *)
(* repetition must apply to its last character only.  code and request are *)
(* those of the buffer when the label is reached.                          *)
RepetitionFollows(i) ==
  LET next == Char(pattern, i)   after == Char(pattern, i + 1) IN
  \/ next \in {"*", "^"}
  \/ IF Has("RE_BK_PLUS_QM") THEN next = "\\" /\ after \in {"+", "?"} ELSE next \in {"+", "?"}
  \/ /\ Has("RE_INTERVALS")
     /\ IF Has("RE_NO_BK_BRACES") THEN next = "{" ELSE next = "\\" /\ after = "{"

NormalCharOn(code, request, c, i) ==
  LET k     == cl.pending_exact
      new   == k = 0 \/ k + code[k] # Len(code) \/ code[k] = 255 \/ RepetitionFollows(i)
      start == IF new THEN code \o <<op.exactn, 0>> ELSE code
      count == IF new THEN Len(start) ELSE k
  IN Emit(request + (IF new THEN 3 ELSE 1),
          [Append(start, Ord[c]) EXCEPT ![count] = @ + 1],
          [cl EXCEPT !.p = i, !.pending_exact = count,
                     !.laststart = IF new THEN End(code) ELSE @])

NormalChar == AtToken({"normal_char"}) /\ NormalCharOn(Code, 0, Token.c, Token.p)

BegLine == AtToken({"begline"}) /\ Emit(1, Append(Code, op.begline), [cl EXCEPT !.p = Token.p])
EndLine == AtToken({"endline"}) /\ Emit(1, Append(Code, op.endline), [cl EXCEPT !.p = Token.p])

AnyChar ==
  /\ AtToken({"anychar"})
  /\ Emit(1, Append(Code, op.anychar), [cl EXCEPT !.p = Token.p, !.laststart = End(Code)])

(* \w \W \b \B \< \> and the two buffer anchors; only \w and \W start an   *)
(* expression a repetition can apply to.                                   *)
SimpleOp ==
  /\ AtToken({"simple"})
  /\ Emit(1, Append(Code, SimpleOps[Token.c]),
          [cl EXCEPT !.p = Token.p,
                     !.laststart = IF Token.c \in {"w", "W"} THEN End(Code) ELSE @])

Duplicate ==
  /\ AtToken({"duplicate"})
  /\ Emit(2, Code \o <<op.duplicate, Digit(Token.c)>>,
          [cl EXCEPT !.p = Token.p, !.laststart = End(Code)])

BadToken ==
  /\ AtToken({"REG_EESCAPE", "REG_ERPAREN", "REG_ESUBREG"})
  /\ Return(Token.label)

-----------------------------------------------------------------------------
(* handle_plus: a run of * + ? is collapsed to one loop around laststart.  *)

(* Length of the repetition operator at position i, 0 if there is none.    *)
RepeatAt(i) ==
  LET c == Fetch(i) IN
  IF c = "*" \/ (~Has("RE_BK_PLUS_QM") /\ c \in {"+", "?"}) THEN 1
  ELSE IF Has("RE_BK_PLUS_QM") /\ c = "\\" /\ Fetch(i + 1) \in {"+", "?"} THEN 2
  ELSE 0
RepeatEnd(i) ==
  LET end[k \in Nat] == IF RepeatAt(k) = 0 THEN k ELSE end[k + RepeatAt(k)]
  IN end[i]

Loop(end) ==
  LET ops == {Char(pattern, i) : i \in cl.p..(end - 1)} \cap {"*", "+", "?"}
      zero_times_ok == ops # {"+"}
      many_times_ok == ops # {"?"}
      keep_string == /\ Fetch(end - 2) = "." /\ zero_times_ok /\ Fetch(end) = "\n"
                     /\ ~Has("RE_DOT_NEWLINE")
      last  == cl.laststart
      body  == IF ~many_times_ok THEN Code
               ELSE IF keep_string THEN StoreJump(op.jump, Code, End(Code), last)
               ELSE StoreJump(op.maybe_pop_jump, Code, End(Code), last - 3)
      loop  == InsertJump(IF many_times_ok /\ keep_string
                          THEN op.on_failure_keep_string_jump ELSE op.on_failure_jump,
                          body, last, End(body) + 3)
      whole == IF zero_times_ok THEN loop
               ELSE InsertJump(op.dummy_failure_jump, loop, last, last + 6)
      request == 3 + (IF many_times_ok THEN 3 ELSE 0) + (IF zero_times_ok THEN 0 ELSE 3)
  IN Emit(request, whole, [cl EXCEPT !.p = end, !.pending_exact = 0])

HandlePlus ==
  /\ AtToken({"handle_plus"})
  /\ LET end == RepeatEnd(cl.p) IN
     IF cl.laststart = 0 /\ Has("RE_CONTEXT_INVALID_OPS") THEN Return("REG_BADRPT")
     ELSE IF cl.laststart = 0 /\ ~Has("RE_CONTEXT_INDEP_OPS")
     THEN NormalCharOn(Code, 0, Token.c, Token.p)
     ELSE IF Has("RE_BK_PLUS_QM") /\ Fetch(end) = "\\" /\ end = Len(pattern)
     THEN Return("REG_EESCAPE")
     ELSE IF cl.laststart = 0 THEN Emit(0, Code, [cl EXCEPT !.p = end])
     ELSE Loop(end)

-----------------------------------------------------------------------------
(* handle_open, handle_close, handle_alt.                                  *)
HandleOpen ==
  /\ AtToken({"handle_open"})
  /\ LET regnum == cl.regnum + 1
         saved  == [begalt |-> cl.begalt, fixup_alt_jump |-> cl.fixup_alt_jump,
                    laststart |-> End(Code), inner |-> End(Code) + 2, regnum |-> regnum]
         code   == IF regnum <= MAX_REGNUM THEN Code \o <<op.start_memory, regnum, 0>> ELSE Code
     IN EmitWith(bufp.re_nsub + 1, IF regnum <= MAX_REGNUM THEN 3 ELSE 0, code,
             [cl EXCEPT !.p = Token.p, !.regnum = regnum, !.stack = Append(@, saved),
                        !.fixup_alt_jump = 0, !.laststart = 0, !.begalt = End(code),
                        !.pending_exact = 0])

HandleClose ==
  /\ AtToken({"handle_close"})
  /\ LET alt  == cl.fixup_alt_jump # 0
         code == IF alt THEN StoreJump(op.jump_past_alt, Append(Code, op.push_dummy_failure),
                                       cl.fixup_alt_jump, End(Code))
                 ELSE Code
         room == IF alt THEN 1 ELSE 0
     IN IF cl.stack = <<>>
        THEN IF Has("RE_UNMATCHED_RIGHT_PAREN_ORD")
             THEN NormalCharOn(code, room, Token.c, Token.p) ELSE Return("REG_ERPAREN")
        ELSE LET top   == Last(cl.stack)
                 kept  == top.regnum <= MAX_REGNUM
                 inner == (cl.regnum - top.regnum) % 256   \* an unsigned char
             IN Emit(room + (IF kept THEN 3 ELSE 0),
                     IF kept THEN Put(code, top.inner, <<inner>>)
                                    \o <<op.stop_memory, top.regnum, inner>>
                     ELSE code,
                     [cl EXCEPT !.p = Token.p, !.stack = Front(@), !.begalt = top.begalt,
                                !.fixup_alt_jump = top.fixup_alt_jump,
                                !.laststart = top.laststart, !.pending_exact = 0])

HandleAlt ==
  /\ AtToken({"handle_alt"})
  /\ IF Has("RE_LIMITED_OPS") THEN NormalCharOn(Code, 0, Token.c, Token.p)
     ELSE LET first == InsertJump(op.on_failure_jump, Code, cl.begalt, End(Code) + 6)
              fixed == IF cl.fixup_alt_jump = 0 THEN first
                       ELSE StoreJump(op.jump_past_alt, first, cl.fixup_alt_jump, End(first))
              code  == fixed \o <<Hole, Hole, Hole>>
          IN Emit(6, code,
                  [cl EXCEPT !.p = Token.p, !.pending_exact = 0, !.laststart = 0,
                             !.fixup_alt_jump = End(fixed), !.begalt = End(code)])

-----------------------------------------------------------------------------
(* handle_interval.  A number that is not there is -1; c is the character  *)
(* last fetched and p the position after it.                               *)
GetUnsignedNumber(i, c) ==
  LET stop   == CHOOSE e \in i..(Len(pattern) + 1) :
                  /\ \A k \in i..(e - 1) : Fetch(k) \in Digits
                  /\ Fetch(e) \notin Digits
      number == FoldLeft(LAMBDA n, d : 10 * n + Digit(d), 0, SubSeq(pattern, i, stop - 1))
  IN [num |-> IF stop = i THEN -1 ELSE number,
      c   |-> IF i > Len(pattern) THEN c
              ELSE IF stop > Len(pattern) THEN Fetch(Len(pattern)) ELSE Fetch(stop),
      p   |-> Min({stop, Len(pattern)}) + 1]

Interval(low, high) ==
  LET comma == low.c = ","
      upper == IF ~comma THEN low.num ELSE IF high.num < 0 THEN RE_DUP_MAX ELSE high.num
      read  == IF comma THEN high ELSE low
      bare  == Has("RE_NO_BK_BRACES")
      close == IF bare THEN read.c ELSE Fetch(read.p)
      Literal(err) == IF bare THEN "unfetch" ELSE err
      label ==
        IF Token.p > Len(pattern) THEN Literal("REG_EBRACE")
        ELSE IF upper \notin 0..RE_DUP_MAX \/ low.num \notin 0..upper THEN Literal("REG_BADBR")
        ELSE IF ~bare /\ read.c # "\\" THEN "REG_EBRACE"
        ELSE IF ~bare /\ read.p > Len(pattern) THEN "REG_EEND"
        ELSE IF close # "}" THEN Literal("REG_BADBR")
        ELSE IF cl.laststart = 0 /\ Has("RE_CONTEXT_INVALID_OPS") THEN "REG_BADRPT"
        ELSE IF cl.laststart = 0 /\ ~Has("RE_CONTEXT_INDEP_OPS") THEN "unfetch"
        ELSE "ok"
  IN [label |-> label, lower |-> low.num, upper |-> upper,
      p |-> IF bare THEN read.p ELSE read.p + 1]

(* The bytecode of {lower,upper} around the expression at last: the two    *)
(* set_number_at fill in the counters of the succeed_n and of the jump_n.  *)
Repeated(code, last, lower, upper) ==
  LET more == upper > 1
      try  == InsertJump2(op.succeed_n, code, last,
                          End(code) + 5 + (IF more THEN 5 ELSE 0), lower)
      from == Insert(try, last, Op2(op.set_number_at, 5, lower))
      back == StoreJump2(op.jump_n, from, End(from), last + 5, upper - 1)
      upto == Insert(back, last, Op2(op.set_number_at, End(back) - last, upper - 1))
  IN IF upper = 0 THEN InsertJump(op.jump, code, last, End(code) + 3)
     ELSE IF more THEN upto ELSE from

HandleInterval ==
  /\ AtToken({"handle_interval"})
  /\ \E low \in {GetUnsignedNumber(Token.p, Token.c)} :
     \E n \in {Interval(low, GetUnsignedNumber(low.p, low.c))} :
     LET last == IF cl.laststart = 0 THEN End(Code) ELSE cl.laststart
     IN CASE n.label = "unfetch" -> NormalCharOn(Code, 0, "{", Token.p)
          [] n.label = "ok" ->
               Emit(IF n.upper = 0 THEN 3 ELSE IF n.upper > 1 THEN 20 ELSE 10,
                    Repeated(Code, last, n.lower, n.upper),
                    [cl EXCEPT !.p = n.p, !.pending_exact = 0, !.laststart = last])
          [] OTHER -> Return(n.label)

-----------------------------------------------------------------------------
(* A bracket expression: the codes of its list are gathered one element at *)
(* a time, and written as a bitmap when the list ends.                     *)
InList == cl.pc = "list"
ListStart ==
  /\ AtToken({"list"})
  /\ LET negated == Char(pattern, Token.p) = "^"
         p1      == IF negated THEN Token.p + 1 ELSE Token.p
     IN IF Token.p > Len(pattern) THEN Return("REG_EBRACK")
        ELSE Emit(34, Code \o <<IF negated THEN op.charset_not ELSE op.charset, 32>>,
                  [cl EXCEPT !.pc = "list", !.p = p1, !.p1 = p1, !.laststart = End(Code),
                             !.had_char_class = FALSE,
                             !.list = IF negated /\ Has("RE_HAT_LISTS_NOT_NEWLINE")
                                      THEN {10} ELSE {}])

(* compile_range, with the end of the range at position i.                 *)
CompileRange(i) ==
  LET from == Ord[Char(pattern, i - 2)]   to == Ord[Char(pattern, i)] IN
  IF i > Len(pattern) \/ (from > to /\ Has("RE_NO_EMPTY_RANGES")) THEN Return("REG_ERANGE")
  ELSE Emit(0, Code, [cl EXCEPT !.p = i + 1,
                                !.list = @ \cup {IF bufp.translate THEN LowerCode(o) ELSE o :
                                                 o \in from..to}])

(* [:name:] with name starting at position i: it is a class only if closed *)
(* within CHAR_CLASS_MAX_LENGTH characters, else its [ and : are literal.  *)
Class(i) ==
  LET stop == CHOOSE e \in i..(i + 6) :
                /\ Fetch(e) \in {":", "]"} \/ e = Len(pattern) \/ e = i + 6
                /\ \A k \in i..(e - 1) : Fetch(k) \notin {":", "]"} /\ k < Len(pattern)
      name == {n \in DOMAIN CharClass : Chars(n) = [k \in 1..(stop - i) |-> Fetch(i + k - 1)]}
  IN IF i > Len(pattern) THEN Return("REG_EBRACK")
     ELSE IF Fetch(stop) # ":" \/ Char(pattern, stop + 1) # "]"
     THEN Emit(0, Code, [cl EXCEPT !.p = i, !.list = @ \cup {Ord["["], Ord[":"]},
                                   !.had_char_class = FALSE])
     ELSE IF name = {} THEN Return("REG_ECTYPE")
     ELSE IF stop + 1 = Len(pattern) THEN Return("REG_EBRACK")
     ELSE Emit(0, Code, [cl EXCEPT !.p = stop + 2, !.had_char_class = TRUE,
                                   !.list = @ \cup UNION {CharClass[n] : n \in name}])

(* Which element starts at cl.p.                                           *)
ListElement ==
  LET i == cl.p   c == Fetch(i)   next == Char(pattern, i + 1)
      Raw(k) == IF k >= 1 THEN Char(pattern, k) ELSE NUL
  IN IF i > Len(pattern) THEN "REG_EBRACK"
     ELSE IF Has("RE_BACKSLASH_ESCAPE_IN_LISTS") /\ c = "\\"
     THEN IF i = Len(pattern) THEN "REG_EESCAPE" ELSE "escape"
     ELSE IF c = "]" /\ i # cl.p1 THEN "end"
     ELSE IF cl.had_char_class /\ c = "-" /\ next # "]" THEN "REG_ERANGE"
     ELSE IF /\ c = "-" /\ next # "]" /\ Raw(i - 1) # "["
             /\ ~(Raw(i - 2) = "[" /\ Raw(i - 1) = "^")
     THEN "range_here"
     ELSE IF next = "-" /\ Char(pattern, i + 2) # "]" THEN "range_after"
     ELSE IF Has("RE_CHAR_CLASSES") /\ c = "[" /\ next = ":" THEN "class"
     ELSE "char"

ListChar ==
  /\ InList /\ ListElement = "char"
  /\ Emit(0, Code, [cl EXCEPT !.p = @ + 1, !.had_char_class = FALSE,
                              !.list = @ \cup {Ord[Fetch(cl.p)]}])
ListEscape ==
  /\ InList /\ ListElement = "escape"
  /\ Emit(0, Code, [cl EXCEPT !.p = @ + 2, !.list = @ \cup {Ord[Fetch(cl.p + 1)]}])
ListRange ==
  /\ InList
  /\ \/ ListElement = "range_here" /\ CompileRange(cl.p + 1)
     \/ ListElement = "range_after" /\ CompileRange(cl.p + 2)
ListClass == InList /\ ListElement = "class" /\ Class(cl.p + 2)
ListBad ==
  /\ InList /\ ListElement \in {"REG_EBRACK", "REG_EESCAPE", "REG_ERANGE"}
  /\ Return(ListElement)
ListEnd ==
  /\ InList /\ ListElement = "end"
  /\ LET map == Bitmap(cl.list)
     IN Emit(0, Front(Code) \o <<Len(map)>> \o map,
             [cl EXCEPT !.pc = "pattern", !.p = @ + 1, !.list = {}, !.p1 = 0,
                        !.had_char_class = FALSE])

-----------------------------------------------------------------------------
(* Through the pattern: the last alternative's jump, and unclosed groups.  *)
(* Mutant: a group may stay open.                                          *)
EndOfPatternOpen ==
  /\ cl.pc = "pattern" /\ cl.p > Len(pattern)
  /\ cl' = NoLocals("REG_NOERROR") /\ heap' = heap \ {"compile_stack"}
  /\ UNCHANGED <<pattern, bufp>>
EndOfPattern ==
  /\ cl.pc = "pattern" /\ cl.p > Len(pattern)
  /\ IF cl.stack # <<>> THEN Return("REG_EPAREN")
     ELSE /\ bufp' = IF cl.fixup_alt_jump = 0 THEN bufp
                     ELSE [bufp EXCEPT !.buffer = StoreJump(op.jump_past_alt, @,
                                                            cl.fixup_alt_jump, End(@))]
          /\ cl' = [NoLocals("REG_NOERROR") EXCEPT !.regnum = cl.regnum]
          /\ heap' = heap \ {"compile_stack"}
          /\ UNCHANGED pattern

CompileStep ==
  \/ NormalChar \/ BegLine \/ EndLine \/ AnyChar \/ SimpleOp \/ Duplicate \/ BadToken
  \/ HandlePlus \/ HandleOpen \/ HandleClose \/ HandleAlt \/ HandleInterval
  \/ ListStart \/ ListChar \/ ListEscape \/ ListRange \/ ListClass \/ ListBad \/ ListEnd
  \/ EndOfPattern
=============================================================================
