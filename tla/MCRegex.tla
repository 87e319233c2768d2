------------------------------- MODULE MCRegex -------------------------------
(* Instances of LuanetRegex: patterns as trees, strings, flags.            *)
EXTENDS RegexProps, RegexNull

Printed(tree, syntax) == L!Text(tree, syntax)

a == <<"char", "a">>
b == <<"char", "b">>
any == <<"any">>
Cat(r, s)     == <<"cat", r, s>>
Alt(r, s)     == <<"alt", r, s>>
Group(r, n)   == <<"group", r, n>>
Star(r)       == <<"star", r>>
Plus(r)       == <<"plus", r>>
Opt(r)        == <<"opt", r>>
Times(r, i, j) == <<"times", r, i, j>>
Raw(s, r)     == <<"raw", Chars(s), r>>
Bad(s)        == Raw(s, <<"bad">>)
NotA == <<"set", {"a"}, TRUE>>
Repeats(S) == UNION {{Star(r), Plus(r), Opt(r), Times(r, 1, 2)} : r \in S}
TextsUpTo(S, n) == UNION {[1..k -> S] : k \in 0..n}

(* match(): single repetitions before what they could swallow, loops   *)
(* in loops, alternatives in loops, back references, texts that are odd or *)
(* malformed in the extended syntax.                                       *)
Parts == {a, b, Star(a), Opt(b)}
Simple == Repeats({a, any, NotA}) \cup {Cat(r, s) : r \in Repeats({a, any}), s \in {a, Star(b)}}
Branches == {Group(Alt(r, s), 1) : r \in Parts, s \in Parts}
Nested == Repeats({Group(Cat(Star(a), r), 1) : r \in Repeats({Group(p, 2) : p \in {b, Star(a)}})})
            \cup {Star(Group(r, 1)) : r \in Repeats({Group(p, 2) : p \in Parts})}
Backs == {Cat(Group(r, 1), Cat(Star(b), <<"back", 1>>)) : r \in Parts \cup {Alt(a, Star(b))}}
Odd == {Bad("(a"), Bad("a|(b"), Bad("[a"), Bad("[b-a]"), Bad("[[:x:]]"), Bad("a\\"), Bad("a\\1"),
        Raw("a)", Cat(a, <<"char", ")">>)), Raw("*a", a), Raw("a**", Star(a)),
        Raw("a{1x", Cat(Cat(Cat(a, <<"char", "{">>), <<"char", "1">>), <<"char", "x">>)),
        Raw("[]a]b", Cat(<<"set", {"]", "a"}, FALSE>>, b))}
MatchTrees == Simple \cup Branches \cup {Star(r) : r \in Branches} \cup Nested \cup Backs
                \cup Odd
MatchTexts == TextsUpTo({"a", "b"}, 3)

(* The other entry points, in the basic syntax: newlines, cases, anchors,  *)
(* lists, and patterns whose bytecode a first search rewrites.             *)
nl == <<"char", "\n">>
A == <<"char", "A">>
bol == <<"bol">>
eol == <<"eol">>
Set(S) == <<"set", S, FALSE>>
Lines == {Cat(Star(any), nl), Cat(bol, Cat(Star(any), b)), Cat(a, eol), Cat(Star(NotA), b),
          Cat(<<"set", {"\n"}, TRUE>>, b)}
Lists == {Raw("[[:alpha:]]", Set({"a", "b", "A"})), Raw("[a-b]*A", Cat(Star(Set({"a", "b"})), A)),
          Cat(Set({"\\", "b"}), a), Raw("\\w\\W", Cat(Set({"a", "b", "A"}), Set({"\n"})))}
Counted2 == {Cat(Times(Group(Alt(a, b), 1), 2, 2), Times(any, 0, 1)),
             Cat(Star(Group(Star(b), 1)), Cat(Plus(a), <<"back", 1>>)), Opt(Group(Alt(a, Cat(a, b)), 1))}
Places == {Cat(<<"word">>, a), Cat(<<"begbuf">>, Plus(a)), Cat(b, <<"endbuf">>)}
Wrong == {Bad("a\\)"), Bad("\\(a"), Bad("\\1a"), Bad("a\\"), Bad("[[:x:]]"), Bad("[a")}
ApiTrees == Lines \cup Lists \cup Counted2 \cup Places \cup Wrong
ApiTexts == {Chars(s) : s \in {"", "ab", "bA", "aab"}} \cup {<<"a", "\n", "b">>, <<"b", "\n">>}
ApiCFlags == {{}, {"REG_NEWLINE"}, {"REG_ICASE"}}
ApiEFlags == {{}, {"REG_NOTBOL", "REG_NOTEOL"}}
ApiSyntaxes == {POSIX_BASIC \cup {"RE_BACKSLASH_ESCAPE_IN_LISTS"}}

(* Of the runs that end in a counterexample: a counted alternative, a      *)
(* failure point taken inside groups that are not the ones matched since,  *)
(* and an alternative that is but a jump to the end.                       *)
CountTrees == {Times(Group(Alt(a, a), 1), 2, 2)}
RegisterTrees == {Alt(Cat(b, Group(Cat(a, Group(a, 2)), 1)),
                      Cat(Star(Group(a, 3)), Cat(Group(b, 4), Star(b))))}
EndTrees == {Alt(b, Times(a, 0, 0))}
===============================================================================
