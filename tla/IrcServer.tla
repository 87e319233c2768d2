----------------------------- MODULE IrcServer -----------------------------
(***************************************************************************)
(* luanet.irc.server (luanet/irc.lua) over a LineSocket, driven by the     *)
(* loop of examples/testirc.lua: connect, identify, then proceed() while   *)
(* isConnected().  Handlers are the user's code: each may do nothing, send *)
(* a command, or call whois(), which reads the socket itself and keeps the *)
(* lines it does not want in self.buffer.  One action runs from one call on *)
(* the socket to the next.                                                 *)
(***************************************************************************)
EXTENDS Integers, Sequences, FiniteSets

CONSTANTS
  Nick,           \* the nicks whois() may be asked for
  Online,         \* those the server knows
  NoNick,         \* no nick
  HandlerSets,    \* the sets of handlers a script may install
  Spontaneous,    \* the kinds of lines the server sends unasked
  MaxLines,       \* the most lines it sends unasked (bounds the model)
  MaxWhois        \* the most calls of whois() (bounds the model)

(***************************************************************************)
(* What proceed() and whois() tell apart in a line: PING, the numerics 376, *)
(* 311, 318 and 401, any other numeric, a command that has a handler       *)
(* (PRIVMSG stands for the six of them), any other command, a line the     *)
(* pattern does not match (ERROR :...), and the empty line.                *)
(***************************************************************************)
Kind == {"PING", "376", "311", "318", "401", "numeric", "PRIVMSG", "other", "junk", "blank"}

Numeric == {"376", "311", "318", "401", "numeric"}

Matched(l) == l.kind \notin {"PING", "junk", "blank"}

ASSUME IrcAssumption ==
  /\ Online \subseteq Nick
  /\ NoNick \notin Nick
  /\ HandlerSets \subseteq
       SUBSET {"on_ping", "on_connect", "on_numeric", "on_privmsg", "on_raw"}
  /\ Spontaneous \subseteq Kind
  /\ MaxLines \in Nat
  /\ MaxWhois \in Nat

\* A line carries its serial number: the first line the server sends is line 1.
Line == [n : Nat, kind : Kind, who : Nick \cup {NoNick}]

Empty == [n |-> 0, kind |-> "blank", who |-> NoNick]
IsEmpty(str) == str.kind = "blank"

VARIABLES
  wire, ready, flag, link, alive,  \* the socket
  handlers,  \* the handlers installed
  pc,        \* where the program is
  caller,    \* who called getLine(): "proceed" or "whois"
  buffer,    \* self.buffer, cut at its '\n's: "" is <<Empty>>
  cur,       \* the line proceed() is handling
  after,     \* where the handler that is running returns to
  asked,     \* the nick whois() is asking for
  user,      \* the nick of the table whois() will return, NoNick while it is empty
  unasked,   \* how many lines the server has sent of itself
  todo,      \* the answers the server still owes
  serial,    \* how many lines the server has sent
  whoises,   \* how many times whois() has been called
  log,       \* history: the lines proceed() has handled, by serial
  answers,   \* history: the tables whois() has returned, with the nick asked for
  missed     \* history: some whois() has left the 318 that follows a 401 unread

sockVars == <<wire, ready, flag, link, alive>>
bookVars == <<unasked, todo, serial>>
histVars == <<log, answers, missed>>
vars == <<sockVars, handlers, pc, caller, buffer, cur, after, asked, user, whoises,
          bookVars, histVars>>

Socket == INSTANCE LineSocket

Label == {"new", "connect", "nick", "user", "test", "proceed", "poll", "take", "dispatch",
          "handler", "raw", "done", "error"}

TypeOK ==
  /\ Socket!LineTypeOK
  /\ handlers \in HandlerSets
  /\ pc \in Label
  /\ caller \in {"proceed", "whois"}
  /\ buffer \in Seq(Line) /\ buffer # <<>>
  /\ cur \in Line
  /\ after \in {"raw", "test"}
  /\ asked \in Nick \cup {NoNick}
  /\ user \in Nick \cup {NoNick}
  /\ unasked \in 0 .. MaxLines
  /\ todo \in Seq(Line)
  /\ serial \in Nat
  /\ whoises \in 0 .. MaxWhois
  /\ log \in Seq(Nat)
  /\ answers \subseteq Nick \X (Nick \cup {NoNick})
  /\ missed \in BOOLEAN

Init ==
  /\ Socket!LineInit
  /\ handlers \in HandlerSets
  /\ pc = "new"
  /\ caller = "proceed"
  /\ buffer = <<Empty>>
  /\ cur = Empty
  /\ after = "test"
  /\ asked = NoNick
  /\ user = NoNick
  /\ unasked = 0
  /\ todo = <<>>
  /\ serial = 0
  /\ whoises = 0
  /\ log = <<>>
  /\ answers = {}
  /\ missed = FALSE

---------------------------------------------------------------------------
(* The server. *)

Numbered(l) == [l EXCEPT !.n = serial + 1]

Emit(l) ==
  /\ Socket!PeerLine(Numbered(l))
  /\ serial' = serial + 1
  /\ UNCHANGED <<handlers, pc, caller, buffer, cur, after, asked, user, whoises, histVars>>

ServerSpeaks(kind) ==
  /\ unasked < MaxLines
  /\ Emit([n |-> 0, kind |-> kind, who |-> NoNick])
  /\ unasked' = unasked + 1
  /\ UNCHANGED todo

\* The answers to WHOIS come in the order of the questions.
ServerAnswers ==
  /\ todo # <<>>
  /\ Emit(Head(todo))
  /\ todo' = Tail(todo)
  /\ UNCHANGED unasked

ServerEnds ==
  /\ Socket!PeerEnd
  /\ UNCHANGED <<handlers, pc, caller, buffer, cur, after, asked, user, whoises, bookVars,
                 histVars>>

Reply(kind, nick) == [n |-> 0, kind |-> kind, who |-> nick]

\* What the server may say of nick: some servers end a failed WHOIS with a 318 too.
AnswersTo(nick) ==
  IF nick \in Online THEN {<<Reply("311", nick), Reply("318", nick)>>}
  ELSE {<<Reply("401", nick)>>, <<Reply("401", nick), Reply("318", nick)>>}

---------------------------------------------------------------------------
(* Connecting. *)

New ==
  /\ pc = "new"
  /\ Socket!Create
  /\ pc' = "connect"
  /\ UNCHANGED <<handlers, caller, buffer, cur, after, asked, user, whoises, bookVars,
                 histVars>>

ConnectServer ==
  /\ pc = "connect"
  /\ Socket!Connect
  /\ pc' = "nick"
  /\ UNCHANGED <<handlers, caller, buffer, cur, after, asked, user, whoises, bookVars,
                 histVars>>

\* send(): writeLine(), which does nothing on a socket that is not connected.
Send == IF flag THEN Socket!WriteLine ELSE UNCHANGED sockVars

\* identify() sends twice; a handler may send once before it returns.
SendThen(from, to) ==
  /\ pc = from
  /\ Send
  /\ pc' = to
  /\ UNCHANGED <<handlers, caller, buffer, cur, after, asked, user, whoises, bookVars,
                 histVars>>

Test ==
  /\ pc = "test"
  /\ pc' = IF flag THEN "proceed" ELSE "done"
  /\ UNCHANGED <<sockVars, handlers, caller, buffer, cur, after, asked, user, whoises,
                 bookVars, histVars>>

---------------------------------------------------------------------------
(* proceed(). *)

\* Mutant: an emptied buffer is nil.
BufferRestNil ==
  SubSeq(buffer, IF IsEmpty(buffer[1]) THEN 3 ELSE 2, Len(buffer))

\* What is left of self.buffer once its first line is cut off: in "\nA\nB" the
\* pattern (.[^\n]*) takes the leading '\n' with A.
BufferRest ==
  LET cut == IF IsEmpty(buffer[1]) THEN 2 ELSE 1
      rest == SubSeq(buffer, cut + 1, Len(buffer))
  IN  IF rest = <<>> THEN <<Empty>> ELSE rest

\* Mutant: getBufferedLine() leaves the line it returns in the buffer.
ProceedKeeping ==
  /\ pc = "proceed"
  /\ IF Len(buffer) = 1
     THEN /\ UNCHANGED buffer
          /\ cur' = buffer[1]
          /\ pc' = IF IsEmpty(buffer[1]) THEN "poll" ELSE "dispatch"
     ELSE /\ buffer' = BufferRest
          /\ pc' = "test"
          /\ UNCHANGED cur
  /\ caller' = "proceed"
  /\ UNCHANGED <<sockVars, handlers, after, asked, user, whoises, bookVars, histVars>>

\* Mutant: an empty buffer is taken for "no line".
ProceedDeaf ==
  /\ pc = "proceed"
  /\ pc' = IF IsEmpty(buffer[1]) THEN "test" ELSE "dispatch"
  /\ cur' = buffer[1]
  /\ UNCHANGED <<sockVars, handlers, caller, buffer, after, asked, user, whoises, bookVars,
                 histVars>>

\* getBufferedLine() and the choice of the line: "" means ask the socket.  When the
\* buffer holds a '\n' the function cuts a line off and returns the global res,
\* which is nil, so proceed() returns.
Proceed ==
  /\ pc = "proceed"
  /\ IF Len(buffer) = 1
     THEN /\ buffer' = <<Empty>>
          /\ cur' = buffer[1]
          /\ pc' = IF IsEmpty(buffer[1]) THEN "poll" ELSE "dispatch"
     ELSE /\ buffer' = BufferRest
          /\ pc' = "test"
          /\ UNCHANGED cur
  /\ caller' = "proceed"
  /\ UNCHANGED <<sockVars, handlers, after, asked, user, whoises, bookVars, histVars>>

\* getLine(), its canGetLine(): without a line proceed() returns and whois() goes
\* round its loop, whatever has become of the connection.
CanGetLine ==
  /\ pc = "poll"
  /\ Socket!CanGetLine
  /\ pc' = IF ready' # <<>> THEN "take" ELSE IF caller = "proceed" THEN "test" ELSE "poll"
  /\ UNCHANGED <<handlers, caller, buffer, cur, after, asked, user, whoises, bookVars,
                 histVars>>

\* What proceed() calls for a matched line.
EventOf(l) ==
  CASE l.kind = "376" -> "on_connect"
    [] l.kind \in Numeric \ {"376"} -> "on_numeric"
    [] l.kind = "PRIVMSG" -> "on_privmsg"
    [] OTHER -> "none"

\* A PING that has a handler goes to it and no further.  Any other line the pattern
\* does not match leaves command nil, on which string.find() raises an error.
Dispatch ==
  /\ pc = "dispatch"
  /\ IF cur.kind = "PING" /\ "on_ping" \in handlers
     THEN pc' = "handler" /\ after' = "test" /\ log' = Append(log, cur.n)
     ELSE IF ~Matched(cur)
     THEN pc' = "error" /\ UNCHANGED <<after, log>>
     ELSE /\ pc' = IF EventOf(cur) \in handlers THEN "handler" ELSE "raw"
          /\ after' = "raw"
          /\ log' = Append(log, cur.n)
  /\ UNCHANGED <<sockVars, handlers, caller, buffer, cur, asked, user, whoises, bookVars,
                 answers, missed>>

\* on_raw() and the end of proceed().
Raw ==
  /\ pc = "raw"
  /\ pc' = IF "on_raw" \in handlers THEN "handler" ELSE "test"
  /\ after' = "test"
  /\ UNCHANGED <<sockVars, handlers, caller, buffer, cur, asked, user, whoises, bookVars,
                 histVars>>

HandlerReturns ==
  /\ pc = "handler"
  /\ pc' = after
  /\ UNCHANGED <<sockVars, handlers, caller, buffer, cur, after, asked, user, whoises,
                 bookVars, histVars>>

---------------------------------------------------------------------------
(* whois(). *)

\* The question is sent and the loop entered, whether or not it went out.
CallWhois(nick) ==
  /\ pc = "handler"
  /\ whoises < MaxWhois
  /\ Send
  /\ \E answer \in AnswersTo(nick) :
       todo' = IF link = "up" /\ flag' THEN todo \o answer ELSE todo
  /\ pc' = "poll"
  /\ caller' = "whois"
  /\ asked' = nick
  /\ user' = NoNick
  /\ whoises' = whoises + 1
  /\ UNCHANGED <<handlers, buffer, cur, after, unasked, serial, histVars>>

\* Mutant: 318 does not end the loop.
EndsUnknown(l) == l.kind = "401"

\* Mutant: the loop ends with the 311.
EndsEarly(l) == l.kind \in {"311", "318", "401"}

\* The line after which whois() returns.
EndsWhois(l) == l.kind \in {"318", "401"}

\* A 318 is on its way.
EndIsToCome ==
  \E str \in {ready, wire, todo} : \E i \in 1 .. Len(str) : str[i].kind = "318"

\* What the loop does with a line: 318 ends it with the table, 401 with nil, 311 fills
\* the table, anything else is kept for proceed().
WhoisLine(l) ==
  /\ pc' = IF EndsWhois(l) THEN "handler" ELSE "poll"
  /\ answers' = IF l.kind = "318" THEN answers \cup {<<asked, user>>} ELSE answers
  /\ missed' = (missed \/ (l.kind = "401" /\ EndIsToCome))
  /\ user' = IF l.kind = "311" THEN l.who ELSE user
  /\ buffer' = IF l.kind \in {"311", "318", "401"} THEN buffer ELSE Append(buffer, l)

\* getLine(), its second half, and what its caller does with the line.
TakeLine ==
  /\ pc = "take"
  /\ Socket!GetLine
  /\ \/ /\ caller = "proceed"
        /\ cur' = Head(ready)
        /\ pc' = "dispatch"
        /\ UNCHANGED <<buffer, user, answers, missed>>
     \/ /\ caller = "whois"
        /\ WhoisLine(Head(ready))
        /\ UNCHANGED cur
  /\ UNCHANGED <<handlers, caller, after, asked, whoises, bookVars, log>>

---------------------------------------------------------------------------

Script ==
  /\ alive
  /\ \/ New \/ ConnectServer
     \/ SendThen("nick", "user") \/ SendThen("user", "test")
     \/ Test \/ Proceed \/ CanGetLine \/ TakeLine \/ Dispatch \/ Raw
     \/ HandlerReturns \/ SendThen("handler", after)
     \/ \E nick \in Nick : CallWhois(nick)

Server ==
  \/ \E kind \in Spontaneous : ServerSpeaks(kind)
  \/ ServerAnswers
  \/ ServerEnds

Next == Script \/ (alive /\ Server)

\* The script is one thread that never waits for good; the server answers what it is
\* asked as long as the connection is up.
Spec == Init /\ [][Next]_vars /\ WF_vars(Script) /\ WF_vars(ServerAnswers)

---------------------------------------------------------------------------
(* Properties. *)

Stopped == pc \in {"done", "error"} \/ ~alive

\* Lines are handled in the order the server sent them, none twice, although whois()
\* reads ahead of proceed() and hands its surplus back through self.buffer.
HandledInOrder == \A i, j \in 1 .. Len(log) : i < j => log[i] < log[j]

\* The table whois() returns describes the nick it was asked for, unless an earlier
\* question was answered with a 401 and a 318 after it: only that return leaves part
\* of an answer unread.
WhoisMatches == \A a \in answers : a[1] = a[2] \/ missed

\* whois() returns, or the connection has ended.
WhoisReturns ==
  (pc = "poll" /\ caller = "whois") ~> (pc = "handler" \/ Stopped \/ ~flag \/ link # "up")

\* A line that has arrived is handled, as long as whois() is not called and the
\* connection and the script last.
LinesAreHandled ==
  \A n \in 1 .. MaxLines :
    (\E i \in 1 .. Len(wire) : wire[i].n = n)
      ~> \/ \E i \in 1 .. Len(log) : log[i] = n
         \/ whoises # 0 \/ Stopped \/ ~flag \/ link # "up"

\* What the header of examples/testirc.lua says, "output all the raw text, commands and
\* so on that it sends us": a line kept for proceed() leaves self.buffer to be handled.
KeptLinesAreHandled ==
  [][\A i \in 1 .. Len(buffer) :
       \/ IsEmpty(buffer[i])
       \/ \E j \in 1 .. Len(buffer') : buffer'[j] = buffer[i]
       \/ cur' = buffer[i]]_vars
=============================================================================
