---------------------------- MODULE ClientSocket ----------------------------
(***************************************************************************)
(* Client_socket (src/client_socket.cpp) and the Lua userdata that wraps   *)
(* it (src/wrap_client.cpp), over the descriptors and connections of       *)
(* Network.  One action is one method call.  The program is one thread, so *)
(* calls do not overlap; the peers move between any two of them.           *)
(*                                                                         *)
(* Next lets the program make any call on any object at any time.          *)
(* CarefulNext is the same program when it closes a descriptor once, before *)
(* it connects the object again or drops it, and reads and writes only in  *)
(* between.                                                                *)
(***************************************************************************)
EXTENDS Network

CONSTANTS
  NL,        \* the byte '\n'
  CR,        \* the byte '\r'
  RecvMax,   \* the most bytes one recv() returns, 4095 in the source
  MaxClock   \* the last second of the clock (bounds the model)

ASSUME ClientSocketAssumption ==
  /\ NL \in Byte /\ CR \in Byte /\ NL # CR
  /\ RecvMax \in Nat \ {0}
  /\ MaxClock \in Nat

VARIABLES
  exists,     \* exists[s]: the program holds a userdata for s
  sock,       \* sock[s]: the descriptor number, -1 before the first connect
  connected,  \* connected[s]: the flag is_connected() returns
  buff,       \* buff[s]: the bytes received and not yet handed out
  last_poke,  \* last_poke[s]: when bytes were last received
  last_ping,  \* last_ping[s]: when bytes were last sent
  clock,      \* what time() returns
  proc,       \* "running", or "killed" by a signal or an uncaught exception
  mine,       \* history: the connection s opened and has not closed since
  users,      \* history: users[c] are the objects that opened, read or wrote c
  received,   \* history: the bytes recv() has taken off the connections for s, in order
  eaten,      \* history: the bytes that have left buff[s], in order
  lines       \* history: the lines getline() has returned from s, in order

objVars == <<exists, sock, connected, buff, last_poke, last_ping>>
histVars == <<mine, users, received, eaten, lines>>
vars == <<netVars, objVars, clock, proc, histVars>>

Time == 0 .. MaxClock

TypeOK ==
  /\ NetTypeOK
  /\ exists \in [Sock -> BOOLEAN]
  /\ sock \in [Sock -> Fd \cup {-1}]
  /\ connected \in [Sock -> BOOLEAN]
  /\ buff \in [Sock -> Seq(Byte)]
  /\ last_poke \in [Sock -> Time]
  /\ last_ping \in [Sock -> Time]
  /\ clock \in Time
  /\ proc \in {"running", "killed"}
  /\ mine \in [Sock -> ConnId \cup {NoConn}]
  /\ users \in [ConnId -> SUBSET Sock]
  /\ received \in [Sock -> Seq(Byte)]
  /\ eaten \in [Sock -> Seq(Byte)]
  /\ lines \in [Sock -> Seq(Seq(Byte))]

\* Nothing is constructed.  The constructor leaves connected, last_poke and
\* last_ping unset, so NewSocket gives them whatever the memory held.
Init ==
  /\ NetInit
  /\ exists = [s \in Sock |-> FALSE]
  /\ sock = [s \in Sock |-> -1]
  /\ connected = [s \in Sock |-> FALSE]
  /\ buff = [s \in Sock |-> <<>>]
  /\ last_poke = [s \in Sock |-> 0]
  /\ last_ping = [s \in Sock |-> 0]
  /\ clock = 0
  /\ proc = "running"
  /\ mine = [s \in Sock |-> NoConn]
  /\ users = [c \in ConnId |-> {}]
  /\ received = [s \in Sock |-> <<>>]
  /\ eaten = [s \in Sock |-> <<>>]
  /\ lines = [s \in Sock |-> <<>>]

---------------------------------------------------------------------------
(* Lines. *)

\* b holds a complete line.
HasLine(b) == \E i \in 1 .. Len(b) : b[i] = NL

\* Mutant: getline() stops at the last '\n' of the buffer.
LastLineEnd(b) == CHOOSE i \in 1 .. Len(b) : b[i] = NL /\ \A j \in i + 1 .. Len(b) : b[j] # NL

\* The position of the first '\n' of b.
LineEnd(b) == CHOOSE i \in 1 .. Len(b) : b[i] = NL /\ \A j \in 1 .. i - 1 : b[j] # NL

\* A line without the '\r' that may end it.
StripCR(l) ==
  IF Len(l) > 0 /\ l[Len(l)] = CR THEN SubSeq(l, 1, Len(l) - 1) ELSE l

FirstLine(b) == StripCR(SubSeq(b, 1, LineEnd(b) - 1))

---------------------------------------------------------------------------
(* The life of an object. *)

\* Mutant: the constructor does not set sock either.
NewSocketUnset(s) ==
  /\ ~exists[s]
  /\ exists' = [exists EXCEPT ![s] = TRUE]
  /\ sock' = [sock EXCEPT ![s] = 0]
  /\ UNCHANGED <<netVars, connected, buff, last_poke, last_ping, clock, proc, histVars>>

\* luanet.newSocket: a fresh Client_socket.
NewSocket(s) ==
  /\ ~exists[s]
  /\ exists' = [exists EXCEPT ![s] = TRUE]
  /\ sock' = [sock EXCEPT ![s] = -1]
  /\ buff' = [buff EXCEPT ![s] = <<>>]
  /\ received' = [received EXCEPT ![s] = <<>>]
  /\ eaten' = [eaten EXCEPT ![s] = <<>>]
  /\ lines' = [lines EXCEPT ![s] = <<>>]
  /\ \E garbage \in BOOLEAN, poke, ping \in Time :
       /\ connected' = [connected EXCEPT ![s] = garbage]
       /\ last_poke' = [last_poke EXCEPT ![s] = poke]
       /\ last_ping' = [last_ping EXCEPT ![s] = ping]
  /\ UNCHANGED <<netVars, clock, proc, mine, users>>

\* Mutant: a __gc that closes the socket, again if the program has closed it.
CollectClosing(s) ==
  /\ exists[s]
  /\ exists' = [exists EXCEPT ![s] = FALSE]
  /\ mine' = [mine EXCEPT ![s] = NoConn]
  /\ table' = TableWithout(sock[s])
  /\ st' = StatesWithout(sock[s])
  /\ UNCHANGED <<sent, taken, out, sock, connected, buff, last_poke, last_ping, clock,
                 proc, users, received, eaten, lines>>

\* The Lua collector frees the userdata.  Its metatable has no __gc, so the
\* Client_socket is neither deleted nor closed.
Collect(s) ==
  /\ exists[s]
  /\ exists' = [exists EXCEPT ![s] = FALSE]
  /\ mine' = [mine EXCEPT ![s] = NoConn]
  /\ UNCHANGED <<netVars, sock, connected, buff, last_poke, last_ping, clock, proc,
                 users, received, eaten, lines>>

\* connect_socket() when the descriptor table is tbl and the connection states
\* are states.  The descriptor of a failed connect or DNS lookup stays open, and
\* the number of an earlier descriptor is overwritten.
ConnectFrom(s, tbl, states) ==
  /\ \/ \E f \in Fd, c \in ConnId, up \in BOOLEAN :
          /\ IsLowestFree(tbl, f)
          /\ states[c] = "free"
          /\ table' = [tbl EXCEPT ![f] = c]
          /\ st' = [states EXCEPT ![c] = IF up THEN "up" ELSE "new"]
          /\ sock' = [sock EXCEPT ![s] = f]
          /\ connected' = [connected EXCEPT ![s] = up]
          /\ mine' = [mine EXCEPT ![s] = c]
          /\ users' = [users EXCEPT ![c] = {s}]
     \/ /\ IsFull(tbl)
        /\ table' = tbl
        /\ st' = states
        /\ sock' = [sock EXCEPT ![s] = -1]
        /\ connected' = [connected EXCEPT ![s] = FALSE]
        /\ mine' = [mine EXCEPT ![s] = NoConn]
        /\ UNCHANGED users
  /\ UNCHANGED <<sent, taken, out, exists, buff, last_poke, last_ping, clock, proc,
                 received, eaten, lines>>

\* Mutant: the result of connect() is not looked at.
ConnectUnchecked(s) ==
  /\ exists[s]
  /\ \E f \in Fd, c \in ConnId, state \in {"new", "up"} :
       /\ IsLowestFree(table, f)
       /\ st[c] = "free"
       /\ table' = [table EXCEPT ![f] = c]
       /\ st' = [st EXCEPT ![c] = state]
       /\ sock' = [sock EXCEPT ![s] = f]
       /\ connected' = [connected EXCEPT ![s] = TRUE]
       /\ mine' = [mine EXCEPT ![s] = c]
       /\ users' = [users EXCEPT ![c] = {s}]
  /\ UNCHANGED <<sent, taken, out, exists, buff, last_poke, last_ping, clock, proc,
                 received, eaten, lines>>

ConnectSocket(s) == exists[s] /\ ConnectFrom(s, table, st)

\* close_socket() closes the number it holds, whoever opened it, and keeps both
\* the number and the connected flag.
CloseSocket(s) ==
  /\ exists[s]
  /\ table' = TableWithout(sock[s])
  /\ st' = StatesWithout(sock[s])
  /\ mine' = [mine EXCEPT ![s] = NoConn]
  /\ UNCHANGED <<sent, taken, out, objVars, clock, proc, users, received, eaten,
                 lines>>

\* Mutant: reconnect_socket() without its close_socket().
ReconnectLeaking(s) == exists[s] /\ ConnectFrom(s, table, st)

ReconnectSocket(s) ==
  /\ exists[s]
  /\ ConnectFrom(s, TableWithout(sock[s]), StatesWithout(sock[s]))

---------------------------------------------------------------------------
(* Reading. *)

ConnOf(s) == Behind(sock[s])

\* FD_SET(sock, &set) stays inside the set.
Selectable(s) == sock[s] \in 0 .. FdSetSize - 1

\* The bytes recv() returns to bufferize(); none when select() says so.
Incoming(s) ==
  IF Selectable(s) /\ ConnOf(s) # NoConn THEN Received(ConnOf(s), RecvMax) ELSE <<>>

\* Mutant: only -1 ends the connection.
SeesError(s) == Selectable(s) /\ ConnOf(s) # NoConn /\ IsDrained(ConnOf(s)) /\ st[ConnOf(s)] = "rst"

\* recv() returns 0 or -1 to bufferize().
SeesEnd(s) == Selectable(s) /\ ConnOf(s) # NoConn /\ IsDrained(ConnOf(s))

\* The bytes that this step takes off the connection behind s, by the counter of the
\* connection.
TakenOff(s) ==
  IF ConnOf(s) = NoConn THEN <<>>
  ELSE SubSeq(sent[ConnOf(s)], taken[ConnOf(s)] + 1, taken'[ConnOf(s)])

\* Mutant: every poll sets the flag anew.
BufferizeReviving(s) ==
  /\ Selectable(s)
  /\ taken' = [c \in ConnId |->
                 IF c = ConnOf(s) THEN taken[c] + Len(Incoming(s)) ELSE taken[c]]
  /\ users' = [c \in ConnId |-> IF c = ConnOf(s) THEN users[c] \cup {s} ELSE users[c]]
  /\ received' = [received EXCEPT ![s] = @ \o TakenOff(s)]
  /\ connected' = [connected EXCEPT ![s] = ~SeesEnd(s)]
  /\ UNCHANGED <<last_poke, proc>>

\* bufferize(), except that its callers say what becomes of buff.  It looks at the
\* descriptor only: not at connected, nor at who opened it.  select() on a number
\* that is not open fails and changes nothing.  Outside the fd_set FD_SET is
\* undefined: nothing is seen (the bit lands where select() does not look), the
\* process dies (a checked FD_SET, a smashed stack), or, for -1, the bit of
\* another descriptor is set and recv(-1) fails.
Bufferize(s) ==
  \/ /\ Selectable(s)
     /\ taken' = [c \in ConnId |->
                    IF c = ConnOf(s) THEN taken[c] + Len(Incoming(s)) ELSE taken[c]]
     /\ users' = [c \in ConnId |-> IF c = ConnOf(s) THEN users[c] \cup {s} ELSE users[c]]
     /\ received' = [received EXCEPT ![s] = @ \o TakenOff(s)]
     /\ last_poke' = [last_poke EXCEPT ![s] = IF Incoming(s) = <<>> THEN @ ELSE clock]
     /\ connected' = [connected EXCEPT ![s] = @ /\ ~SeesEnd(s)]
     /\ UNCHANGED proc
  \/ /\ ~Selectable(s)
     /\ \/ UNCHANGED <<connected, proc>>
        \/ /\ sock[s] = -1
           /\ connected' = [connected EXCEPT ![s] = FALSE]
           /\ UNCHANGED proc
        \/ /\ proc' = "killed"
           /\ UNCHANGED connected
     /\ UNCHANGED <<taken, users, received, last_poke>>

\* Mutant: the received bytes replace the buffer.
PollReplacing(s) ==
  /\ exists[s]
  /\ Bufferize(s)
  /\ buff' = [buff EXCEPT ![s] = IF Incoming(s) = <<>> THEN @ ELSE Incoming(s)]
  /\ UNCHANGED <<table, st, sent, out, exists, sock, last_ping, clock, mine, eaten, lines>>

\* can_getline(), can_getchars(), can_getchar(): the same effect, the answer is
\* read off the new buffer.
Poll(s) ==
  /\ exists[s]
  /\ Bufferize(s)
  /\ buff' = [buff EXCEPT ![s] = @ \o Incoming(s)]
  /\ UNCHANGED <<table, st, sent, out, exists, sock, last_ping, clock, mine, eaten, lines>>

\* getline(): polls again, then takes the oldest complete line if there is one;
\* otherwise it returns "" and takes nothing.
GetLine(s) ==
  LET b == buff[s] \o Incoming(s) IN
  /\ exists[s]
  /\ Bufferize(s)
  /\ IF HasLine(b)
     THEN /\ buff' = [buff EXCEPT ![s] = SubSeq(b, LineEnd(b) + 1, Len(b))]
          /\ eaten' = [eaten EXCEPT ![s] = @ \o SubSeq(b, 1, LineEnd(b))]
          /\ lines' = [lines EXCEPT ![s] = Append(@, FirstLine(b))]
     ELSE /\ buff' = [buff EXCEPT ![s] = b]
          /\ UNCHANGED <<eaten, lines>>
  /\ UNCHANGED <<table, st, sent, out, exists, sock, last_ping, clock, mine>>

\* getchars() and getchars_as_string(): hand out the buffer without polling.
GetChars(s) ==
  /\ exists[s]
  /\ buff' = [buff EXCEPT ![s] = <<>>]
  /\ eaten' = [eaten EXCEPT ![s] = @ \o buff[s]]
  /\ UNCHANGED <<netVars, exists, sock, connected, last_poke, last_ping, clock, proc,
                 mine, users, received, lines>>

\* getchar(): buff.at(0) throws when the buffer is empty.
GetChar(s) ==
  /\ exists[s]
  /\ IF buff[s] = <<>>
     THEN proc' = "killed" /\ UNCHANGED <<buff, eaten>>
     ELSE /\ buff' = [buff EXCEPT ![s] = Tail(@)]
          /\ eaten' = [eaten EXCEPT ![s] = Append(@, Head(buff[s]))]
          /\ UNCHANGED proc
  /\ UNCHANGED <<netVars, exists, sock, connected, last_poke, last_ping, clock,
                 mine, users, received, lines>>

---------------------------------------------------------------------------
(* Writing. *)

\* Mutant: a message sent in part is taken for a sent one.
SendForgiving(s, splittable) ==
  /\ Writable(ConnOf(s))
  /\ Len(out[ConnOf(s)]) < MaxOut
  /\ \E whole \in {TRUE, ~splittable} :
       out' = [out EXCEPT ![ConnOf(s)] = Append(@, [by |-> s, whole |-> whole])]
  /\ users' = [users EXCEPT ![ConnOf(s)] = @ \cup {s}]
  /\ last_ping' = [last_ping EXCEPT ![s] = clock]
  /\ UNCHANGED <<connected, proc>>

\* send() on the descriptor of s and what write() makes of its result: everything
\* sent is a ping, anything less ends the connection for this object.  On a
\* connection that takes no more data SIGPIPE may kill the process instead.
Send(s, splittable) ==
  \/ /\ Writable(ConnOf(s))
     /\ Len(out[ConnOf(s)]) < MaxOut
     /\ \E whole \in {TRUE} \cup (IF splittable THEN {FALSE} ELSE {}) :
          /\ out' = [out EXCEPT ![ConnOf(s)] = Append(@, [by |-> s, whole |-> whole])]
          /\ users' = [users EXCEPT ![ConnOf(s)] = @ \cup {s}]
          /\ IF whole
             THEN last_ping' = [last_ping EXCEPT ![s] = clock] /\ UNCHANGED connected
             ELSE connected' = [connected EXCEPT ![s] = FALSE] /\ UNCHANGED last_ping
     /\ UNCHANGED proc
  \/ /\ connected' = [connected EXCEPT ![s] = FALSE]
     /\ UNCHANGED <<out, users, last_ping, proc>>
  \/ /\ ConnOf(s) # NoConn
     /\ ~Writable(ConnOf(s))
     /\ proc' = "killed"
     /\ UNCHANGED <<out, users, last_ping, connected>>

\* write(string) and write_line(string): nothing happens unless connected is set.
Write(s) ==
  /\ exists[s]
  /\ connected[s]
  /\ Send(s, TRUE)
  /\ UNCHANGED <<table, st, sent, taken, exists, sock, buff, last_poke, clock, mine,
                 received, eaten, lines>>

\* write(char): a single byte cannot be sent in part.
WriteChar(s) ==
  /\ exists[s]
  /\ connected[s]
  /\ Send(s, FALSE)
  /\ UNCHANGED <<table, st, sent, taken, exists, sock, buff, last_poke, clock, mine,
                 received, eaten, lines>>

---------------------------------------------------------------------------
(* Time. *)

Tick ==
  /\ clock < MaxClock
  /\ clock' = clock + 1
  /\ UNCHANGED <<netVars, objVars, proc, histVars>>

\* Mutant: the answer is turned round.
has_not_timed_out(s, sec) == clock - last_poke[s] < sec

has_timed_out(s, sec) == ~(clock - last_poke[s] < sec)
has_pinged_out(s, sec) == ~(clock - last_ping[s] < sec)

---------------------------------------------------------------------------
(* The program. *)

PeerStep == Peer /\ UNCHANGED <<objVars, clock, proc, histVars>>

Call(s) ==
  \/ NewSocket(s) \/ Collect(s)
  \/ ConnectSocket(s) \/ CloseSocket(s) \/ ReconnectSocket(s)
  \/ Poll(s) \/ GetLine(s) \/ GetChars(s) \/ GetChar(s)
  \/ Write(s) \/ WriteChar(s)

Next ==
  /\ proc = "running"
  /\ \/ PeerStep
     \/ Tick
     \/ \E s \in Sock : Call(s)

Spec == Init /\ [][Next]_vars

\* A careful program: one close for each connect, no call in between that needs a
\* descriptor, and getchar() only when there is something to get.
CarefulCall(s) ==
  \/ /\ mine[s] = NoConn
     /\ NewSocket(s) \/ Collect(s) \/ ConnectSocket(s)
  \/ /\ mine[s] # NoConn
     /\ CloseSocket(s) \/ ReconnectSocket(s) \/ Poll(s) \/ GetLine(s)
        \/ Write(s) \/ WriteChar(s)
  \/ GetChars(s)
  \/ buff[s] # <<>> /\ GetChar(s)

CarefulNext ==
  /\ proc = "running"
  /\ \/ PeerStep
     \/ Tick
     \/ \E s \in Sock : CarefulCall(s)

CarefulSpec == Init /\ [][CarefulNext]_vars
=============================================================================
