------------------------------ MODULE Network ------------------------------
(***************************************************************************)
(* The operating system below luanet: the descriptor table of the process  *)
(* and the TCP connections behind its descriptors.  None of it is code of  *)
(* the repository; it is what src/client_socket.cpp assumes of socket(),   *)
(* connect(), close(), select(), recv() and send().                        *)
(*                                                                         *)
(* A connection is what one successful socket() call returns.  Its         *)
(* incoming bytes are an immutable queue: sent[c] is everything that has   *)
(* arrived from the peer, taken[c] counts the bytes recv() has returned.   *)
(***************************************************************************)
EXTENDS Integers, Sequences

CONSTANTS
  Sock,       \* the Client_socket objects the program may hold
  Fd,         \* the descriptor numbers the process may use (RLIMIT_NOFILE)
  FdSetSize,  \* FD_SETSIZE: an fd_set has room for 0 .. FdSetSize - 1
  ConnId,     \* the connections a behaviour may open (bounds the model)
  NoConn,     \* marks a descriptor that is not open
  Byte,       \* the bytes a peer may send
  MaxSent,    \* the most bytes a peer sends on a connection (bounds the model)
  MaxOut      \* the most messages sent to a peer (bounds the model)

ASSUME NetworkAssumption ==
  /\ Fd \subseteq Nat
  /\ FdSetSize \in Nat
  /\ NoConn \notin ConnId
  /\ MaxSent \in Nat
  /\ MaxOut \in Nat

VARIABLES
  table,   \* table[f]: the connection behind descriptor f, or NoConn
  st,      \* st[c]: the state of connection c
  sent,    \* sent[c]: the bytes that have arrived from the peer of c
  taken,   \* taken[c]: how many of them recv() has returned
  out      \* out[c]: the messages the peer of c has been sent, each with its
           \* author and whether send() took all of it

netVars == <<table, st, sent, taken, out>>

(***************************************************************************)
(* "free": not opened yet.  "new": socket() succeeded, connect() did not.  *)
(* "up": established.  "fin": the peer has closed its side.  "rst": the    *)
(* peer has reset the connection.  "closed": this process closed it.       *)
(***************************************************************************)
ConnState == {"free", "new", "up", "fin", "rst", "closed"}

Message == [by : Sock, whole : BOOLEAN]

NetTypeOK ==
  /\ table \in [Fd -> ConnId \cup {NoConn}]
  /\ st \in [ConnId -> ConnState]
  /\ sent \in [ConnId -> Seq(Byte)]
  /\ taken \in [ConnId -> Nat]
  /\ \A c \in ConnId : taken[c] <= Len(sent[c])
  /\ out \in [ConnId -> Seq(Message)]

NetInit ==
  /\ table = [f \in Fd |-> NoConn]
  /\ st = [c \in ConnId |-> "free"]
  /\ sent = [c \in ConnId |-> <<>>]
  /\ taken = [c \in ConnId |-> 0]
  /\ out = [c \in ConnId |-> <<>>]

\* POSIX: socket() returns the lowest descriptor that is not open in tbl.
IsLowestFree(tbl, f) ==
  /\ tbl[f] = NoConn
  /\ \A g \in Fd : tbl[g] = NoConn => f <= g

\* EMFILE: every descriptor of tbl is open.
IsFull(tbl) == \A f \in Fd : tbl[f] # NoConn

\* The table and the connection states once close(f) has returned; a number
\* that is not an open descriptor is EBADF and changes nothing.
TableWithout(f) == [g \in Fd |-> IF g = f THEN NoConn ELSE table[g]]
StatesWithout(f) ==
  [c \in ConnId |-> IF f \in Fd /\ table[f] = c THEN "closed" ELSE st[c]]

\* The connection behind the number f, NoConn when f is not open.
Behind(f) == IF f \in Fd THEN table[f] ELSE NoConn

Unread(c) == Len(sent[c]) - taken[c]

\* recv(f, n) on a connection with unread bytes: the first n of them at most.
Received(c, n) ==
  SubSeq(sent[c], taken[c] + 1, taken[c] + (IF Unread(c) < n THEN Unread(c) ELSE n))

\* select() reports c readable and recv() then returns 0 or -1.
IsDrained(c) == Unread(c) = 0 /\ st[c] # "up"

\* send() reaches a peer that still takes data.
Writable(c) == c # NoConn /\ st[c] \in {"up", "fin"}

---------------------------------------------------------------------------
(* What the peer of connection c does. *)

PeerSends(c, b) ==
  /\ st[c] = "up"
  /\ Len(sent[c]) < MaxSent
  /\ sent' = [sent EXCEPT ![c] = Append(@, b)]
  /\ UNCHANGED <<table, st, taken, out>>

PeerCloses(c) ==
  /\ st[c] = "up"
  /\ st' = [st EXCEPT ![c] = "fin"]
  /\ UNCHANGED <<table, sent, taken, out>>

\* A reset keeps the bytes already queued on some systems, drops them on others.
PeerResets(c) ==
  /\ st[c] \in {"up", "fin"}
  /\ st' = [st EXCEPT ![c] = "rst"]
  /\ sent' \in {sent, [sent EXCEPT ![c] = SubSeq(@, 1, taken[c])]}
  /\ UNCHANGED <<table, taken, out>>

Peer ==
  \E c \in ConnId :
    \/ \E b \in Byte : PeerSends(c, b)
    \/ PeerCloses(c)
    \/ PeerResets(c)
=============================================================================
