-------------------------- MODULE ClientSocketProps --------------------------
(***************************************************************************)
(* The properties of ClientSocket.  Those named Careful... are claimed of  *)
(* CarefulSpec only: a program that closes twice, or reads after a close,  *)
(* breaks them.                                                            *)
(***************************************************************************)
EXTENDS ClientSocket

\* The byte stream of an object is what recv() has taken off its connections; what has
\* been handed out is what has left its buffer.
Stream == INSTANCE LineStream WITH
  held <- exists, arrived <- received, passed <- eaten, handed <- lines

\* Whatever calls the program makes, the bytes handed out are the first of those recv()
\* has returned: on their way through bufferize(), getline(), getchar() and getchars()
\* none is lost, repeated or reordered, and getline() returns exactly the lines of that
\* stream, wherever recv() cut it.
LinesAreOfTheStream == Stream!StreamSpec

\* A connected flag set by connect_socket() means connect() succeeded: no call
\* afterwards turns it on for a connection that was never established.  (Nothing is said
\* of an object that has closed: close_socket() leaves the flag as it was.)
ConnectedWasEstablished ==
  \A s \in Sock : mine[s] # NoConn /\ connected[s] => st[mine[s]] \notin {"free", "new"}

\* Once bufferize() or write() has seen the end of a connection, the object stays
\* disconnected until it is connected again.
DisconnectionIsFinal ==
  [][\A s \in Sock : exists[s] /\ ~connected[s] /\ connected'[s] => mine'[s] # mine[s]]_vars

\* A watchdog built on has_timed_out() or has_pinged_out() never fires because of a
\* call: once an object is within the delay, only the passing of time takes it out of
\* it, whatever is read, written, closed or connected again meanwhile.
OnlyTimeTimesOut ==
  [][\A s \in Sock, sec \in 1 .. MaxClock + 1 :
       exists[s] /\ exists'[s] /\ clock' = clock
         => /\ has_timed_out(s, sec)' => has_timed_out(s, sec)
            /\ has_pinged_out(s, sec)' => has_pinged_out(s, sec)]_vars

---------------------------------------------------------------------------
(* Careful programs. *)

\* The descriptor an object holds is open and is the connection it opened: no
\* other object's close_socket() or connect_socket() takes it away.
CarefulDescriptorIsMine ==
  \A s \in Sock : mine[s] # NoConn => sock[s] \in Fd /\ table[sock[s]] = mine[s]

\* Every open descriptor belongs to an object that can still close it.
CarefulNoLeak ==
  \A f \in Fd : table[f] # NoConn => \E s \in Sock : sock[s] = f /\ mine[s] = table[f]

\* A connection is read and written by one object only.
CarefulNoCrosstalk ==
  \A c \in ConnId : \A s, t \in users[c] : s = t

\* After a message that send() took in part nothing more goes out on that
\* connection: the peer never sees the tail of one line joined to another.
CarefulFraming ==
  \A c \in ConnId : \A i \in 1 .. Len(out[c]) - 1 : out[c][i].whole

\* With fewer objects than an fd_set has room for, FD_SET() is always given a
\* descriptor inside it: the program dies of SIGPIPE or not at all.  The write that kills
\* it is one by an object that is told it is connected while its peer has reset the
\* connection.
CarefulDeathIsSigpipe ==
  proc = "killed" =>
    \E s \in Sock : mine[s] # NoConn /\ connected[s] /\ st[mine[s]] = "rst"
=============================================================================
