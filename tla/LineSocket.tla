----------------------------- MODULE LineSocket -----------------------------
(***************************************************************************)
(* What one Client_socket, connected once, is to a program that reads it by *)
(* lines: the lines the peer has sent wait on the wire, then in the buffer *)
(* of the object, and the connected flag falls when bufferize() or write() *)
(* meets the end of the connection.  ReadLoop is shown to implement it, and *)
(* the IRC client is built on it.                                          *)
(***************************************************************************)
EXTENDS Integers, Sequences

CONSTANT Line  \* the lines a peer may send

VARIABLES
  wire,   \* the complete lines that have arrived and that recv() has not returned
  ready,  \* the complete lines in the buffer of the object
  flag,   \* what is_connected() returns
  link,   \* the state of the connection
  alive   \* FALSE once SIGPIPE has killed the process

lineVars == <<wire, ready, flag, link, alive>>

(***************************************************************************)
(* "down": connect_socket() has not been called.  "up": established.       *)
(* "end": nothing more will arrive.  "tail": the same, but an unfinished   *)
(* line is still to be read before that can be seen.                       *)
(***************************************************************************)
LinkState == {"down", "up", "tail", "end"}

LineTypeOK ==
  /\ wire \in Seq(Line)
  /\ ready \in Seq(Line)
  /\ flag \in BOOLEAN
  /\ link \in LinkState
  /\ alive \in BOOLEAN

LineInit ==
  /\ wire = <<>>
  /\ ready = <<>>
  /\ flag = FALSE
  /\ link = "down"
  /\ alive = TRUE

\* The constructor leaves the flag unset.
Create ==
  /\ link = "down"
  /\ flag' \in BOOLEAN
  /\ UNCHANGED <<wire, ready, link, alive>>

\* A connect that fails leaves a socket on which the end is seen at once.
Connect ==
  /\ link = "down"
  /\ flag' \in BOOLEAN
  /\ link' = IF flag' THEN "up" ELSE "end"
  /\ UNCHANGED <<wire, ready, alive>>

PeerLine(l) ==
  /\ link = "up"
  /\ wire' = Append(wire, l)
  /\ UNCHANGED <<ready, flag, link, alive>>

\* The peer closes or resets; a reset, which may follow a close, may drop what has
\* not been read.
PeerEnd ==
  /\ link # "down"
  /\ wire' \in {wire, <<>>}
  /\ link' \in IF link = "end" THEN {"end"} ELSE {"tail", "end"}
  /\ UNCHANGED <<ready, flag, alive>>

---------------------------------------------------------------------------
(* The calls. *)

\* How many lines one recv() completes.  One that completes none is not seen, but
\* when getline() takes a line that was there before.
Chunk == IF wire = <<>> THEN {0}
         ELSE IF ready = <<>> THEN 1 .. Len(wire) ELSE 0 .. Len(wire)

\* bufferize() when its recv() completes n lines, except for the buffer.
Bufferize(n) ==
  /\ wire' = SubSeq(wire, n + 1, Len(wire))
  /\ flag' = (flag /\ ~(link = "end" /\ wire = <<>>))
  /\ \/ UNCHANGED link /\ (link = "tail" => wire # <<>> \/ ready # <<>>)
     \/ link = "tail" /\ n = Len(wire) /\ link' = "end"
  /\ UNCHANGED alive

Buffered(n) == ready \o SubSeq(wire, 1, n)

CanGetLine ==
  \E n \in Chunk : Bufferize(n) /\ ready' = Buffered(n)

GetLine ==
  \E n \in Chunk :
    /\ Bufferize(n)
    /\ ready' = IF Buffered(n) = <<>> THEN <<>> ELSE Tail(Buffered(n))

\* write_line(): the line goes out, or send() fails and the flag falls, or the
\* connection has been reset and SIGPIPE kills the process.
WriteLine ==
  /\ flag
  /\ flag' \in BOOLEAN
  /\ alive' \in IF link \in {"tail", "end"} THEN BOOLEAN ELSE {TRUE}
  /\ UNCHANGED <<wire, ready, link>>

LineNext ==
  /\ alive
  /\ \/ Create \/ Connect \/ CanGetLine \/ GetLine \/ WriteLine \/ PeerEnd
     \/ /\ Len(wire') > Len(wire)
        /\ wire'[Len(wire')] \in Line
        /\ PeerLine(wire'[Len(wire')])

LineSpec == LineInit /\ [][LineNext]_lineVars
=============================================================================
