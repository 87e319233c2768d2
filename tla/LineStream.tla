----------------------------- MODULE LineStream -----------------------------
(***************************************************************************)
(* What Client_socket promises to a reader: the bytes that arrive for an   *)
(* object form one stream, handed out from the front, each byte at most    *)
(* once; a line handed out is the next line of that stream however its     *)
(* bytes were cut into packets.  The stream of an object outlives a        *)
(* connection: nothing marks where one ends and the next begins.           *)
(***************************************************************************)
EXTENDS Integers, Sequences

CONSTANTS Sock, Byte, NL, CR

VARIABLES
  held,     \* held[s]: the program holds object s
  arrived,  \* arrived[s]: every byte that has arrived for s
  passed,   \* passed[s]: the bytes handed out, in order
  handed    \* handed[s]: the lines handed out

streamVars == <<held, arrived, passed, handed>>

StreamInit ==
  /\ held = [s \in Sock |-> FALSE]
  /\ arrived = [s \in Sock |-> <<>>]
  /\ passed = [s \in Sock |-> <<>>]
  /\ handed = [s \in Sock |-> <<>>]

\* At most more bytes arrive, and only for s.
Grows(s) ==
  /\ arrived' = [arrived EXCEPT ![s] = arrived'[s]]
  /\ Len(arrived[s]) <= Len(arrived'[s])
  /\ SubSeq(arrived'[s], 1, Len(arrived[s])) = arrived[s]

Fresh(s) ==
  /\ held' = [held EXCEPT ![s] = TRUE]
  /\ arrived' = [arrived EXCEPT ![s] = <<>>]
  /\ passed' = [passed EXCEPT ![s] = <<>>]
  /\ handed' = [handed EXCEPT ![s] = <<>>]

Drop(s) ==
  /\ held' = [held EXCEPT ![s] = FALSE]
  /\ UNCHANGED <<arrived, passed, handed>>

Arrive(s) == Grows(s) /\ UNCHANGED <<held, passed, handed>>

\* What is handed out are the first e bytes of those that have arrived.
PassUpTo(s, e) == passed' = [passed EXCEPT ![s] = SubSeq(arrived'[s], 1, e)]

\* The line from the read position up to the next '\n', without the '\r' before
\* it, is handed out.
HandLine(s) ==
  LET pos == Len(passed[s]) IN
  /\ Grows(s)
  /\ \E e \in pos + 1 .. Len(arrived'[s]) :
       LET line == SubSeq(arrived'[s], pos + 1, e - 1)
           bare == SubSeq(arrived'[s], pos + 1, e - 2)
       IN /\ arrived'[s][e] = NL
          /\ \A i \in pos + 1 .. e - 1 : arrived'[s][i] # NL
          /\ handed' = [handed EXCEPT ![s] =
               Append(@, IF e - 1 > pos /\ arrived'[s][e - 1] = CR THEN bare ELSE line)]
          /\ PassUpTo(s, e)
  /\ UNCHANGED held

\* Raw bytes are handed out: one, or all there are.
HandBytes(s) ==
  /\ Len(passed[s]) < Len(arrived[s])
  /\ UNCHANGED <<held, arrived, handed>>
  /\ \E e \in {Len(passed[s]) + 1, Len(arrived[s])} : PassUpTo(s, e)

StreamNext ==
  \E s \in Sock : \/ held[s] /\ (Drop(s) \/ Arrive(s) \/ HandLine(s) \/ HandBytes(s))
                  \/ ~held[s] /\ Fresh(s)

StreamSpec == StreamInit /\ [][StreamNext]_streamVars
=============================================================================
