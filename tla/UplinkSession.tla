--------------------------- MODULE UplinkSession ---------------------------
(***************************************************************************)
(* What the uplink promises to the board, without sockets, pointers or     *)
(* threads.  There is at most one session with the host.  Each packet the  *)
(* board offers is disposed of at once: it joins the open session or it is *)
(* dropped.  Packets are never queued for a later session, and while a     *)
(* session is open at most one is dropped: its first, and that only when   *)
(* it was already being submitted as the session was opened.               *)
(***************************************************************************)
EXTENDS Naturals, Sequences

VARIABLES
  open,   \* is there a session with the host?
  log,    \* the packets of the open session, by number, in the order sent
  n,      \* the number of packets disposed of so far
  late,   \* a packet is being submitted that will miss the open session
  alive   \* the process runs

vars == <<open, log, n, late, alive>>

Init ==
  /\ open = FALSE
  /\ log = <<>>
  /\ n = 0
  /\ late = FALSE
  /\ alive = TRUE

\* A submit that has begun may have been too early for the new session.
Open ==
  /\ ~open
  /\ open' = TRUE
  /\ log' = <<>>
  /\ late' \in BOOLEAN
  /\ UNCHANGED <<n, alive>>

Close ==
  /\ open
  /\ open' = FALSE
  /\ log' = <<>>
  /\ late' = FALSE
  /\ UNCHANGED <<n, alive>>

\* The next packet joins the session, right behind its predecessor.
Put ==
  /\ open /\ ~late
  /\ log # <<>> => log[Len(log)] = n
  /\ log' = Append(log, n + 1)
  /\ n' = n + 1
  /\ UNCHANGED <<open, late, alive>>

\* The next packet is lost: there is no session, or it misses it.
Drop ==
  /\ open => late /\ log = <<>>
  /\ n' = n + 1
  /\ late' = FALSE
  /\ UNCHANGED <<open, log, alive>>

\* The submit of a packet that would be lost can end the process instead.
Die ==
  /\ open => late /\ log = <<>>
  /\ alive' = FALSE
  /\ UNCHANGED <<open, log, n, late>>

Next == alive /\ (Open \/ Close \/ Put \/ Drop \/ Die)

Spec == Init /\ [][Next]_vars

=============================================================================
