----------------------------- MODULE Connection -----------------------------
(***************************************************************************)
(* What the program promises of its connection to the game, with the       *)
(* terminal, the keyboard and the three views left out: it searches, and   *)
(* while it searches it may find a process; it shows items only of the     *)
(* process it found last; it stays on that process until it goes back to   *)
(* searching; and once closed it stays closed.                             *)
(***************************************************************************)
CONSTANTS Pids, NoPid

VARIABLES mode, pid

vars == <<mode, pid>>

Init == mode = "searching" /\ pid = NoPid

\* A search names exactly one process.
Find == mode = "searching" /\ mode' = mode /\ pid' \in Pids

\* The process found last is shown.
Attach == /\ mode = "searching" /\ pid # NoPid
          /\ mode' = "attached" /\ UNCHANGED pid

\* The process could not be read.
Lose == mode = "attached" /\ mode' = "searching" /\ UNCHANGED pid

\* The user quits, or an exception leaves main().
Close == mode # "closed" /\ mode' = "closed" /\ UNCHANGED pid

Next == Find \/ Attach \/ Lose \/ Close

Spec == Init /\ [][Next]_vars

=============================================================================
