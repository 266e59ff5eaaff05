---------------------------- MODULE MCSchedules -----------------------------
(* Instances of Schedules for TLC. *)
EXTENDS Schedules, TLC

CONSTANTS o1, o2

Quiet == [d \in Disturbances |-> 0]

(* An edit of the text of the task keeps its moments; one scenario has an  *)
(* edit that replaces the recurrence.                                      *)
Cron(faults) ==
  [kind |-> "cron", spec |-> {1, 3}, edits |-> {{1, 3}}, faults |-> faults]
Once(faults) ==
  [kind |-> "once", spec |-> {1}, edits |-> {{1}}, faults |-> faults]

EachKind ==
  {Cron([Quiet EXCEPT !["fail"] = 3]),
   Cron([Quiet EXCEPT !["die"] = 1, !["lose"] = 1, !["slow"] = 1]),
   Cron([Quiet EXCEPT !["toggle"] = 2]),
   Cron([Quiet EXCEPT !["edit"] = 1, !["die"] = 1, !["notice"] = 1]),
   Cron([Quiet EXCEPT !["agent"] = 1, !["limit"] = 1, !["fail"] = 1]),
   Once([Quiet EXCEPT !["fail"] = 3]),
   Once([Quiet EXCEPT !["die"] = 1, !["lose"] = 1]),
   Once([Quiet EXCEPT !["edit"] = 1, !["delete"] = 1]),
   Once([Quiet EXCEPT !["limit"] = 1]),
   Once([Quiet EXCEPT !["agent"] = 1, !["correct"] = 1]),
   [Cron([Quiet EXCEPT !["edit"] = 1]) EXCEPT !.edits = {{2, 4}}]}
=============================================================================
