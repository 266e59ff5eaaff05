---------------------------- MODULE ScheduleQueue ---------------------------
(***************************************************************************)
(* What the schedules of the api-server are made of: the row in Postgres,  *)
(* the queue of delayed jobs that arms it (schedule-queue.ts), and when a  *)
(* schedule is next due (once.ts, recurrences.ts).                         *)
(*                                                                         *)
(* There is one schedule, recurring or one-time, as no operation touches   *)
(* two.  Its spec is the set of its moments: the occurrences of a          *)
(* recurrence, the one moment of a one-time task.                          *)
(***************************************************************************)
EXTENDS Naturals, FiniteSetsExt

CONSTANTS
  None,
  Horizon,   (* the last moment *)
  Window,    (* how long after its moment a one-time task may be delivered *)
  Day,       (* a spend limit starts again at the multiples of Day *)
  Attempts   (* how often a job is tried: 3 *)

ASSUME ScheduleAssumption ==
  /\ Horizon \in Nat /\ Window \in Nat \ {0} /\ Day \in Nat \ {0}
  /\ Attempts \in Nat \ {0} /\ None \notin Nat
  /\ None \notin {"success", "held", "limit", "failed", "missed", "delivering"}

VARIABLES
  now,
  row,      (* the schedule *)
  jobs,     (* the queue's jobs, by the moment they fire at *)
  events,   (* the trigger events in the outbox, by the moment of their fire *)
  left      (* disturbances still to come *)

Moments == 0..Horizon

Disturbances == {"fail", "die", "lose", "slow", "toggle", "edit", "delete",
                 "agent", "limit", "correct", "notice"}

Spend(d) == left[d] > 0 /\ left' = [left EXCEPT ![d] = @ - 1]

---------------------------------------------------------------------------
(* When a schedule is due *)

NextFireAt(spec, t) ==
  LET later == {m \in spec : m > t} IN IF later = {} THEN None ELSE Min(later)

At(spec) == Min(spec)
OnceExpiry(spec) == At(spec) + Window

OnceFireAt(r) ==
  IF ~r.fired /\ now < OnceExpiry(r.spec) THEN At(r.spec) ELSE None

Upcoming(r) ==
  IF r.kind = "once" THEN OnceFireAt(r) ELSE NextFireAt(r.spec, now)

NextMidnight(t) == Day * (t \div Day + 1)

---------------------------------------------------------------------------
(* The row *)

Write(r) == row' = IF row.there THEN r ELSE row

WithNext(next) == [row EXCEPT !.nextRun = next]

Missed == [row EXCEPT !.fired = TRUE, !.result = "missed", !.nextRun = None]

---------------------------------------------------------------------------
(* The queue.  A job that is done or has failed stays on record for a      *)
(* while, and an add under its id does nothing.                            *)

NoJob == [st |-> "none", starts |-> 0, made |-> 0]

RemovePending ==
  jobs' = [m \in Moments |-> IF jobs[m].st = "pending" THEN NoJob ELSE jobs[m]]

Add(m) ==
  jobs' = IF jobs[m].st = "none" THEN [jobs EXCEPT ![m].st = "pending"]
          ELSE jobs

(* Mutant: a job that failed for good is left as it is. *)
EnsureAbsent(m) == Add(m)

Ensure(m) ==
  jobs' = IF jobs[m].st \in {"none", "failed"}
          THEN [jobs EXCEPT ![m].st = "pending"] ELSE jobs

Live(m) == jobs[m].st \in {"pending", "active"}

LastAttempt(m) == jobs[m].starts >= Attempts

Started(job) ==
  [job EXCEPT !.st = "active",
              !.starts = IF @ < Attempts THEN @ + 1 ELSE Attempts]

(* The handler returned, threw, or died with its worker: the queue takes   *)
(* it for stalled and starts it again, which counts as a start and not as  *)
(* an attempt made.                                                        *)
Ended(job, how) ==
  CASE how = "done" -> [job EXCEPT !.st = "done"]
    [] how = "stall" -> [job EXCEPT !.st = "pending"]
    [] how = "throw" ->
         IF job.made + 1 >= Attempts
         THEN [job EXCEPT !.st = "failed", !.made = Attempts]
         ELSE [job EXCEPT !.st = "pending", !.made = @ + 1]

JobLost(m) ==
  /\ jobs[m].st \in {"pending", "done", "failed"} /\ Spend("lose")
  /\ jobs' = [jobs EXCEPT ![m] = NoJob]
  /\ UNCHANGED <<now, row, events>>
=============================================================================
