------------------------------ MODULE Schedules -----------------------------
(***************************************************************************)
(* A schedule of an agent, end to end: its owner's operations              *)
(* (schedules-service.ts, and sync and cancel of the runner), the          *)
(* reconcile that re-arms what was lost, the saga that resumes a held      *)
(* task, and the delivery that settles its event.                          *)
(***************************************************************************)
EXTENDS ScheduleFires

CONSTANTS
  Scenarios,  (* a schedule, what its owner may edit it to, disturbances *)
  Desks       (* the owner's requests that may be under way at once *)

VARIABLES
  edits,    (* the specs an edit may give it *)
  desk,     (* the owner's requests *)
  rec,      (* the reconcile *)
  saga,     (* resume-held-once *)
  notices   (* settled and expired events whose listener has yet to run *)

fireVars == <<fire, agent, limited>>
vars == <<scheduleVars, fireVars, edits, desk, rec, saga, notices>>

ASSUME ScenariosAssumption ==
  \A s \in Scenarios :
    /\ s.kind \in {"cron", "once"} /\ s.faults \in [Disturbances -> Nat]
    /\ {s.spec} \cup s.edits \subseteq (SUBSET Moments) \ {{}}

---------------------------------------------------------------------------
(* The owner *)

NoRequest == [pc |-> "idle", op |-> None, spec |-> {}, enabled |-> TRUE,
              next |-> None]

Desk(o, pc) == desk' = [desk EXCEPT ![o].pc = pc]
DeskDone(o) == desk' = [desk EXCEPT ![o] = NoRequest]

(* A one-time task is edited until it fires, and cannot be paused. *)
OwnerAsks(o, op) ==
  /\ desk[o].pc = "idle" /\ row.there /\ Spend(op)
  /\ \/ /\ op = "edit" /\ ~(row.kind = "once" /\ row.fired)
        /\ \E spec \in edits :
             /\ row.kind = "once" => At(spec) >= now
             /\ desk' = [desk EXCEPT ![o] = [NoRequest EXCEPT !.pc = "spec",
                   !.op = op, !.spec = spec, !.enabled = row.enabled]]
     \/ /\ op = "toggle" /\ row.kind = "cron"
        /\ desk' = [desk EXCEPT ![o] = [NoRequest EXCEPT !.pc = "spec",
                   !.op = op, !.spec = row.spec, !.enabled = ~row.enabled]]
     \/ /\ op = "delete"
        /\ desk' = [desk EXCEPT ![o] = [NoRequest EXCEPT !.pc = "cancel",
                   !.op = op]]
  /\ UNCHANGED <<now, row, jobs, events, fireVars, edits, rec, saga, notices>>

(* updateSpec writes the whole spec, what the request read of it included. *)
SpecWritten(o) ==
  /\ desk[o].pc = "spec"
  /\ Write([row EXCEPT !.spec = desk[o].spec, !.enabled = desk[o].enabled])
  /\ IF ~row.there THEN DeskDone(o)
     ELSE Desk(o, IF desk[o].op = "toggle" /\ ~desk[o].enabled THEN "cancel"
                  ELSE "sync")
  /\ UNCHANGED <<now, jobs, events, left, fireVars, edits, rec, saga, notices>>

SyncReads(o) ==
  /\ desk[o].pc = "sync"
  /\ desk' = [desk EXCEPT
       ![o].pc = IF row.there /\ row.enabled THEN "write" ELSE "cancel",
       ![o].next = Upcoming(row)]
  /\ UNCHANGED <<scheduleVars, fireVars, edits, rec, saga, notices>>

SyncWrites(o) ==
  /\ desk[o].pc = "write"
  /\ Write(WithNext(desk[o].next))
  /\ Desk(o, "remove")
  /\ UNCHANGED <<now, jobs, events, left, fireVars, edits, rec, saga, notices>>

SyncRemoves(o) ==
  /\ desk[o].pc = "remove"
  /\ RemovePending
  /\ IF desk[o].next = None THEN DeskDone(o) ELSE Desk(o, "add")
  /\ UNCHANGED <<now, row, events, left, fireVars, edits, rec, saga, notices>>

SyncAdds(o) ==
  /\ desk[o].pc = "add"
  /\ Add(desk[o].next)
  /\ DeskDone(o)
  /\ UNCHANGED <<now, row, events, left, fireVars, edits, rec, saga, notices>>

Cancels(o) ==
  /\ desk[o].pc = "cancel"
  /\ RemovePending
  /\ Desk(o, "clear")
  /\ UNCHANGED <<now, row, events, left, fireVars, edits, rec, saga, notices>>

CancelWrites(o) ==
  /\ desk[o].pc = "clear"
  /\ Write(WithNext(None))
  /\ IF desk[o].op = "delete" THEN Desk(o, "delete") ELSE DeskDone(o)
  /\ UNCHANGED <<now, jobs, events, left, fireVars, edits, rec, saga, notices>>

Deletes(o) ==
  /\ desk[o].pc = "delete"
  /\ row' = [row EXCEPT !.there = FALSE]
  /\ DeskDone(o)
  /\ UNCHANGED <<now, jobs, events, left, fireVars, edits, rec, saga, notices>>

RequestDies(o) ==
  /\ desk[o].pc # "idle" /\ Spend("die")
  /\ DeskDone(o)
  /\ UNCHANGED <<now, row, jobs, events, fireVars, edits, rec, saga, notices>>

DeskStep(o) ==
  \/ SpecWritten(o) \/ SyncReads(o) \/ SyncWrites(o) \/ SyncRemoves(o)
  \/ SyncAdds(o) \/ Cancels(o) \/ CancelWrites(o) \/ Deletes(o)

---------------------------------------------------------------------------
(* The reconcile (restoreAll), at boot and every few minutes *)

NoReconcile == [pc |-> "idle", next |-> None]

(* What is stored counts, although it may be past. *)
RestoreAt(r) ==
  IF r.kind = "once"
  THEN IF r.nextRun # None /\ r.nextRun > OnceFireAt(r) THEN r.nextRun
       ELSE OnceFireAt(r)
  ELSE IF r.nextRun # None THEN r.nextRun ELSE NextFireAt(r.spec, now)

RecReads ==
  /\ rec.pc = "idle" /\ row.there /\ row.enabled
  /\ \/ /\ row.kind = "once" /\ ~row.fired /\ OnceFireAt(row) = None
        /\ rec' = [NoReconcile EXCEPT !.pc = "missed"]
     \/ /\ row.kind = "once" /\ ~row.fired /\ OnceFireAt(row) # None
        /\ rec' = [pc |-> "write", next |-> RestoreAt(row)]
     \/ /\ row.kind = "cron"
        /\ rec' = [pc |-> IF row.nextRun = None THEN "write" ELSE "ensure",
                   next |-> RestoreAt(row)]
  /\ UNCHANGED <<scheduleVars, fireVars, edits, desk, saga, notices>>

RecMisses ==
  /\ rec.pc = "missed"
  /\ Write(Missed)
  /\ rec' = NoReconcile
  /\ UNCHANGED <<now, jobs, events, left, fireVars, edits, desk, saga, notices>>

RecWrites ==
  /\ rec.pc = "write"
  /\ Write(WithNext(rec.next))
  /\ rec' = IF rec.next = None THEN NoReconcile
            ELSE [rec EXCEPT !.pc = "ensure"]
  /\ UNCHANGED <<now, jobs, events, left, fireVars, edits, desk, saga, notices>>

RecEnsures ==
  /\ rec.pc = "ensure"
  /\ Ensure(rec.next)
  /\ rec' = NoReconcile
  /\ UNCHANGED <<now, row, events, left, fireVars, edits, desk, saga, notices>>

RecStep == RecReads \/ RecMisses \/ RecWrites \/ RecEnsures

---------------------------------------------------------------------------
(* The owner sets or continues a limit, and what waits for it is claimed,  *)
(* for a fire of its own at the time of the claim.                         *)

LimitLifted ==
  /\ limited /\ saga = "idle" /\ jobs[now].st = "none"
  /\ limited' = FALSE
  /\ saga' = "claim"
  /\ UNCHANGED <<scheduleVars, fire, agent, edits, desk, rec, notices>>

Claimable ==
  /\ row.there /\ row.enabled /\ row.kind = "once" /\ ~row.fired
  /\ row.nextRun # None /\ row.nextRun > now /\ At(row.spec) <= now

SagaClaims ==
  /\ saga = "claim"
  /\ row' = IF Claimable THEN WithNext(now) ELSE row
  /\ saga' = IF Claimable THEN "remove" ELSE "idle"
  /\ UNCHANGED <<now, jobs, events, left, fireVars, edits, desk, rec, notices>>

SagaRemoves ==
  /\ saga = "remove"
  /\ RemovePending
  /\ saga' = "add"
  /\ UNCHANGED <<now, row, events, left, fireVars, edits, desk, rec, notices>>

SagaAdds ==
  /\ saga = "add"
  /\ Add(now)
  /\ saga' = "idle"
  /\ UNCHANGED <<now, row, events, left, fireVars, edits, desk, rec, notices>>

SagaFails ==
  /\ saga # "idle" /\ Spend("fail")
  /\ saga' = "idle"
  /\ UNCHANGED <<now, row, jobs, events, fireVars, edits, desk, rec, notices>>

SagaStep == SagaClaims \/ SagaRemoves \/ SagaAdds

---------------------------------------------------------------------------
(* The delivery of the event, as the outbox promises it: it settles on the *)
(* machine or expires, and the listener hears of it afterwards.            *)

Settles(m) ==
  /\ events[m].st = "sent"
  /\ events' = [events EXCEPT ![m].st = "settled"]
  /\ notices' = notices \cup {[at |-> m, as |-> "success"]}
  /\ UNCHANGED <<now, row, jobs, left, fireVars, edits, desk, rec, saga>>

Expires(m) ==
  /\ events[m].st = "sent" /\ events[m].exp # None /\ events[m].exp <= now
  /\ events' = [events EXCEPT ![m].st = "expired"]
  /\ notices' = notices \cup {[at |-> m, as |-> "missed"]}
  /\ UNCHANGED <<now, row, jobs, left, fireVars, edits, desk, rec, saga>>

(* Mutant: only a settled event is recorded. *)
ReplaceBySuccess(r, outcome) ==
  IF r.result = "delivering" /\ outcome = "success"
  THEN [r EXCEPT !.result = "success"] ELSE r

(* replaceResult: only what is still on its way is settled. *)
ReplaceResult(r, outcome) ==
  IF r.result = "delivering" THEN [r EXCEPT !.result = outcome] ELSE r

RecordDelivery(n) ==
  /\ n \in notices
  /\ notices' = notices \ {n}
  /\ IF row.kind = "once" THEN Write(ReplaceResult(row, n.as))
     ELSE UNCHANGED row
  /\ UNCHANGED <<now, jobs, events, left, fireVars, edits, desk, rec, saga>>

(* The listener's failure is logged, and nobody calls it again. *)
NoticeLost(n) ==
  /\ n \in notices /\ Spend("notice")
  /\ notices' = notices \ {n}
  /\ UNCHANGED <<now, row, jobs, events, fireVars, edits, desk, rec, saga>>

(* The turn of a one-time task that ran ends in an error. *)
RecordOnceFailure(m) ==
  /\ row.kind = "once" /\ events[m].st \in {"sent", "settled"}
  /\ Spend("correct")
  /\ Write([row EXCEPT !.result = "failed", !.nextRun = None])
  /\ UNCHANGED <<now, jobs, events, fireVars, edits, desk, rec, saga, notices>>

DeliveryStep ==
  \/ \E m \in Moments : Settles(m) \/ Expires(m)
  \/ \E n \in notices : RecordDelivery(n)

---------------------------------------------------------------------------
(* A request, a round of the reconcile and the saga end before the next    *)
(* moment; a fire or its retries that last into it are a disturbance       *)
(* ("slow").                                                               *)
Firing ==
  \E m \in Moments :
    \/ fire[m].pc # "idle"
    \/ jobs[m].st = "pending" /\ jobs[m].starts > 0 /\ m <= now

Tick ==
  /\ now < Horizon
  /\ \A o \in Desks : desk[o].pc = "idle"
  /\ rec.pc = "idle" /\ saga = "idle"
  /\ now' = now + 1
  /\ IF Firing THEN Spend("slow") ELSE UNCHANGED left
  /\ limited' = (limited /\ now' % Day # 0)
  /\ UNCHANGED <<row, jobs, events, fire, agent, edits, desk, rec, saga,
                 notices>>

(* The request that created the row has yet to arm it. *)
Init ==
  /\ now = 0
  /\ \E s \in Scenarios :
       /\ row = [there |-> TRUE, kind |-> s.kind, enabled |-> TRUE,
                 spec |-> s.spec, nextRun |-> None, result |-> None,
                 fired |-> FALSE]
       /\ edits = s.edits
       /\ left = s.faults
  /\ jobs = [m \in Moments |-> NoJob]
  /\ events = [m \in Moments |-> [st |-> "none", exp |-> None]]
  /\ FireInit
  /\ desk = [[o \in Desks |-> NoRequest] EXCEPT ![CHOOSE o \in Desks : TRUE] =
              [NoRequest EXCEPT !.pc = "sync", !.op = "create"]]
  /\ rec = NoReconcile
  /\ saga = "idle"
  /\ notices = {}

Next ==
  \/ FireNext /\ UNCHANGED <<edits, desk, rec, saga, notices>>
  \/ \E o \in Desks : \/ \E op \in {"edit", "toggle", "delete"} :
                           OwnerAsks(o, op)
                      \/ DeskStep(o) \/ RequestDies(o)
  \/ RecStep
  \/ LimitLifted \/ SagaStep \/ SagaFails
  \/ DeliveryStep
  \/ \E n \in notices : NoticeLost(n)
  \/ \E m \in Moments : RecordOnceFailure(m)
  \/ Tick

Spec == Init /\ [][Next]_vars

(* Workers take jobs and their handlers end, a request runs to its end,    *)
(* the reconcile comes round, an event settles or expires; time goes on    *)
(* whenever it can, between the rounds of the reconcile.                   *)
Fairness ==
  /\ WF_vars(/\ \E m \in Moments : FireStep(m)
             /\ UNCHANGED <<edits, desk, rec, saga, notices>>)
  /\ WF_vars(\E o \in Desks : DeskStep(o))
  /\ WF_vars(RecStep)
  /\ WF_vars(SagaStep \/ DeliveryStep)
  /\ SF_vars(Tick)

FairSpec == Spec /\ Fairness

---------------------------------------------------------------------------
Results == {None, "success", "held", "limit", "failed", "missed", "delivering"}

(* The schedule, its jobs and its events keep their shape; a job is active  *)
(* exactly while its handler runs, and a result is one its kind can have.  *)
TypeOK ==
  /\ now \in Moments
  /\ row \in [there : BOOLEAN, kind : {"cron", "once"}, enabled : BOOLEAN,
              spec : SUBSET Moments, nextRun : Nat \cup {None},
              result : Results, fired : BOOLEAN]
  /\ jobs \in [Moments -> [st : {"none", "pending", "active", "done", "failed"},
                           starts : 0..Attempts, made : 0..Attempts]]
  /\ events \in [Moments -> [st : {"none", "sent", "settled", "expired"},
                             exp : Nat \cup {None}]]
  /\ \A m \in Moments : fire[m].pc # "idle" <=> jobs[m].st = "active"
  /\ row.kind = "cron" => row.result \notin {"missed", "delivering"}
  /\ row.kind = "once" => row.result \notin {"held", "limit"}

(* The fire has read a recurrence that was replaced since, or is of one of *)
(* its moments.                                                            *)
Outdated(k) == fire[k].spec # row.spec \/ k \notin row.spec

(* The occurrence a recurring schedule is armed for is not skipped.  Past  *)
(* one that is due goes the fire of it, with a status for the row, a late  *)
(* fire of an earlier one, which stands for all that came due meanwhile,   *)
(* or a later fire, if its own was tried and could not write its status.   *)
(* Past one that is due or still to come goes the owner, whose sync or     *)
(* cancel arms the schedule anew from now; and, once the recurrence was    *)
(* replaced, a fire of the old one, or the reconcile that found the old    *)
(* one at its end.                                                         *)
NoneSkipped ==
  [][\A m \in Moments :
       /\ row.kind = "cron" /\ row.nextRun = m /\ m \in row.spec
       /\ row'.nextRun = None \/ row'.nextRun > m
       => \/ \E k \in Moments :
               /\ fire'[k] # fire[k]
               /\ \/ Outdated(k)
                  \/ /\ m <= now /\ row'.result # None
                     /\ k > m => jobs[m].starts > 0
          \/ \E o \in Desks : /\ desk[o].pc \in {"write", "clear"}
                              /\ desk'[o] # desk[o]
          \/ rec.pc = "write" /\ rec.next \notin row.spec /\ rec' # rec]_vars

(* A one-time task goes out once. *)
RunsOnce ==
  row.kind = "once" =>
    \A m, n \in Moments : events[m].st # "none" /\ events[n].st # "none"
                            => m = n

(* What the row says of a one-time task is true of its event: it is on its *)
(* way, has reached the machine, or never did.                             *)
OutcomeIsTrue ==
  row.there /\ row.kind = "once" =>
    /\ row.result = "success" => \E m \in Moments : events[m].st = "settled"
    /\ row.result = "missed" => \A m \in Moments : events[m].st # "settled"
    /\ row.result = "delivering" => \E m \in Moments : events[m].st # "none"

Due ==
  /\ row.there /\ row.enabled /\ row.nextRun # None /\ row.nextRun <= now
  /\ jobs[row.nextRun].st # "done" /\ (row.kind = "once" => ~row.fired)

(* The handler of a due occurrence runs to its end, although jobs are lost *)
(* or fail for good, statements fail and workers die.                      *)
DueFires == Due ~> ~Due

Open == row.there /\ row.kind = "once" /\ row.result \in {None, "delivering"}

(* A one-time task comes to an end: delivered, missed or failed. *)
OnceResolves == Open ~> ~Open
=============================================================================
