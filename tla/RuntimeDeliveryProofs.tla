------------------------ MODULE RuntimeDeliveryProofs -----------------------
(***************************************************************************)
(* Type correctness of RuntimeDelivery: one lemma per statement on the     *)
(* rows and the queue, then one step per action.                           *)
(***************************************************************************)
EXTENDS RuntimeDelivery, TLAPS

(* A job whose state, attempts or follower change is still a job. *)
LEMMA JobEdits ==
  ASSUME NEW x \in Jobs, NEW n \in Nat
  PROVE  /\ [x EXCEPT !.st = "active"] \in Jobs
         /\ [x EXCEPT !.next = TRUE] \in Jobs
         /\ [x EXCEPT !.next = FALSE] \in Jobs
         /\ [x EXCEPT !.st = "queued", !.tries = n] \in Jobs
<1>1. [x EXCEPT !.st = "active"] \in Jobs
  BY DEF Jobs
<1>2. [x EXCEPT !.next = TRUE] \in Jobs /\ [x EXCEPT !.next = FALSE] \in Jobs
  BY DEF Jobs
<1>3. [x EXCEPT !.st = "queued", !.tries = n] \in Jobs
  BY DEF Jobs
<1> QED
  BY <1>1, <1>2, <1>3

(* Adding a job keeps the queue's shape (queue.enqueue). *)
LEMMA EnqueueType ==
  ASSUME NEW j \in [Slots -> Jobs], NEW s \in Slots
  PROVE  Enqueue(j, s) \in [Slots -> Jobs]
<1>1. j[s].st \in {"none", "queued", "active"}
  BY DEF Jobs
<1>2. CASE j[s].st = "none"
  BY <1>2 DEF Enqueue, Jobs, FreshJob, NoJob
<1>3. CASE j[s].st = "queued"
  BY <1>3 DEF Enqueue
<1>4. CASE j[s].st = "active"
  BY <1>4 DEF Enqueue, Jobs
<1> QED BY <1>1, <1>2, <1>3, <1>4

(* So does a job that leaves the queue, *)
LEMMA EndJobType ==
  ASSUME NEW j \in [Slots -> Jobs], NEW s \in Slots
  PROVE  EndJob(j, s) \in [Slots -> Jobs]
BY DEF EndJob, Jobs, FreshJob, NoJob

(* and one whose handler threw. *)
LEMMA FailJobType ==
  ASSUME NEW j \in [Slots -> Jobs], NEW s \in Slots
  PROVE  FailJob(j, s) \in [Slots -> Jobs]
<1>1. CASE LastTry(j, s)
  BY <1>1, EndJobType DEF FailJob
<1>2. CASE ~LastTry(j, s)
  <2>1. j[s].tries + 1 \in Nat
    BY DEF Jobs
  <2>2. [j[s] EXCEPT !.st = "queued", !.tries = j[s].tries + 1] \in Jobs
    BY <2>1, JobEdits, Zenon
  <2>3. FailJob(j, s) =
          [j EXCEPT ![s] = [j[s] EXCEPT !.st = "queued", !.tries = j[s].tries + 1]]
    BY <1>2 DEF FailJob
  <2> QED BY <2>2, <2>3
<1> QED BY <1>1, <1>2

(* The types of the outbox row's fields. *)
LEMMA RowFields ==
  ASSUME NEW r \in Rows
  PROVE  /\ r.version \in Nat /\ r.settled \in Nat /\ r.applied \in Nat
         /\ r.hash \in Snapshots \cup {NoSnap}
         /\ r.failures \in SUBSET Kinds
         /\ r.attempts \in Nat
         /\ r.dropped \in SUBSET Kinds
BY Zenon DEF Rows

(* bumpVersion issues the next version and moves no other cursor. *)
LEMMA BumpFacts ==
  ASSUME NEW r \in Rows, NEW b \in BOOLEAN
  PROVE  /\ BumpVersion(r, b) \in Rows
         /\ BumpVersion(r, b).version = r.version + 1
         /\ BumpVersion(r, b).settled = r.settled
         /\ BumpVersion(r, b).applied = r.applied
         /\ BumpVersion(r, b).dropped = r.dropped
<1>1. /\ r.version + 1 \in Nat
      /\ (IF b THEN 0 ELSE r.attempts) \in Nat
      /\ (IF b THEN {} ELSE r.failures) \in SUBSET Kinds
  BY RowFields
<1> QED BY <1>1, RowFields DEF BumpVersion, Rows

(* An event row stamped, reported, expired or deleted is still one. *)
LEMMA EventRowEdits ==
  ASSUME NEW x \in EventRows, NEW why \in {"undeliverable", "superseded"}
  PROVE  /\ [x EXCEPT !.st = "dispatched", !.error = why] \in EventRows
         /\ [x EXCEPT !.error = "reported", !.reported = TRUE] \in EventRows
         /\ [x EXCEPT !.expired = TRUE] \in EventRows
         /\ [x EXCEPT !.st = "deleted"] \in EventRows
<1>1. [x EXCEPT !.st = "dispatched", !.error = why] \in EventRows
  BY Zenon DEF EventRows
<1>2. [x EXCEPT !.error = "reported", !.reported = TRUE] \in EventRows
  BY Zenon DEF EventRows
<1>3. [x EXCEPT !.expired = TRUE] \in EventRows
  BY Zenon DEF EventRows
<1>4. [x EXCEPT !.st = "deleted"] \in EventRows
  BY Zenon DEF EventRows
<1> QED
  BY <1>1, <1>2, <1>3, <1>4

(* Stamping event rows with an error keeps their shape, *)
LEMMA StampType ==
  ASSUME NEW ev \in [Events -> EventRows], NEW S,
         NEW x \in {"undeliverable", "superseded"}
  PROVE  StampWithError(ev, S, x) \in [Events -> EventRows]
<1> DEFINE Stamped(e) ==
      IF e \in S THEN [ev[e] EXCEPT !.st = "dispatched", !.error = x] ELSE ev[e]
<1>1. \A e \in Events : Stamped(e) \in EventRows
  BY EventRowEdits, Zenon
<1>2. StampWithError(ev, S, x) = [e \in Events |-> Stamped(e)]
  BY DEF StampWithError
<1> HIDE DEF Stamped
<1> QED
  BY <1>1, <1>2, ZenonT(60)

(* and so do insertEvent, *)
LEMMA InsertType ==
  ASSUME NEW ev \in [Events -> EventRows], NEW e \in Events, NEW v \in Nat
  PROVE  InsertEvent(ev, e, v) \in [Events -> EventRows]
BY ZenonT(60) DEF InsertEvent, EventRows, NoEventRow

(* claimEventReport, *)
LEMMA ClaimType ==
  ASSUME NEW ev \in [Events -> EventRows], NEW e \in Events
  PROVE  ClaimEventReport(ev, e) \in [Events -> EventRows]
<1>1. [ev[e] EXCEPT !.error = "reported", !.reported = TRUE] \in EventRows
  BY EventRowEdits, Zenon
<1>2. [ev EXCEPT ![e].error = "reported", ![e].reported = TRUE] =
        [ev EXCEPT ![e] = [ev[e] EXCEPT !.error = "reported", !.reported = TRUE]]
  OBVIOUS
<1>3. [ev EXCEPT ![e].error = "reported", ![e].reported = TRUE] \in [Events -> EventRows]
  BY <1>1, <1>2
<1> QED
  BY <1>3, Zenon DEF ClaimEventReport

(* deleteExpiredEvents, *)
LEMMA DeleteType ==
  ASSUME NEW ev \in [Events -> EventRows]
  PROVE  DeleteExpiredEvents(ev) \in [Events -> EventRows]
<1>1. \A e \in Events : [ev[e] EXCEPT !.st = "deleted"] \in EventRows
  BY EventRowEdits, Zenon
<1> QED
  BY <1>1 DEF DeleteExpiredEvents

(* the settling of one event by recordOutcome, *)
LEMMA SettleType ==
  ASSUME NEW x \in EventRows, NEW e \in Events
  PROVE  SettleEvent(x, e) \in EventRows
BY Zenon DEF SettleEvent, EventRows

(* the charging of one attempt by recordOutcome, *)
LEMMA ChargeType ==
  ASSUME NEW x \in EventRows, NEW e \in Events
  PROVE  ChargeEvent(x, e) \in EventRows
<1> DEFINE charged == [x EXCEPT !.attempts = @ + 1]
<1>1. x.attempts + 1 \in Nat
  <2>1. x.attempts \in Nat
    BY Zenon DEF EventRows
  <2> QED BY <2>1
<1>2. charged \in EventRows
  BY <1>1, Zenon DEF EventRows
<1>3. [charged EXCEPT !.st = "dispatched", !.error = "gave up"] \in EventRows
  <2> HIDE DEF charged
  <2> QED BY <1>2, Zenon DEF EventRows
<1> QED BY <1>2, <1>3 DEF ChargeEvent

(* and recordOutcome over all events. *)
LEMMA RecordEventsType ==
  ASSUME NEW ev \in [Events -> EventRows], NEW r, NEW res
  PROVE  RecordEvents(ev, r, res) \in [Events -> EventRows]
BY SettleType, ChargeType DEF RecordEvents

(* stateBuilder.build returns a snapshot, its gap a set of kinds. *)
LEMMA BuildFacts ==
  ASSUME desired \in Snapshots, NEW c
  PROVE  /\ BuildState(c) \in Snapshots
         /\ DroppedKinds(c) \in SUBSET Kinds
BY ContentAssumption DEF BuildState, DroppedKinds, Snapshots

(* What recordOutcome may do to the row: either nothing, or the answered *)
(* version becomes the one sent and the row keeps its shape.             *)
LEMMA RecordRowFacts ==
  ASSUME NEW r \in Rows, NEW v \in Nat, NEW res,
         res.version \in Nat, res.hash \in Snapshots \cup {NoSnap},
         res.failures \in SUBSET Kinds, res.dropped \in SUBSET Kinds
  PROVE  /\ RecordRow(r, v, res) \in Rows
         /\ RecordRow(r, v, res).version = r.version
         /\ \/ RecordRow(r, v, res) = r
            \/ /\ r.settled <= v
               /\ RecordRow(r, v, res).settled = v
               /\ RecordRow(r, v, res).dropped = res.dropped
               /\ \/ RecordRow(r, v, res).applied = r.applied
                  \/ /\ Clean(res)
                     /\ RecordRow(r, v, res).applied = res.version
<1>1. CASE r.version = 0 \/ r.settled > v
  BY <1>1 DEF RecordRow
<1>2. CASE ~(r.version = 0 \/ r.settled > v) /\ Clean(res)
  <2>1. r.settled <= v
    BY <1>2, RowFields
  <2> QED BY <1>2, <2>1, RowFields DEF RecordRow, Rows
<1>3. CASE ~(r.version = 0 \/ r.settled > v) /\ ~Clean(res)
  <2>1. r.settled <= v /\ r.attempts + 1 \in Nat
    BY <1>3, RowFields
  <2> QED BY <1>3, <2>1, RowFields DEF RecordRow, Rows
<1> QED BY <1>1, <1>2, <1>3

(* A disturbance leaves a budget of natural numbers. *)
LEMMA SpendType ==
  ASSUME NEW d \in Disturbances, left \in [Disturbances -> Nat], Spend(d)
  PROVE  left' \in [Disturbances -> Nat]
BY DEF Spend

(* The initial state is well typed. *)
LEMMA InitType == Init => TypeOK
<1> SUFFICES ASSUME Init PROVE TypeOK
  OBVIOUS
<1>1. EmptySnap \in Snapshots
  BY ContentAssumption DEF EmptySnap, Snapshots
<1>2. NoRow \in Rows
  BY DEF NoRow, Rows
<1>3. NoEventRow \in EventRows
  BY DEF NoEventRow, EventRows
<1>4. Idle \in Workers
  BY <1>1 DEF Idle, Workers, NoAnswer, Answers
<1>5. HelloDue \in Hellos /\ NoJob \in Jobs
  BY DEF HelloDue, Hellos, NoJob, Jobs
<1>6. disk \in Snapshots
  BY ContentAssumption DEF Init, ChanInit, Snapshots
<1>7. local \in [version : Nat, hash : Snapshots \cup {NoSnap}]
  BY DEF Init, ChanInit
<1> QED BY <1>1, <1>2, <1>3, <1>4, <1>5, <1>6, <1>7, BudgetAssumption
        DEF Init, ChanInit, TypeOK

(* The types of the fields of a delivery worker, *)
LEMMA WorkerFields ==
  ASSUME NEW w \in Workers
  PROVE  /\ w.phase \in {"idle", "row", "caps", "built", "sent", "answered"}
         /\ w.version \in Nat
         /\ w.caps \in SUBSET (Kinds \cup EventKinds)
         /\ w.snap \in Snapshots
         /\ w.dropped \in SUBSET Kinds
         /\ w.events \in SUBSET Events
         /\ w.answer \in Answers
BY Zenon DEF Workers

(* of an answer, *)
LEMMA AnswerFields ==
  ASSUME NEW a \in Answers
  PROVE  /\ a.version \in Nat
         /\ a.hash \in Snapshots \cup {NoSnap}
         /\ a.failures \in SUBSET Kinds
         /\ a.events \in SUBSET Events
BY Zenon DEF Answers

(* of an applyState request, *)
LEMMA RequestFields ==
  ASSUME NEW r \in Requests
  PROVE  /\ r.slot \in Slots
         /\ r.abandoned \in Nat
         /\ r.version \in Nat
         /\ r.snap \in Snapshots
         /\ r.events \in SUBSET Events
BY Zenon DEF Requests

(* and of the apply in progress. *)
LEMMA ApplyFields ==
  ASSUME NEW a \in Applies
  PROVE  /\ a.req \in Requests
         /\ a.mode \in {"stale", "dispatch", "skip"}
         /\ a.phase \in {"drivers", "events"}
         /\ a.todo \in SUBSET Kinds
         /\ a.failed \in SUBSET Kinds
         /\ a.evtodo \in SUBSET Events
         /\ a.late \in SUBSET Events
         /\ a.running \in Events \cup {NoEvent}
         /\ a.settled \in SUBSET Events
BY Zenon DEF Applies

(* The idle worker is a worker, *)
LEMMA IdleType == Idle \in Workers
<1>1. EmptySnap \in Snapshots
  BY ContentAssumption DEF EmptySnap, Snapshots
<1> QED BY <1>1 DEF Idle, Workers, NoAnswer, Answers

(* so a worker that stops stays one, *)
LEMMA StopsType ==
  ASSUME NEW s \in Slots, worker \in [Slots -> Workers], WorkerStops(s)
  PROVE  worker' \in [Slots -> Workers]
BY IdleType DEF WorkerStops

(* and an attempt that throws keeps workers and queue well typed. *)
LEMMA AttemptFailsType ==
  ASSUME NEW s \in Slots, TypeOK, AttemptFails(s)
  PROVE  /\ worker' \in [Slots -> Workers]
         /\ jobs' \in [Slots -> Jobs]
         /\ bootLost' \in BOOLEAN
<1>1. worker' \in [Slots -> Workers]
  BY StopsType DEF AttemptFails, TypeOK
<1>2. jobs' \in [Slots -> Jobs]
  BY FailJobType DEF AttemptFails, TypeOK
<1>3. bootLost' \in BOOLEAN
  BY DEF AttemptFails, TypeOK
<1> QED BY <1>1, <1>2, <1>3

(* What recording an answer does to the row. *)
LEMMA OutcomeFacts ==
  ASSUME TypeOK, NEW s \in Slots, RecordAnswer(s)
  PROVE  /\ row' \in Rows
         /\ row'.version = row.version
         /\ \/ row' = row
            \/ /\ row.settled <= worker[s].version
               /\ row'.settled = worker[s].version
               /\ row'.dropped = worker[s].dropped
               /\ \/ row'.applied = row.applied
                  \/ /\ worker[s].answer.failures = {}
                     /\ row'.applied = worker[s].answer.version
<1> DEFINE a == worker[s].answer
           res == [version |-> a.version, hash |-> a.hash,
                   failures |-> a.failures, events |-> a.events,
                   attempted |-> AttemptedEvents(worker[s].events, a.events),
                   dropped |-> worker[s].dropped]
<1>1. worker[s] \in Workers /\ row \in Rows
  BY DEF TypeOK
<1>2. a \in Answers /\ worker[s].version \in Nat
      /\ worker[s].dropped \in SUBSET Kinds
  BY <1>1, WorkerFields
<1>3. /\ res.version \in Nat /\ res.hash \in Snapshots \cup {NoSnap}
      /\ res.failures \in SUBSET Kinds /\ res.dropped \in SUBSET Kinds
  BY <1>2, AnswerFields
<1>4. row' = RecordRow(row, worker[s].version, res)
  BY DEF RecordAnswer
<1>5. /\ res.version = a.version /\ res.dropped = worker[s].dropped
      /\ Clean(res) => a.failures = {}
  BY DEF Clean
<1>6. PICK v \in Nat : v = worker[s].version
  BY <1>2
<1> HIDE DEF res, a
<1>7. /\ RecordRow(row, v, res) \in Rows
      /\ RecordRow(row, v, res).version = row.version
      /\ \/ RecordRow(row, v, res) = row
         \/ /\ row.settled <= v
            /\ RecordRow(row, v, res).settled = v
            /\ RecordRow(row, v, res).dropped = res.dropped
            /\ \/ RecordRow(row, v, res).applied = row.applied
               \/ /\ Clean(res)
                  /\ RecordRow(row, v, res).applied = res.version
  BY <1>1, <1>3, RecordRowFacts
<1>8. row' = RecordRow(row, v, res)
  BY <1>4, <1>6
<1> QED BY <1>5, <1>6, <1>7, <1>8 DEF a

(* The typing of every variable is preserved by every step. *)
LEMMA TypeStep == TypeOK /\ [Next]_vars => TypeOK'
<1> SUFFICES ASSUME TypeOK, [Next]_vars PROVE TypeOK'
  OBVIOUS
<1> USE DEF vars, srvVars, chanVars
<1>0. "plain" \in Slots /\ "boot" \in Slots
  BY DEF Slots
<1>1. ASSUME NEW k \in Kinds, NEW v \in Values, EditContributions(k, v)
      PROVE  TypeOK'
  <2>1. row' \in Rows
    BY <1>1, BumpFacts DEF EditContributions, TypeOK
  <2>2. jobs' \in [Slots -> Jobs]
    BY <1>0, <1>1, EnqueueType DEF EditContributions, TypeOK
  <2>3. left' \in [Disturbances -> Nat]
    BY <1>1, SpendType DEF EditContributions, TypeOK, Disturbances
  <2>4. desired' \in Snapshots
    BY <1>1 DEF EditContributions, TypeOK, Snapshots
  <2> QED BY <1>1, <2>1, <2>2, <2>3, <2>4 DEF EditContributions, TypeOK
<1>2. ASSUME NEW k \in Kinds, NEW v \in Values, EditWithoutBump(k, v)
      PROVE  TypeOK'
  <2>1. left' \in [Disturbances -> Nat]
    BY <1>2, SpendType DEF EditWithoutBump, TypeOK, Disturbances
  <2>2. desired' \in Snapshots
    BY <1>2 DEF EditWithoutBump, TypeOK, Snapshots
  <2> QED BY <1>2, <2>1, <2>2 DEF EditWithoutBump, TypeOK
<1>3. CASE LateBump
  <2>1. row' \in Rows
    BY <1>3, BumpFacts DEF LateBump, TypeOK
  <2>2. jobs' \in [Slots -> Jobs]
    BY <1>0, <1>3, EnqueueType DEF LateBump, TypeOK
  <2> QED BY <1>3, <2>1, <2>2 DEF LateBump, TypeOK
<1>4. ASSUME NEW e \in Events, PostEvent(e)
      PROVE  TypeOK'
  <2>0. row \in Rows
    BY DEF TypeOK
  <2>1. row' \in Rows /\ row.version + 1 \in Nat
    BY <1>4, <2>0, BumpFacts, RowFields DEF PostEvent
  <2>2. jobs' \in [Slots -> Jobs]
    BY <1>0, <1>4, EnqueueType DEF PostEvent, TypeOK
  <2>3. SupersedePending(evts, "session-defaults") \in [Events -> EventRows]
    BY StampType DEF SupersedePending, TypeOK
  <2>4. evts' \in [Events -> EventRows]
    BY <1>4, <2>1, <2>3, InsertType DEF PostEvent, TypeOK
  <2> QED BY <1>4, <2>1, <2>2, <2>4 DEF PostEvent, TypeOK
<1>5. ASSUME NEW e \in Events, EventExpires(e)
      PROVE  TypeOK'
  <2>1. left' \in [Disturbances -> Nat]
    BY <1>5, SpendType DEF EventExpires, TypeOK, Disturbances
  <2>2. evts' \in [Events -> EventRows]
    <3>1. evts \in [Events -> EventRows] /\ evts' = [evts EXCEPT ![e].expired = TRUE]
      BY <1>5 DEF EventExpires, TypeOK
    <3>2. [evts[e] EXCEPT !.expired = TRUE] \in EventRows
      BY <3>1, EventRowEdits, Zenon
    <3> QED BY <3>1, <3>2
  <2> QED BY <1>5, <2>1, <2>2 DEF EventExpires, TypeOK
<1>6. ASSUME NEW s \in Slots, TakeJob(s)
      PROVE  TypeOK'
  <2>1. jobs' \in [Slots -> Jobs]
    <3>1. [jobs EXCEPT ![s].st = "active"] \in [Slots -> Jobs]
      BY DEF TypeOK, Jobs
    <3>2. EndJob(jobs, s) \in [Slots -> Jobs]
      BY EndJobType DEF TypeOK
    <3>3. \/ jobs' = EndJob(jobs, s)
          \/ jobs' = [jobs EXCEPT ![s].st = "active"]
      BY <1>6 DEF TakeJob
    <3> QED BY <3>1, <3>2, <3>3
  <2>2. worker' \in [Slots -> Workers]
    <3>1. worker[s] \in Workers /\ row.version \in Nat
      BY RowFields DEF TypeOK
    <3>2. [worker[s] EXCEPT !.phase = "row", !.version = row.version]
            \in Workers
      BY <3>1 DEF Workers
    <3> QED BY <1>6, <3>2 DEF TakeJob, TypeOK
  <2> QED BY <1>6, <2>1, <2>2 DEF TakeJob, TypeOK
<1>7. ASSUME NEW s \in Slots, DeferToReady(s)
      PROVE  TypeOK'
  <2>1. /\ worker' \in [Slots -> Workers]
        /\ jobs' \in [Slots -> Jobs]
        /\ bootLost' \in BOOLEAN
    BY <1>7, AttemptFailsType, StopsType, EndJobType DEF DeferToReady, TypeOK
  <2> QED BY <1>7, <2>1 DEF DeferToReady, TypeOK
<1>8. ASSUME NEW s \in Slots, DeferToHello(s)
      PROVE  TypeOK'
  <2>1. worker' \in [Slots -> Workers] /\ jobs' \in [Slots -> Jobs]
    BY <1>8, StopsType, EndJobType DEF DeferToHello, TypeOK
  <2> QED BY <1>8, <2>1 DEF DeferToHello, TypeOK
<1>9. ASSUME NEW s \in Slots, BuildPayload(s)
      PROVE  TypeOK'
  <2> DEFINE c == worker[s].caps
             w == [worker[s] EXCEPT !.phase = "built", !.caps = {},
                     !.snap = BuildState(c), !.dropped = DroppedKinds(c),
                     !.events = DeliverableEvents(c)]
  <2>1. evts' \in [Events -> EventRows]
    BY <1>9, StampType DEF BuildPayload, MarkEventsUndeliverable, TypeOK
  <2>2. DeliverableEvents(c) \in SUBSET Events
    BY DEF DeliverableEvents, PendingEvents, Undispatched
  <2>3. BuildState(c) \in Snapshots /\ DroppedKinds(c) \in SUBSET Kinds
    BY BuildFacts DEF TypeOK
  <2>4. worker[s] \in Workers
    BY DEF TypeOK
  <2>5. worker' = [worker EXCEPT ![s] = w]
    BY <1>9 DEF BuildPayload
  <2>6. w \in Workers
    <3> HIDE DEF c
    <3> QED BY <2>2, <2>3, <2>4 DEF Workers
  <2>7. worker' \in [Slots -> Workers]
    <3> HIDE DEF w
    <3> QED BY <2>5, <2>6 DEF TypeOK
  <2> HIDE DEF w, c
  <2>8. UNCHANGED <<row, desired, unbumped, caps, jobs, ready, hello, bootLost,
                    left, chanVars>>
    BY <1>9 DEF BuildPayload
  <2> QED BY <2>1, <2>7, <2>8 DEF TypeOK
<1>34. ASSUME NEW s \in Slots, ReadCaps(s)
       PROVE  TypeOK'
  <2>1. worker[s] \in Workers /\ caps \in SUBSET (Kinds \cup EventKinds)
    BY <1>34, CapAssumption DEF ReadCaps, TypeOK
  <2>2. [worker[s] EXCEPT !.phase = "caps", !.caps = caps] \in Workers
    BY <2>1 DEF Workers
  <2>3. worker' \in [Slots -> Workers]
    BY <1>34, <2>2 DEF ReadCaps, TypeOK
  <2> QED BY <1>34, <2>3 DEF ReadCaps, TypeOK
<1>10. ASSUME NEW s \in Slots, SendApply(s)
       PROVE  TypeOK'
  <2>1. worker' \in [Slots -> Workers]
    <3>1. worker \in [Slots -> Workers] /\ worker' = [worker EXCEPT ![s].phase = "sent"]
      BY <1>10 DEF SendApply, TypeOK
    <3>2. [worker[s] EXCEPT !.phase = "sent"] \in Workers
      BY <3>1 DEF Workers
    <3> QED BY <3>1, <3>2
  <2>2. RequestOf(s) \in Requests
    <3>1. worker[s] \in Workers
      BY DEF TypeOK
    <3> QED BY <3>1, WorkerFields DEF RequestOf, Requests
  <2>3. net' \subseteq Requests
    BY <1>10, <2>2 DEF SendApply, TypeOK
  <2> QED BY <1>10, <2>1, <2>3 DEF SendApply, TypeOK
<1>11. ASSUME NEW s \in Slots, SendFails(s)
       PROVE  TypeOK'
  <2>1. /\ worker' \in [Slots -> Workers]
        /\ jobs' \in [Slots -> Jobs]
        /\ bootLost' \in BOOLEAN
    BY <1>11, AttemptFailsType, SMTT(60) DEF SendFails
  <2> QED BY <1>11, <2>1 DEF SendFails, TypeOK
<1>12. ASSUME NEW s \in Slots, RecordOutcome(s) \/ RecordThenFails(s)
       PROVE  TypeOK'
  <2>0. RecordAnswer(s)
    BY <1>12 DEF RecordOutcome, RecordThenFails
  <2>1. worker' \in [Slots -> Workers]
    BY <2>0, StopsType DEF RecordAnswer, TypeOK
  <2>2. evts' \in [Events -> EventRows]
    BY <2>0, RecordEventsType DEF RecordAnswer, TypeOK
  <2>3. row' \in Rows
    BY <2>0, OutcomeFacts
  <2>4. jobs' \in [Slots -> Jobs]
    BY <1>12, EndJobType, FailJobType DEF RecordOutcome, RecordThenFails, TypeOK
  <2>5. left' \in [Disturbances -> Nat]
    BY <1>12, SpendType DEF RecordOutcome, RecordThenFails, TypeOK, Disturbances
  <2> QED BY <2>0, <2>1, <2>2, <2>3, <2>4, <2>5 DEF RecordAnswer, TypeOK
<1>13. ASSUME NEW s \in Slots, LoseAttempt(s)
       PROVE  TypeOK'
  <2>1. left' \in [Disturbances -> Nat] /\ left["lose"] \in Nat
    BY <1>13, SpendType DEF LoseAttempt, TypeOK, Disturbances
  <2>2. ASSUME NEW r \in Requests PROVE Abandon(r) \in Requests
    BY <2>1 DEF Abandon, Requests
  <2>3. net' \subseteq Requests
    BY <1>13, <2>2 DEF LoseAttempt, TypeOK
  <2>4. cur' \in Applies \cup {NoApply}
    BY <1>13, <2>2, ApplyFields DEF LoseAttempt, TypeOK, Applies
  <2>5. /\ worker' \in [Slots -> Workers]
        /\ jobs' \in [Slots -> Jobs]
        /\ bootLost' \in BOOLEAN
    BY <1>13, AttemptFailsType DEF LoseAttempt
  <2> QED BY <1>13, <2>1, <2>3, <2>4, <2>5 DEF LoseAttempt, TypeOK
<1>14. ASSUME NEW s \in Slots, LoseJob(s)
       PROVE  TypeOK'
  <2>1. left' \in [Disturbances -> Nat]
    BY <1>14, SpendType DEF LoseJob, TypeOK, Disturbances
  <2>2. jobs' \in [Slots -> Jobs]
    <3>1. [jobs EXCEPT ![s] = NoJob] \in [Slots -> Jobs]
      BY DEF TypeOK, Jobs, NoJob
    <3>2. [jobs EXCEPT ![s].next = FALSE] \in [Slots -> Jobs]
      <4>1. jobs \in [Slots -> Jobs]
        BY DEF TypeOK
      <4>2. [jobs[s] EXCEPT !.next = FALSE] \in Jobs
        BY <4>1, JobEdits, Zenon
      <4> QED BY <4>1, <4>2
    <3> QED BY <1>14, <3>1, <3>2 DEF LoseJob
  <2> QED BY <1>14, <2>1, <2>2 DEF LoseJob, TypeOK
<1>15. ASSUME NEW seen, Sweep(seen)
       PROVE  TypeOK'
  <2>1. jobs' \in [Slots -> Jobs]
    BY <1>0, <1>15, EnqueueType DEF Sweep, TypeOK
  <2>2. evts' \in [Events -> EventRows]
    BY <1>15, DeleteType DEF Sweep, TypeOK
  <2> QED BY <1>15, <2>1, <2>2 DEF Sweep, TypeOK
<1>16. CASE BecomeReady
  <2>1. jobs' \in [Slots -> Jobs]
    BY <1>0, <1>16, EnqueueType DEF BecomeReady, TypeOK
  <2> QED BY <1>16, <2>1 DEF BecomeReady, TypeOK
<1>17. CASE GatewayRolls
  <2>1. left' \in [Disturbances -> Nat]
    BY <1>17, SpendType DEF GatewayRolls, TypeOK, Disturbances
  <2> QED BY <1>17, <2>1 DEF GatewayRolls, TypeOK
<1>18. CASE HelloSend
  <2>1. hello' \in Hellos
    BY <1>18 DEF HelloSend, TypeOK, Hellos
  <2> QED BY <1>18, <2>1 DEF HelloSend, TypeOK
<1>19. CASE HelloUpsert
  <2>1. row' \in Rows /\ row.version + 1 \in Nat
    <3>1. row \in Rows
      BY DEF TypeOK
    <3>2. row' = BumpVersion(row, TRUE) \/ row' = row
      BY <1>19 DEF HelloUpsert
    <3> QED BY <3>1, <3>2, BumpFacts, RowFields
  <2>2. hello' \in Hellos
    <3>1. hello \in Hellos
      BY DEF TypeOK
    <3>2. /\ [hello EXCEPT !.phase = "upserted", !.bumped = row.version + 1] \in Hellos
          /\ [hello EXCEPT !.phase = "upserted"] \in Hellos
      BY <2>1, <3>1 DEF Hellos
    <3> QED BY <1>19, <3>2 DEF HelloUpsert
  <2>3. unbumped' \in BOOLEAN /\ caps' \in CapSets \cup {NoCaps}
    BY <1>19 DEF HelloUpsert, TypeOK
  <2> QED BY <1>19, <2>1, <2>2, <2>3 DEF HelloUpsert, TypeOK
<1>20. CASE HelloCheck
  <2>1. row' \in Rows
    BY <1>20, BumpFacts DEF HelloCheck, TypeOK
  <2>2. hello' \in Hellos
    BY <1>20 DEF HelloCheck, HelloDue, Hellos
  <2>3. unbumped' \in BOOLEAN
    BY <1>20 DEF HelloCheck, TypeOK
  <2>4. jobs' \in [Slots -> Jobs]
    BY <1>0, <1>20, EnqueueType DEF HelloCheck, TypeOK
  <2> QED BY <1>20, <2>1, <2>2, <2>3, <2>4 DEF HelloCheck, TypeOK
<1>21. CASE HelloFails
  <2>1. left' \in [Disturbances -> Nat]
    BY <1>21, SpendType DEF HelloFails, TypeOK, Disturbances
  <2>2. hello' \in Hellos
    BY <1>21 DEF HelloFails, HelloDue, Hellos
  <2> QED BY <1>21, <2>1, <2>2 DEF HelloFails, TypeOK
<1>22. ASSUME NEW r \in net, Receive(r)
       PROVE  TypeOK'
  <2>1. r \in Requests
    BY DEF TypeOK
  <2>2. Late(r.events) \in SUBSET Events
    BY <2>1, RequestFields DEF Late
  <2>3. cur' \in Applies
    BY <1>22, <2>1, <2>2, RequestFields DEF Receive, ReceiveApply, Applies
  <2> QED BY <1>22, <2>3 DEF Receive, ReceiveApply, TypeOK
<1>23. ASSUME NEW k \in Kinds, DriverOk(k)
       PROVE  TypeOK'
  <2>1. cur \in Applies
    BY <1>23 DEF DriverOk, RunDriver, TypeOK
  <2>2. disk' \in Snapshots
    BY <1>23, <2>1, ApplyFields, RequestFields
       DEF DriverOk, RunDriver, TypeOK, Snapshots
  <2>3. cur' \in Applies
    BY <1>23, <2>1, ApplyFields DEF DriverOk, RunDriver, Applies
  <2> QED BY <1>23, <2>2, <2>3 DEF DriverOk, RunDriver, TypeOK
<1>24. ASSUME NEW k \in Kinds, DriverThrows(k)
       PROVE  TypeOK'
  <2>1. cur \in Applies
    BY <1>24 DEF DriverThrows, DriverFails, TypeOK
  <2>2. disk' \in Snapshots
    BY <1>24, <2>1, ApplyFields, RequestFields
       DEF DriverThrows, DriverFails, TypeOK, Snapshots
  <2>3. cur' \in Applies
    BY <1>24, <2>1, ApplyFields DEF DriverThrows, DriverFails, Applies
  <2>4. left' \in [Disturbances -> Nat]
    BY <1>24, SpendType DEF DriverThrows, TypeOK, Disturbances
  <2> QED BY <1>24, <2>2, <2>3, <2>4 DEF DriverThrows, DriverFails, TypeOK
<1>25. CASE StartEvents
  <2>1. cur \in Applies
    BY <1>25 DEF StartEvents, BeginEvents, TypeOK
  <2>2. Late(cur.req.events) \in SUBSET Events
    BY <2>1, ApplyFields, RequestFields DEF Late
  <2>3. cur' \in Applies
    BY <1>25, <2>1, <2>2 DEF StartEvents, BeginEvents, Applies
  <2> QED BY <1>25, <2>3 DEF StartEvents, BeginEvents, TypeOK
<1>26. ASSUME NEW e \in Events, EventSkipped(e)
       PROVE  TypeOK'
  <2>1. cur \in Applies
    BY <1>26 DEF EventSkipped, SkipEvent, AtEvent, TypeOK
  <2>2. SettleHere(e) \in Applies
    BY <2>1, ApplyFields DEF SettleHere, Applies
  <2> QED BY <1>26, <2>2 DEF EventSkipped, SkipEvent, TypeOK
<1>27. ASSUME NEW e \in Events, EventInvoked(e)
       PROVE  TypeOK'
  <2>1. cur \in Applies
    BY <1>27 DEF EventInvoked, InvokeEvent, AtEvent, TypeOK
  <2>2. cur' \in Applies
    BY <1>27, <2>1 DEF EventInvoked, InvokeEvent, Applies
  <2>3. effects' \in [Events -> Nat]
    BY <1>27 DEF EventInvoked, InvokeEvent, TypeOK
  <2> QED BY <1>27, <2>2, <2>3 DEF EventInvoked, InvokeEvent, TypeOK
<1>28. ASSUME NEW e \in Events, EventRecorded(e)
       PROVE  TypeOK'
  <2>1. cur \in Applies
    BY <1>28 DEF EventRecorded, RecordEvent, TypeOK
  <2>2. SettleHere(e) \in Applies
    BY <2>1, ApplyFields DEF SettleHere, Applies
  <2>3. runs' \in [Keys -> Nat]
    BY <1>28, EventAssumption DEF EventRecorded, RecordEvent, TypeOK, Keys
  <2> QED BY <1>28, <2>2, <2>3 DEF EventRecorded, RecordEvent, TypeOK
<1>29. ASSUME NEW e \in Events, NEW reported, EventThrows(e, reported)
       PROVE  TypeOK'
  <2>1. cur \in Applies
    BY <1>29 DEF EventThrows, FailEvent, AtEvent, TypeOK
  <2>2. cur' \in Applies
    BY <1>29, <2>1, ApplyFields DEF EventThrows, FailEvent, Applies
  <2>3. evts' \in [Events -> EventRows]
    BY <1>29, ClaimType DEF EventThrows, TypeOK
  <2>4. left' \in [Disturbances -> Nat]
    BY <1>29, SpendType DEF EventThrows, TypeOK, Disturbances
  <2> QED BY <1>29, <2>2, <2>3, <2>4 DEF EventThrows, FailEvent, TypeOK
<1>36. ASSUME NEW e \in Events, NEW reported, RecordThrows(e, reported)
       PROVE  TypeOK'
  <2>1. cur \in Applies
    BY <1>36 DEF RecordThrows, FailRecord, TypeOK
  <2>2. cur' \in Applies
    <3>1. PICK S \in SUBSET Events : cur' = [cur EXCEPT !.running = NoEvent, !.evtodo = S]
      BY <1>36, <2>1, ApplyFields, Zenon DEF RecordThrows, FailRecord
    <3> QED BY <2>1, <3>1 DEF Applies
  <2>3. evts' \in [Events -> EventRows]
    BY <1>36, ClaimType DEF RecordThrows, TypeOK
  <2>4. left' \in [Disturbances -> Nat]
    BY <1>36, SpendType DEF RecordThrows, TypeOK, Disturbances
  <2>5. lostRuns' \in [Events -> Nat]
    BY <1>36 DEF RecordThrows, FailRecord, TypeOK
  <2> QED BY <1>36, <2>2, <2>3, <2>4, <2>5 DEF RecordThrows, FailRecord, TypeOK
<1>30. CASE Finish
  <2>1. cur \in Applies
    BY <1>30 DEF Finish, FinishApply, ReadyToAnswer, TypeOK
  <2>2. Answer \in Answers
    BY <2>1, ApplyFields, RequestFields DEF Answer, Answers, TypeOK
  <2>3. worker' \in [Slots -> Workers]
    <3>1. cur.req.slot \in Slots
      BY <2>1, ApplyFields, RequestFields
    <3>2. worker[cur.req.slot] \in Workers
      BY <3>1 DEF TypeOK
    <3>3. [worker[cur.req.slot] EXCEPT !.phase = "answered",
                                       !.answer = Answer] \in Workers
      BY <2>2, <3>2 DEF Workers
    <3> QED BY <1>30, <3>1, <3>3 DEF Finish, TypeOK
  <2>4. local' \in [version : Nat, hash : Snapshots \cup {NoSnap}]
    BY <1>30, <2>1, ApplyFields, RequestFields DEF Finish, FinishApply, TypeOK
  <2> QED BY <1>30, <2>3, <2>4 DEF Finish, FinishApply, TypeOK
<1>35. CASE ApplyRejects
  <2>1. cur \in Applies /\ cur.req.slot \in Slots
    BY <1>35, ApplyFields, RequestFields
       DEF ApplyRejects, AbortApply, TypeOK
  <2>2. /\ worker' \in [Slots -> Workers]
        /\ jobs' \in [Slots -> Jobs]
        /\ bootLost' \in BOOLEAN
    BY <1>35, <2>1, AttemptFailsType DEF ApplyRejects, TypeOK
  <2>3. left' \in [Disturbances -> Nat]
    BY <1>35, SpendType DEF ApplyRejects, TypeOK, Disturbances
  <2> QED BY <1>35, <2>2, <2>3 DEF ApplyRejects, AbortApply, TypeOK
<1>31. CASE Stop
  <2>1. worker' \in [Slots -> Workers]
    BY <1>31, IdleType DEF Stop, TypeOK
  <2>2. jobs' \in [Slots -> Jobs]
    BY <1>31, FailJobType DEF Stop, TypeOK
  <2>3. left' \in [Disturbances -> Nat]
    BY <1>31, SpendType DEF Stop, TypeOK, Disturbances
  <2>4. hello' \in Hellos
    BY <1>31 DEF Stop, HelloDue, Hellos
  <2>5. lostRuns' \in [Events -> Nat]
    BY <1>31 DEF Stop, StopMachine, TypeOK
  <2>6. bootLost' \in BOOLEAN /\ ready' \in BOOLEAN
    BY <1>31 DEF Stop, TypeOK
  <2> QED BY <1>31, <2>1, <2>2, <2>3, <2>4, <2>5, <2>6
          DEF Stop, StopMachine, TypeOK
<1>32. ASSUME NEW b \in CapSets, NEW m, Boot(b, m)
       PROVE  TypeOK'
  <2>1. local' \in [version : Nat, hash : Snapshots \cup {NoSnap}]
    BY <1>32 DEF Boot, BootMachine, TypeOK
  <2>2. disk' \in Snapshots
    BY <1>32, ContentAssumption DEF Boot, BootMachine, TypeOK, Snapshots
  <2> QED BY <1>32, <2>1, <2>2 DEF Boot, BootMachine, TypeOK
<1>33. CASE UNCHANGED vars
  BY <1>33 DEF TypeOK
<1> QED
  BY <1>1, <1>2, <1>3, <1>4, <1>5, <1>6, <1>7, <1>8, <1>9, <1>10, <1>11,
     <1>12, <1>13, <1>14, <1>15, <1>16, <1>17, <1>18, <1>19, <1>20, <1>21,
     <1>22, <1>23, <1>24, <1>25, <1>26, <1>27, <1>28, <1>29, <1>30, <1>31,
     <1>32, <1>33, <1>34, <1>35, <1>36
  DEF Next, DomainNext, WorkerStep, HelloStep, AgentStep, FaultNext

(* Every variable keeps its type in every behaviour of the specification. *)
THEOREM TypeCorrect == Spec => []TypeOK
<1>1. Init => TypeOK
  BY InitType
<1>2. TypeOK /\ [Next]_vars => TypeOK'
  BY TypeStep
<1> QED BY <1>1, <1>2, PTL DEF Spec
=============================================================================
