------------------------ MODULE RuntimeDeliverySafety -----------------------
(***************************************************************************)
(* The safety of the delivery cursors, proved for every set of kinds,      *)
(* values, events and capabilities and for every budget of disturbances:   *)
(* the cursors are ordered and move forward, what an agent reports as      *)
(* applied is on its disk, and the recorded capability gap is current.     *)
(* None of these is inductive alone.  The inductive invariant Safe says    *)
(* who waits for which request (Linked), what the answer to it may claim   *)
(* (AnswersHonest), how far the apply in progress has come (ApplyShape),   *)
(* and that a payload carrying the desired version also carries the        *)
(* desired contents (PayloadsCurrent).                                     *)
(***************************************************************************)
EXTENDS RuntimeDeliveryProofs

Built(s) == worker[s].phase \in {"built", "sent", "answered"}

(* A request whose sender still waits is the one its worker has sent, and *)
(* it is in one place only.                                               *)
Linked ==
  /\ \A r \in net : r.abandoned = 0 =>
       worker[r.slot].phase = "sent" /\ r = RequestOf(r.slot)
  /\ cur # NoApply /\ cur.req.abandoned = 0 =>
       /\ worker[cur.req.slot].phase = "sent"
       /\ cur.req = RequestOf(cur.req.slot)
       /\ cur.req \notin net

(* Versions start at 1, and whatever is under way carries one. *)
VersionsIssued ==
  /\ \A s \in Slots : worker[s].phase # "idle" => worker[s].version > 0
  /\ \A r \in net : r.version > 0
  /\ cur # NoApply => cur.req.version > 0
  /\ local.version = 0 => local.hash = NoSnap

(* An answer without failures is for the version that was sent. *)
AnswersHonest ==
  \A s \in Slots :
    worker[s].phase = "answered" /\ worker[s].answer.failures = {}
      => worker[s].answer.version = worker[s].version

(* A stopped machine holds no request. *)
StoppedIsEmpty == ~up => net = {} /\ cur = NoApply

(* How far the apply in progress has come. *)
ApplyShape ==
  cur # NoApply =>
    /\ cur.mode # "dispatch" => cur.todo = {} /\ cur.failed = {}
    /\ cur.phase = "events" => cur.todo = {}
    /\ cur.mode # "stale" => cur.req.version >= local.version
    /\ cur.mode = "skip" => cur.req.snap = local.hash
    /\ cur.mode = "dispatch" =>
         /\ torn
         /\ \A k \in (bound \cap Kinds) \ (cur.todo \cup cur.failed) :
              disk[k] = cur.req.snap[k]

(* Unless the last dispatch was torn, the recorded hash describes the disk.*)
DiskTruth ==
  ~torn /\ local.hash # NoSnap =>
    \A k \in bound \cap Kinds : disk[k] = local.hash[k]

WantedState == BuildState(Advertised(caps))
WantedDrops == DroppedKinds(Advertised(caps))

(* What carries the desired version carries the desired contents. *)
PayloadsCurrent ==
  ~unbumped =>
    /\ \A s \in Slots : worker[s].version = row.version =>
         /\ worker[s].phase = "caps" => worker[s].caps = Advertised(caps)
         /\ Built(s) => /\ worker[s].snap = WantedState
                        /\ worker[s].dropped = WantedDrops
    /\ \A r \in net : r.version = row.version => r.snap = WantedState
    /\ cur # NoApply /\ cur.req.version = row.version
         => cur.req.snap = WantedState
    /\ local.version > 0 /\ local.version = row.version
         => local.hash = WantedState

Safe ==
  /\ CursorsOrdered
  /\ Linked
  /\ VersionsIssued
  /\ AnswersHonest
  /\ StoppedIsEmpty
  /\ ApplyShape
  /\ DiskTruth
  /\ PayloadsCurrent
  /\ GapRecorded

---------------------------------------------------------------------------
(* The steps as the invariant sees them *)

(* A bump, whatever else the handler changed in the tables. *)
BumpStep ==
  /\ row'.version = row.version + 1
  /\ row'.settled = row.settled /\ row'.applied = row.applied
  /\ UNCHANGED <<worker, up, bound, local, disk, net, cur, torn>>

(* An edit that is yet to be bumped. *)
SilentEdit ==
  /\ unbumped'
  /\ UNCHANGED <<row, caps, worker, up, bound, local, disk, net, cur, torn>>

(* Capabilities that change nothing, or change before the first version. *)
CapsStep ==
  /\ row.version = 0 \/ Advertised(caps') = Advertised(caps)
  /\ UNCHANGED <<row, desired, unbumped, worker, up, bound, local, disk, net,
                 cur, torn>>

(* A handler that ends before it sends. *)
EndStep(s) ==
  /\ worker[s].phase \in {"row", "built"}
  /\ worker' = [worker EXCEPT ![s] = Idle]
  /\ UNCHANGED <<row, desired, unbumped, caps, up, bound, local, disk, net,
                 cur, torn>>

(* Progress through the events of the apply in progress. *)
EventStep ==
  /\ cur # NoApply
  /\ cur'.req = cur.req /\ cur'.mode = cur.mode
  /\ cur'.todo = cur.todo /\ cur'.failed = cur.failed
  /\ cur'.phase = cur.phase \/ cur.todo = {}
  /\ UNCHANGED <<row, desired, unbumped, caps, worker, up, bound, local,
                 disk, net, torn>>

safeVars == <<row, desired, unbumped, caps, worker, up, bound, local, disk,
              net, cur, torn>>

(* Every step of the specification is one of those, or one of the actions *)
(* the invariant is really about.                                         *)
StepKind ==
  \/ BumpStep \/ SilentEdit \/ CapsStep \/ EventStep
  \/ \E s \in Slots : \/ EndStep(s) \/ TakeJob(s) \/ ReadCaps(s)
                       \/ BuildPayload(s) \/ SendApply(s)
                       \/ RecordAnswer(s) \/ LoseAttempt(s)
  \/ \E r \in net : Receive(r)
  \/ \E k \in Kinds : DriverOk(k) \/ DriverThrows(k)
  \/ Finish \/ ApplyRejects \/ Stop
  \/ \E b \in CapSets, m \in BOOLEAN : Boot(b, m)
  \/ UNCHANGED safeVars

(* The types the arithmetic below needs. *)
LEMMA VersionTypes ==
  ASSUME TypeOK
  PROVE  /\ row.version \in Nat /\ row.settled \in Nat /\ row.applied \in Nat
         /\ local.version \in Nat
         /\ \A s \in Slots : worker[s] \in Workers /\ worker[s].version \in Nat
         /\ \A r \in net : r \in Requests /\ r.version \in Nat
                            /\ r.slot \in Slots /\ r.abandoned \in Nat
         /\ cur # NoApply => /\ cur \in Applies /\ cur.req \in Requests
                             /\ cur.req.version \in Nat
                             /\ cur.req.slot \in Slots
<1>1. row.version \in Nat /\ row.settled \in Nat /\ row.applied \in Nat
  BY RowFields DEF TypeOK
<1>2. local.version \in Nat
  BY DEF TypeOK
<1>3. \A s \in Slots : worker[s] \in Workers /\ worker[s].version \in Nat
  BY WorkerFields DEF TypeOK
<1>4. \A r \in net : r \in Requests /\ r.version \in Nat /\ r.slot \in Slots
                     /\ r.abandoned \in Nat
  BY RequestFields DEF TypeOK
<1>5. cur # NoApply => /\ cur \in Applies /\ cur.req \in Requests
                      /\ cur.req.version \in Nat /\ cur.req.slot \in Slots
  BY ApplyFields, RequestFields DEF TypeOK
<1> QED BY <1>1, <1>2, <1>3, <1>4, <1>5

(* No step of the specification falls outside the kinds above. *)
LEMMA StepKinds == TypeOK /\ [Next]_vars => StepKind
<1> SUFFICES ASSUME TypeOK, [Next]_vars PROVE StepKind
  OBVIOUS
<1> USE DEF vars, srvVars, chanVars, safeVars
<1>0. row \in Rows
  BY DEF TypeOK
<1>1. ASSUME NEW k \in Kinds, NEW v \in Values, EditContributions(k, v)
      PROVE  BumpStep
  BY <1>0, <1>1, BumpFacts DEF EditContributions, BumpStep
<1>2. ASSUME NEW k \in Kinds, NEW v \in Values, EditWithoutBump(k, v)
      PROVE  SilentEdit
  BY <1>2 DEF EditWithoutBump, SilentEdit
<1>3. ASSUME LateBump
      PROVE  BumpStep
  BY <1>0, <1>3, BumpFacts DEF LateBump, BumpStep
<1>4. ASSUME NEW e \in Events, PostEvent(e)
      PROVE  BumpStep
  BY <1>0, <1>4, BumpFacts DEF PostEvent, BumpStep
<1>5. ASSUME HelloUpsert
      PROVE  BumpStep \/ CapsStep
  <2>1. CASE Advertised(caps) # bound /\ row.version > 0
    BY <1>0, <1>5, <2>1, BumpFacts DEF HelloUpsert, BumpStep
  <2>2. CASE ~(Advertised(caps) # bound /\ row.version > 0)
    <3>1. row.version = 0 \/ Advertised(caps) = bound
      BY <1>0, <2>2, RowFields
    <3>2. Advertised(caps') = bound
      BY <1>5, ContentAssumption DEF HelloUpsert, Advertised, TypeOK
    <3> QED BY <1>5, <2>2, <3>1, <3>2 DEF HelloUpsert, CapsStep
  <2> QED BY <2>1, <2>2
<1>6. ASSUME HelloCheck
      PROVE  BumpStep \/ UNCHANGED safeVars
  BY <1>0, <1>6, BumpFacts, ZenonT(60) DEF HelloCheck, BumpStep
<1>7. ASSUME NEW s \in Slots,
             DeferToReady(s) \/ DeferToHello(s) \/ SendFails(s)
      PROVE  EndStep(s)
  BY <1>7 DEF DeferToReady, DeferToHello, SendFails, AttemptFails,
              WorkerStops, EndStep
<1>8. ASSUME StartEvents
      PROVE  EventStep
  <2>1. cur \in Applies
    BY <1>8 DEF StartEvents, BeginEvents, TypeOK
  <2> QED BY <1>8, <2>1 DEF StartEvents, BeginEvents, EventStep, Applies
<1>9. ASSUME NEW e \in Events, EventSkipped(e) \/ EventRecorded(e)
      PROVE  EventStep
  <2>1. cur \in Applies /\ cur # NoApply /\ cur' = SettleHere(e)
    BY <1>9 DEF EventSkipped, SkipEvent, AtEvent, EventRecorded, RecordEvent,
                TypeOK
  <2>2. /\ cur'.req = cur.req /\ cur'.mode = cur.mode
        /\ cur'.todo = cur.todo /\ cur'.failed = cur.failed
        /\ cur'.phase = cur.phase
    BY <2>1 DEF SettleHere, Applies
  <2> QED BY <1>9, <2>1, <2>2 DEF EventSkipped, SkipEvent, EventRecorded,
                                  RecordEvent, EventStep
<1>10. ASSUME NEW e \in Events, EventInvoked(e)
       PROVE  EventStep
  <2>1. cur \in Applies /\ cur # NoApply
    BY <1>10 DEF EventInvoked, InvokeEvent, AtEvent, TypeOK
  <2> QED BY <1>10, <2>1 DEF EventInvoked, InvokeEvent, EventStep, Applies
<1>11. ASSUME NEW e \in Events, NEW m \in BOOLEAN,
              EventThrows(e, m) \/ RecordThrows(e, m)
       PROVE  EventStep
  <2>1. cur \in Applies /\ cur # NoApply
    BY <1>11 DEF EventThrows, FailEvent, AtEvent, RecordThrows, FailRecord,
                 TypeOK
  <2> QED BY <1>11, <2>1 DEF EventThrows, FailEvent, RecordThrows, FailRecord,
                             EventStep, Applies
<1>12. ASSUME \/ \E e \in Events : EventExpires(e)
              \/ \E s \in Slots : LoseJob(s)
              \/ \E seen \in {"running", "stopped", "unknown"} : Sweep(seen)
              \/ BecomeReady \/ GatewayRolls \/ HelloSend \/ HelloFails
              \/ UNCHANGED vars
       PROVE  UNCHANGED safeVars
  BY <1>12 DEF EventExpires, LoseJob, Sweep, BecomeReady, GatewayRolls,
               HelloSend, HelloFails
<1>13. ASSUME NEW s \in Slots, RecordOutcome(s) \/ RecordThenFails(s)
       PROVE  RecordAnswer(s)
  BY <1>13 DEF RecordOutcome, RecordThenFails
<1> HIDE DEF vars, srvVars, chanVars, safeVars
<1> QED BY <1>1, <1>2, <1>3, <1>4, <1>5, <1>6, <1>7, <1>8, <1>9, <1>10,
           <1>11, <1>12, <1>13
        DEF StepKind, Next, DomainNext, WorkerStep, HelloStep, AgentStep,
            FaultNext

---------------------------------------------------------------------------
(* Each kind of step preserves the invariant *)

(* What is built without a version cannot be old: the initial state. *)
LEMMA InitSafe == Init => Safe
BY DEF Init, ChanInit, Safe, CursorsOrdered, Linked, VersionsIssued,
       AnswersHonest, StoppedIsEmpty, ApplyShape, DiskTruth, PayloadsCurrent,
       GapRecorded, NoRow, Idle, NoAnswer, Built

(* A bump makes every payload and every answer one of an older version. *)
LEMMA BumpSafe ==
  ASSUME TypeOK, Safe, BumpStep PROVE Safe'
<1>0. /\ row'.version = row.version + 1
      /\ UNCHANGED <<worker, up, bound, local, disk, net, cur, torn>>
      /\ row'.settled = row.settled /\ row'.applied = row.applied
  BY DEF BumpStep
<1>1. CursorsOrdered'
  BY <1>0, VersionTypes DEF Safe, CursorsOrdered
<1>2. Linked'
  BY <1>0 DEF Safe, Linked, RequestOf
<1>3. VersionsIssued' /\ AnswersHonest' /\ StoppedIsEmpty'
  BY <1>0 DEF Safe, VersionsIssued, AnswersHonest, StoppedIsEmpty
<1>4. ApplyShape' /\ DiskTruth'
  BY <1>0 DEF Safe, ApplyShape, DiskTruth
<1>5. PayloadsCurrent'
  <2>1. /\ \A s \in Slots : worker'[s].version # row'.version
        /\ \A r \in net' : r.version # row'.version
        /\ cur' # NoApply => cur'.req.version # row'.version
        /\ local'.version # row'.version
    BY <1>0, VersionTypes DEF Safe, CursorsOrdered
  <2> QED BY <2>1 DEF PayloadsCurrent
<1>6. GapRecorded'
  BY <1>0, VersionTypes DEF Safe, CursorsOrdered, GapRecorded, IsSettled
<1> QED BY <1>1, <1>2, <1>3, <1>4, <1>5, <1>6 DEF Safe

(* An edit still to be bumped suspends what is said of the contents. *)
LEMMA SilentSafe ==
  ASSUME TypeOK, Safe, SilentEdit PROVE Safe'
<1>0. /\ unbumped'
      /\ UNCHANGED <<row, caps, worker, up, bound, local, disk, net, cur, torn>>
  BY DEF SilentEdit
<1>1. CursorsOrdered'
  BY <1>0 DEF Safe, CursorsOrdered
<1>2. Linked'
  BY <1>0 DEF Safe, Linked, RequestOf
<1>3. VersionsIssued' /\ AnswersHonest' /\ StoppedIsEmpty'
  BY <1>0 DEF Safe, VersionsIssued, AnswersHonest, StoppedIsEmpty
<1>4. ApplyShape' /\ DiskTruth'
  BY <1>0 DEF Safe, ApplyShape, DiskTruth
<1>5. PayloadsCurrent' /\ GapRecorded'
  BY <1>0 DEF PayloadsCurrent, GapRecorded
<1> QED BY <1>1, <1>2, <1>3, <1>4, <1>5 DEF Safe

(* Capabilities that stay the same, or come before any version exists. *)
LEMMA CapsSafe ==
  ASSUME TypeOK, Safe, CapsStep PROVE Safe'
<1>0. /\ row.version = 0 \/ Advertised(caps') = Advertised(caps)
      /\ UNCHANGED <<row, desired, unbumped, worker, up, bound, local, disk,
                     net, cur, torn>>
  BY DEF CapsStep
<1>1. CursorsOrdered'
  BY <1>0 DEF Safe, CursorsOrdered
<1>2. Linked'
  BY <1>0 DEF Safe, Linked, RequestOf
<1>3. VersionsIssued' /\ AnswersHonest' /\ StoppedIsEmpty'
  BY <1>0 DEF Safe, VersionsIssued, AnswersHonest, StoppedIsEmpty
<1>4. ApplyShape' /\ DiskTruth'
  BY <1>0 DEF Safe, ApplyShape, DiskTruth
<1>5. CASE row.version = 0
  <2>1. /\ \A s \in Slots : worker'[s].phase = "idle"
        /\ net' = {} /\ cur' = NoApply
        /\ ~(local'.version > 0 /\ local'.version = row'.version)
    BY <1>0, <1>5, VersionTypes DEF Safe, CursorsOrdered, VersionsIssued
  <2>2. PayloadsCurrent'
    BY <2>1 DEF PayloadsCurrent, Built
  <2>3. GapRecorded'
    BY <1>0, <1>5 DEF GapRecorded
  <2> QED BY <1>1, <1>2, <1>3, <1>4, <2>2, <2>3 DEF Safe
<1>6. CASE Advertised(caps') = Advertised(caps)
  <2>1. WantedState' = WantedState /\ WantedDrops' = WantedDrops
    BY <1>0, <1>6 DEF WantedState, WantedDrops, BuildState, DroppedKinds,
                      Advertised
  <2>2. PayloadsCurrent'
    BY <1>0, <1>6, <2>1 DEF Safe, PayloadsCurrent, Built, Advertised
  <2>3. GapRecorded'
    BY <1>0, <2>1 DEF Safe, GapRecorded, IsSettled, WantedDrops
  <2> QED BY <1>1, <1>2, <1>3, <1>4, <2>2, <2>3 DEF Safe
<1> QED BY <1>0, <1>5, <1>6

(* The parts that only read the tables and the agent, when neither moves. *)
LEMMA SameContents ==
  ASSUME UNCHANGED <<desired, caps>>
  PROVE  WantedState' = WantedState /\ WantedDrops' = WantedDrops
         /\ Advertised(caps)' = Advertised(caps)
BY DEF WantedState, WantedDrops, BuildState, DroppedKinds, Advertised

(* A handler that ends before it sent anything leaves nobody waiting. *)
LEMMA EndSafe ==
  ASSUME TypeOK, Safe, NEW s \in Slots, EndStep(s) PROVE Safe'
<1>0. /\ worker[s].phase \in {"row", "built"}
      /\ worker' = [worker EXCEPT ![s] = Idle]
      /\ UNCHANGED <<row, desired, unbumped, caps, up, bound, local, disk, net,
                     cur, torn>>
  BY DEF EndStep
<1>1. /\ worker'[s].phase = "idle" /\ worker'[s].version = 0
      /\ \A t \in Slots : t # s => worker'[t] = worker[t]
  BY <1>0 DEF TypeOK, Idle
<1>2. CursorsOrdered'
  BY <1>0, <1>1, VersionTypes DEF Safe, CursorsOrdered
<1>3. Linked'
  BY <1>0, <1>1, VersionTypes DEF Safe, Linked, RequestOf
<1>4. VersionsIssued' /\ AnswersHonest' /\ StoppedIsEmpty'
  BY <1>0, <1>1 DEF Safe, VersionsIssued, AnswersHonest, StoppedIsEmpty
<1>5. ApplyShape' /\ DiskTruth'
  BY <1>0 DEF Safe, ApplyShape, DiskTruth
<1>6. PayloadsCurrent'
  BY <1>0, <1>1, SameContents DEF Safe, PayloadsCurrent, Built
<1>7. GapRecorded'
  BY <1>0 DEF Safe, GapRecorded, IsSettled, DroppedKinds, Advertised
<1> QED BY <1>2, <1>3, <1>4, <1>5, <1>6, <1>7 DEF Safe

(* A handler works only for a job the queue holds active: no second one   *)
(* starts for the same deduplication key.                                 *)
HandlerActive ==
  \A s \in Slots : worker[s].phase # "idle" => jobs[s].st = "active"

(* Enqueueing leaves an active job active. *)
LEMMA EnqueueKeepsActive ==
  ASSUME NEW j \in [Slots -> Jobs], NEW s \in Slots, NEW t \in Slots,
         j[t].st = "active"
  PROVE  Enqueue(j, s)[t].st = "active"
<1>1. j[s].st \in {"none", "queued", "active"}
  BY DEF Jobs
<1>2. CASE j[s].st = "none"
  BY <1>2 DEF Enqueue, Jobs
<1>3. CASE j[s].st = "queued"
  BY <1>3 DEF Enqueue
<1>4. CASE j[s].st = "active"
  BY <1>4 DEF Enqueue, Jobs
<1> QED BY <1>1, <1>2, <1>3, <1>4

(* A job that ends or fails touches no other key. *)
LEMMA OtherJobsStay ==
  ASSUME NEW j \in [Slots -> Jobs], NEW s \in Slots, NEW t \in Slots, t # s
  PROVE  EndJob(j, s)[t] = j[t] /\ FailJob(j, s)[t] = j[t]
BY DEF EndJob, FailJob

(* No step lets a handler run beside its job's next activation. *)
LEMMA HandlerStep ==
  TypeOK /\ Safe /\ HandlerActive /\ [Next]_vars => HandlerActive'
<1> SUFFICES ASSUME TypeOK, Safe, HandlerActive, [Next]_vars
             PROVE  HandlerActive'
  OBVIOUS
<1> USE DEF vars, srvVars, chanVars
<1>0. /\ jobs \in [Slots -> Jobs] /\ worker \in [Slots -> Workers]
      /\ "plain" \in Slots /\ "boot" \in Slots
  BY DEF TypeOK, Slots
<1>1. ASSUME UNCHANGED worker,
             \/ UNCHANGED jobs
             \/ \E s \in Slots : jobs' = Enqueue(jobs, s)
      PROVE  HandlerActive'
  BY <1>0, <1>1, EnqueueKeepsActive DEF HandlerActive
<1>2. ASSUME NEW s \in Slots, WorkerStops(s),
             jobs' = EndJob(jobs, s) \/ jobs' = FailJob(jobs, s)
      PROVE  HandlerActive'
  <2>1. worker'[s].phase = "idle"
    BY <1>0, <1>2 DEF WorkerStops, Idle
  <2>2. \A t \in Slots : t # s => worker'[t] = worker[t] /\ jobs'[t] = jobs[t]
    BY <1>0, <1>2, OtherJobsStay DEF WorkerStops
  <2> QED BY <2>1, <2>2 DEF HandlerActive
<1>3. ASSUME NEW s \in Slots, TakeJob(s)
      PROVE  HandlerActive'
  <2>1. CASE row.version = 0
    <3>1. worker[s].phase = "idle"
      BY <1>0, <1>3 DEF TakeJob, HandlerActive
    <3>2. worker' = worker /\ jobs' = EndJob(jobs, s)
      BY <1>3, <2>1 DEF TakeJob
    <3> QED BY <1>0, <3>1, <3>2, OtherJobsStay DEF HandlerActive
  <2>2. CASE row.version # 0
    <3>1. /\ jobs'[s].st = "active"
          /\ \A t \in Slots : t # s => worker'[t] = worker[t]
                                       /\ jobs'[t] = jobs[t]
      BY <1>0, <1>3, <2>2 DEF TakeJob, Jobs
    <3> QED BY <3>1 DEF HandlerActive
  <2> QED BY <2>1, <2>2
<1>4. ASSUME NEW s \in Slots, ReadCaps(s) \/ BuildPayload(s) \/ SendApply(s)
      PROVE  HandlerActive'
  BY <1>0, <1>4 DEF HandlerActive, ReadCaps, BuildPayload, SendApply
<1>5. ASSUME Finish
      PROVE  HandlerActive'
  <2>1. cur # NoApply /\ UNCHANGED jobs /\ cur.req.slot \in Slots
    BY <1>5, VersionTypes DEF Finish, FinishApply, ReadyToAnswer
  <2>2. CASE cur.req.abandoned = 0
    <3>1. worker[cur.req.slot].phase # "idle"
      BY <2>1, <2>2 DEF Safe, Linked
    <3> QED BY <1>0, <1>5, <2>1, <2>2, <3>1 DEF Finish, HandlerActive
  <2>3. CASE cur.req.abandoned # 0
    BY <1>5, <2>1, <2>3 DEF Finish, HandlerActive
  <2> QED BY <2>2, <2>3
<1>6. ASSUME Stop
      PROVE  HandlerActive'
  <2> SUFFICES ASSUME NEW s \in Slots, worker'[s].phase # "idle"
               PROVE  jobs'[s].st = "active"
    BY DEF HandlerActive
  <2>1. CASE worker[s].phase = "sent"
    BY <1>6, <2>1 DEF Stop, Idle
  <2>2. CASE worker[s].phase # "sent"
    BY <1>6, <2>2 DEF Stop, HandlerActive
  <2> QED BY <2>1, <2>2
<1>7. ASSUME DomainNext \/ HelloStep \/ BecomeReady
             \/ \E seen \in {"running", "stopped", "unknown"} : Sweep(seen)
      PROVE  HandlerActive'
  BY <1>0, <1>1, <1>7
     DEF DomainNext, EditContributions, EditWithoutBump, LateBump, PostEvent,
         EventExpires, HelloStep, HelloSend, HelloUpsert, HelloCheck,
         BecomeReady, Sweep
<1>8. ASSUME NEW s \in Slots,
             \/ DeferToReady(s) \/ DeferToHello(s) \/ SendFails(s)
             \/ RecordOutcome(s) \/ RecordThenFails(s) \/ LoseAttempt(s)
      PROVE  HandlerActive'
  BY <1>2, <1>8 DEF DeferToReady, DeferToHello, SendFails, RecordOutcome,
                    RecordThenFails, RecordAnswer, LoseAttempt, AttemptFails
<1>11. ASSUME ApplyRejects
       PROVE  HandlerActive'
  <2>1. cur # NoApply /\ cur.req.slot \in Slots
    BY <1>11, VersionTypes DEF ApplyRejects, AbortApply
  <2> QED BY <1>1, <1>2, <1>11, <2>1 DEF ApplyRejects, AttemptFails
<1>9. ASSUME NEW s \in Slots, LoseJob(s)
      PROVE  HandlerActive'
  <2>1. \A t \in Slots : jobs[t].st = "active" => jobs'[t].st = "active"
    BY <1>0, <1>9 DEF LoseJob, Jobs, NoJob
  <2> QED BY <1>9, <2>1 DEF LoseJob, HandlerActive
<1>10. ASSUME \/ \E r \in net : Receive(r)
              \/ \E k \in Kinds : DriverOk(k) \/ DriverThrows(k)
              \/ StartEvents
              \/ \E e \in Events : \/ EventSkipped(e) \/ EventInvoked(e)
                                   \/ EventRecorded(e)
              \/ \E e \in Events, m \in BOOLEAN :
                   EventThrows(e, m) \/ RecordThrows(e, m)
              \/ \E b \in CapSets, m \in BOOLEAN : Boot(b, m)
              \/ GatewayRolls \/ HelloFails \/ UNCHANGED vars
       PROVE  HandlerActive'
  BY <1>1, <1>10 DEF Receive, DriverOk, DriverThrows, StartEvents,
         EventSkipped, EventInvoked, EventRecorded, EventThrows,
         RecordThrows, Boot, GatewayRolls, HelloFails
<1> QED
  BY <1>3, <1>4, <1>5, <1>6, <1>7, <1>8, <1>9, <1>10, <1>11
  DEF Next, WorkerStep, AgentStep, FaultNext

(* Steps that touch nothing the invariant speaks of. *)
LEMMA UnchangedSafe ==
  ASSUME Safe, UNCHANGED safeVars PROVE Safe'
<1> USE DEF safeVars
<1>1. CursorsOrdered' /\ Linked' /\ VersionsIssued' /\ AnswersHonest'
  BY DEF Safe, CursorsOrdered, Linked, RequestOf, VersionsIssued,
         AnswersHonest
<1>2. StoppedIsEmpty' /\ ApplyShape' /\ DiskTruth'
  BY DEF Safe, StoppedIsEmpty, ApplyShape, DiskTruth
<1>3. PayloadsCurrent'
  BY SameContents DEF Safe, PayloadsCurrent, Built
<1>4. GapRecorded'
  BY DEF Safe, GapRecorded, IsSettled, DroppedKinds, Advertised
<1> QED BY <1>1, <1>2, <1>3, <1>4 DEF Safe

(* A change of one worker that no request waits for: what is left to show *)
(* is what the new worker itself must satisfy.                            *)
LEMMA WorkerSafe ==
  ASSUME TypeOK, Safe, NEW s \in Slots, NEW w,
         worker[s].phase # "sent",
         worker' = [worker EXCEPT ![s] = w],
         UNCHANGED <<row, desired, unbumped, caps, up, bound, local, disk, net,
                     cur, torn>>,
         w.version <= row.version,
         w.phase # "idle" => w.version > 0,
         w.phase # "answered",
         ~unbumped /\ w.version = row.version =>
           /\ w.phase = "caps" => w.caps = Advertised(caps)
           /\ w.phase \in {"built", "sent"} => /\ w.snap = WantedState
                                               /\ w.dropped = WantedDrops
  PROVE  Safe'
<1>1. worker'[s] = w /\ \A t \in Slots : t # s => worker'[t] = worker[t]
  BY DEF TypeOK
<1>2. CursorsOrdered'
  BY <1>1 DEF Safe, CursorsOrdered
<1>3. Linked'
  BY <1>1, VersionTypes DEF Safe, Linked, RequestOf
<1>4. VersionsIssued' /\ AnswersHonest' /\ StoppedIsEmpty'
  BY <1>1 DEF Safe, VersionsIssued, AnswersHonest, StoppedIsEmpty
<1>5. ApplyShape' /\ DiskTruth'
  BY DEF Safe, ApplyShape, DiskTruth
<1>6. PayloadsCurrent'
  BY <1>1, SameContents DEF Safe, PayloadsCurrent, Built
<1>7. GapRecorded'
  BY DEF Safe, GapRecorded, IsSettled, DroppedKinds, Advertised
<1> QED BY <1>2, <1>3, <1>4, <1>5, <1>6, <1>7 DEF Safe

(* Taking a job: no handler was running for it, so no request is orphaned.*)
LEMMA TakeSafe ==
  ASSUME TypeOK, Safe, HandlerActive, NEW s \in Slots, TakeJob(s) PROVE Safe'
<1>0. worker[s].phase = "idle" /\ worker[s] \in Workers /\ row.version \in Nat
  BY VersionTypes DEF TakeJob, HandlerActive
<1>1. CASE row.version = 0
  <2>1. UNCHANGED safeVars
    BY <1>1 DEF TakeJob, safeVars, chanVars
  <2> QED BY <2>1, UnchangedSafe
<1>2. CASE row.version # 0
  <2> DEFINE w == [worker[s] EXCEPT !.phase = "row", !.version = row.version]
  <2>1. /\ worker' = [worker EXCEPT ![s] = w]
        /\ UNCHANGED <<row, desired, unbumped, caps, up, bound, local, disk,
                       net, cur, torn>>
    BY <1>2 DEF TakeJob, chanVars
  <2>2. w.phase = "row" /\ w.version = row.version
    BY <1>0 DEF Workers
  <2> HIDE DEF w
  <2>3. w.version > 0 /\ w.version <= row.version
    BY <1>0, <1>2, <2>2
  <2> QED BY <1>0, <2>1, <2>2, <2>3, WorkerSafe
<1> QED BY <1>1, <1>2

(* Reading the capabilities: a version still current makes them current. *)
LEMMA ReadCapsSafe ==
  ASSUME TypeOK, Safe, NEW s \in Slots, ReadCaps(s) PROVE Safe'
<1> DEFINE w == [worker[s] EXCEPT !.phase = "caps", !.caps = caps]
<1>0. worker[s].phase = "row" /\ worker[s] \in Workers /\ caps # NoCaps
  BY VersionTypes DEF ReadCaps
<1>1. /\ worker' = [worker EXCEPT ![s] = w]
      /\ UNCHANGED <<row, desired, unbumped, caps, up, bound, local, disk, net,
                     cur, torn>>
  BY DEF ReadCaps, chanVars
<1>2. w.phase = "caps" /\ w.version = worker[s].version /\ w.caps = caps
  BY <1>0 DEF Workers
<1> HIDE DEF w
<1>3. w.version > 0 /\ w.version <= row.version
  BY <1>0, <1>2 DEF Safe, CursorsOrdered, VersionsIssued
<1> QED BY <1>0, <1>1, <1>2, <1>3, WorkerSafe DEF Advertised

(* Building the payload: current capabilities give current contents. *)
LEMMA BuildSafe ==
  ASSUME TypeOK, Safe, NEW s \in Slots, BuildPayload(s) PROVE Safe'
<1> DEFINE c == worker[s].caps
           w == [worker[s] EXCEPT !.phase = "built", !.caps = {},
                     !.snap = BuildState(c), !.dropped = DroppedKinds(c),
                     !.events = DeliverableEvents(c)]
<1>0. worker[s].phase = "caps" /\ worker[s] \in Workers
  BY VersionTypes DEF BuildPayload
<1>1. /\ worker' = [worker EXCEPT ![s] = w]
      /\ UNCHANGED <<row, desired, unbumped, caps, up, bound, local, disk, net,
                     cur, torn>>
  BY DEF BuildPayload, chanVars
<1>2. /\ w.phase = "built" /\ w.version = worker[s].version
      /\ w.snap = BuildState(c) /\ w.dropped = DroppedKinds(c)
  BY <1>0 DEF Workers
<1> HIDE DEF w
<1>3. w.version > 0 /\ w.version <= row.version
  BY <1>0, <1>2 DEF Safe, CursorsOrdered, VersionsIssued
<1>4. ~unbumped /\ w.version = row.version => c = Advertised(caps)
  BY <1>0, <1>2 DEF Safe, PayloadsCurrent
<1> QED BY <1>0, <1>1, <1>2, <1>3, <1>4, WorkerSafe DEF WantedState, WantedDrops

(* Sending: the request is what its worker holds, and the only one of it. *)
LEMMA SendSafe ==
  ASSUME TypeOK, Safe, NEW s \in Slots, SendApply(s) PROVE Safe'
<1> DEFINE w == [worker[s] EXCEPT !.phase = "sent"]
<1>0. worker[s].phase = "built" /\ worker[s] \in Workers /\ up
  BY VersionTypes DEF SendApply
<1>1. /\ worker' = [worker EXCEPT ![s] = w]
      /\ net' = net \cup {RequestOf(s)}
      /\ UNCHANGED <<row, desired, unbumped, caps, up, bound, local, disk, cur,
                     torn>>
  BY DEF SendApply
<1>2. /\ w.phase = "sent" /\ w.version = worker[s].version
      /\ w.snap = worker[s].snap /\ w.dropped = worker[s].dropped
      /\ w.events = worker[s].events
  BY <1>0 DEF Workers
<1>3. worker'[s] = w /\ \A t \in Slots : t # s => worker'[t] = worker[t]
  BY <1>1 DEF TypeOK
<1> HIDE DEF w
<1>4. RequestOf(s)' = RequestOf(s)
  BY <1>2, <1>3 DEF RequestOf
<1>5. /\ RequestOf(s).slot = s /\ RequestOf(s).version = worker[s].version
      /\ RequestOf(s).snap = worker[s].snap /\ RequestOf(s).abandoned = 0
  BY DEF RequestOf
<1>6. \A t \in Slots : t # s => RequestOf(t)' = RequestOf(t)
  BY <1>3 DEF RequestOf
<1>7. CursorsOrdered'
  BY <1>1, <1>2, <1>3, <1>5 DEF Safe, CursorsOrdered
<1>8. Linked'
  <2>1. \A r \in net' : r.abandoned = 0 =>
          worker'[r.slot].phase = "sent" /\ r = RequestOf(r.slot)'
    BY <1>0, <1>1, <1>2, <1>3, <1>4, <1>5, <1>6, VersionTypes DEF Safe, Linked
  <2>2. (cur # NoApply /\ cur.req.abandoned = 0 =>
            /\ worker[cur.req.slot].phase = "sent"
            /\ cur.req = RequestOf(cur.req.slot)
            /\ cur.req \notin net)'
    <3>1. ASSUME cur # NoApply, cur.req.abandoned = 0
          PROVE  cur.req.slot \in Slots /\ cur.req.slot # s
      BY <1>0, <3>1, VersionTypes DEF Safe, Linked
    <3> QED BY <1>1, <1>3, <1>5, <3>1 DEF Safe, Linked, RequestOf
  <2> QED BY <2>1, <2>2 DEF Linked
<1>9. VersionsIssued' /\ AnswersHonest' /\ StoppedIsEmpty'
  BY <1>0, <1>1, <1>2, <1>3, <1>5
     DEF Safe, VersionsIssued, AnswersHonest, StoppedIsEmpty
<1>10. ApplyShape' /\ DiskTruth'
  BY <1>1 DEF Safe, ApplyShape, DiskTruth
<1>11. PayloadsCurrent'
  BY <1>0, <1>1, <1>2, <1>3, <1>5, SameContents DEF Safe, PayloadsCurrent, Built
<1>12. GapRecorded'
  BY <1>1 DEF Safe, GapRecorded, IsSettled, DroppedKinds, Advertised
<1> QED BY <1>7, <1>8, <1>9, <1>10, <1>11, <1>12 DEF Safe

(* Recording an answer: it cannot lower a cursor, and a clean one is for  *)
(* the version whose payload it answers.                                  *)
LEMMA RecordSafe ==
  ASSUME TypeOK, Safe, NEW s \in Slots, RecordAnswer(s) PROVE Safe'
<1>0. worker[s].phase = "answered" /\ worker[s] \in Workers
  BY VersionTypes DEF RecordAnswer
<1>1. /\ worker' = [worker EXCEPT ![s] = Idle]
      /\ UNCHANGED <<desired, unbumped, caps, up, bound, local, disk, net, cur,
                     torn>>
  BY DEF RecordAnswer, WorkerStops, chanVars
<1>2. /\ worker'[s].phase = "idle" /\ worker'[s].version = 0
      /\ \A t \in Slots : t # s => worker'[t] = worker[t]
  BY <1>1 DEF TypeOK, Idle
<1>3. /\ row'.version = row.version
      /\ \/ row' = row
         \/ /\ row.settled <= worker[s].version
            /\ row'.settled = worker[s].version
            /\ row'.dropped = worker[s].dropped
            /\ \/ row'.applied = row.applied
               \/ /\ worker[s].answer.failures = {}
                  /\ row'.applied = worker[s].answer.version
  BY OutcomeFacts
<1>4. worker[s].answer.failures = {}
        => worker[s].answer.version = worker[s].version
  BY <1>0 DEF Safe, AnswersHonest
<1>5. CursorsOrdered'
  <2>1. row'.applied <= row'.settled /\ row'.settled <= row'.version
    BY <1>3, <1>4, VersionTypes DEF Safe, CursorsOrdered
  <2> QED BY <1>1, <1>2, <1>3, <2>1, VersionTypes DEF Safe, CursorsOrdered
<1>6. Linked'
  BY <1>0, <1>1, <1>2, VersionTypes DEF Safe, Linked, RequestOf
<1>7. VersionsIssued' /\ AnswersHonest' /\ StoppedIsEmpty'
  BY <1>1, <1>2 DEF Safe, VersionsIssued, AnswersHonest, StoppedIsEmpty
<1>8. ApplyShape' /\ DiskTruth'
  BY <1>1 DEF Safe, ApplyShape, DiskTruth
<1>9. PayloadsCurrent'
  BY <1>1, <1>2, <1>3, SameContents DEF Safe, PayloadsCurrent, Built
<1>10. GapRecorded'
  <2>1. CASE row' = row
    BY <1>1, <2>1 DEF Safe, GapRecorded, IsSettled, DroppedKinds, Advertised
  <2>2. CASE row' # row
    <3> SUFFICES ASSUME row'.settled >= row'.version, ~unbumped
                 PROVE  row'.dropped = WantedDrops'
      BY <1>1 DEF GapRecorded, IsSettled, WantedDrops
    <3>1. worker[s].version = row.version
      BY <1>3, <2>2, VersionTypes DEF Safe, CursorsOrdered
    <3>2. worker[s].dropped = WantedDrops
      BY <1>0, <3>1 DEF Safe, PayloadsCurrent, Built
    <3> QED BY <1>1, <1>3, <2>2, <3>2, SameContents
  <2> QED BY <2>1, <2>2
<1> QED BY <1>5, <1>6, <1>7, <1>8, <1>9, <1>10 DEF Safe

(* Losing an attempt: its request goes on with nobody waiting for it. *)
LEMMA LoseSafe ==
  ASSUME TypeOK, Safe, NEW s \in Slots, LoseAttempt(s) PROVE Safe'
<1>0. left["lose"] # 0
  BY DEF LoseAttempt, Spend, TypeOK, Disturbances
<1>1. /\ worker' = [worker EXCEPT ![s] = Idle]
      /\ UNCHANGED <<row, desired, unbumped, caps, up, bound, local, disk,
                     torn>>
  BY DEF LoseAttempt, AttemptFails, WorkerStops
<1>2. /\ worker'[s].phase = "idle" /\ worker'[s].version = 0
      /\ \A t \in Slots : t # s => worker'[t] = worker[t]
  BY <1>1 DEF TypeOK, Idle
<1>3. ASSUME NEW r \in Requests
      PROVE  /\ Abandon(r).version = r.version /\ Abandon(r).snap = r.snap
             /\ Abandon(r).slot = r.slot /\ Abandon(r).abandoned # 0
  BY <1>0 DEF Abandon, Requests
<1>4. \A q \in net' : \E r \in net :
        /\ q.version = r.version /\ q.snap = r.snap
        /\ q.abandoned = 0 => q = r /\ r.slot # s
  BY <1>3, VersionTypes DEF LoseAttempt
<1>5. /\ cur = NoApply => cur' = NoApply
      /\ cur # NoApply =>
           /\ cur'.req.version = cur.req.version
           /\ cur'.req.snap = cur.req.snap
           /\ cur'.req.abandoned = 0 => cur' = cur /\ cur.req.slot # s
           /\ cur'.mode = cur.mode /\ cur'.phase = cur.phase
           /\ cur'.todo = cur.todo /\ cur'.failed = cur.failed
  <2>1. CASE cur # NoApply /\ cur.req.slot = s /\ cur.req.abandoned = 0
    <3>1. cur' = [cur EXCEPT !.req = Abandon(cur.req)] /\ cur \in Applies
      BY <2>1, VersionTypes DEF LoseAttempt
    <3>2. /\ cur'.req = Abandon(cur.req) /\ cur'.mode = cur.mode
          /\ cur'.phase = cur.phase
          /\ cur'.todo = cur.todo /\ cur'.failed = cur.failed
      BY <3>1 DEF Applies
    <3> QED BY <1>3, <2>1, <3>2, VersionTypes
  <2>2. CASE ~(cur # NoApply /\ cur.req.slot = s /\ cur.req.abandoned = 0)
    BY <2>2 DEF LoseAttempt
  <2> QED BY <2>1, <2>2
<1>6. CursorsOrdered'
  BY <1>1, <1>2, <1>4, <1>5, VersionTypes DEF Safe, CursorsOrdered
<1>7. Linked'
  <2>1. (\A r \in net : r.abandoned = 0 =>
           worker[r.slot].phase = "sent" /\ r = RequestOf(r.slot))'
    BY <1>2, <1>4, VersionTypes DEF Safe, Linked, RequestOf
  <2>2. (cur # NoApply /\ cur.req.abandoned = 0 =>
            /\ worker[cur.req.slot].phase = "sent"
            /\ cur.req = RequestOf(cur.req.slot)
            /\ cur.req \notin net)'
    BY <1>2, <1>4, <1>5, VersionTypes DEF Safe, Linked, RequestOf
  <2> QED BY <2>1, <2>2 DEF Linked
<1>8. VersionsIssued' /\ AnswersHonest'
  BY <1>1, <1>2, <1>4, <1>5 DEF Safe, VersionsIssued, AnswersHonest
<1>9. StoppedIsEmpty'
  BY <1>1, <1>4, <1>5 DEF Safe, StoppedIsEmpty
<1>10. ApplyShape' /\ DiskTruth'
  BY <1>1, <1>5 DEF Safe, ApplyShape, DiskTruth
<1>11. PayloadsCurrent'
  BY <1>1, <1>2, <1>4, <1>5, SameContents DEF Safe, PayloadsCurrent, Built
<1>12. GapRecorded'
  BY <1>1 DEF Safe, GapRecorded, IsSettled, DroppedKinds, Advertised
<1> QED BY <1>6, <1>7, <1>8, <1>9, <1>10, <1>11, <1>12 DEF Safe

(* What the server side keeps while only the agent moves. *)
LEMMA ServerStays ==
  ASSUME Safe, UNCHANGED <<row, desired, unbumped, caps, worker>>
  PROVE  AnswersHonest' /\ GapRecorded'
         /\ WantedState' = WantedState /\ WantedDrops' = WantedDrops
BY SameContents DEF Safe, AnswersHonest, GapRecorded, IsSettled, DroppedKinds,
                    Advertised

(* Progress through the events leaves the dispatch where it was. *)
LEMMA EventSafe ==
  ASSUME TypeOK, Safe, EventStep PROVE Safe'
<1>0. /\ cur # NoApply
      /\ cur'.req = cur.req /\ cur'.mode = cur.mode
      /\ cur'.todo = cur.todo /\ cur'.failed = cur.failed
      /\ cur'.phase = cur.phase \/ cur.todo = {}
      /\ UNCHANGED <<row, desired, unbumped, caps, worker, up, bound, local,
                     disk, net, torn>>
  BY DEF EventStep
<1>1. CursorsOrdered' /\ VersionsIssued' /\ StoppedIsEmpty'
  BY <1>0 DEF Safe, CursorsOrdered, VersionsIssued, StoppedIsEmpty
<1>2. Linked'
  BY <1>0 DEF Safe, Linked, RequestOf
<1>3. ApplyShape' /\ DiskTruth'
  BY <1>0 DEF Safe, ApplyShape, DiskTruth
<1>4. PayloadsCurrent'
  BY <1>0, SameContents DEF Safe, PayloadsCurrent, Built
<1> QED BY <1>0, <1>1, <1>2, <1>3, <1>4, ServerStays DEF Safe

(* A request begins: the dispatch has yet to reach every bound kind. *)
LEMMA ReceiveSafe ==
  ASSUME TypeOK, Safe, NEW r \in net, Receive(r) PROVE Safe'
<1>0. /\ up /\ cur = NoApply /\ net' = net \ {r}
      /\ cur'.req = r
      /\ UNCHANGED <<row, desired, unbumped, caps, worker, up, bound, local,
                     disk>>
  BY DEF Receive, ReceiveApply, srvVars
<1>1. /\ cur'.failed = {}
      /\ cur'.mode = IF r.version < local.version THEN "stale"
                     ELSE IF r.snap # local.hash THEN "dispatch" ELSE "skip"
      /\ cur'.mode = "dispatch" => cur'.todo = bound \cap Kinds /\ torn'
                                   /\ cur'.phase = "drivers"
      /\ cur'.mode # "dispatch" => cur'.todo = {} /\ torn' = torn
  BY DEF Receive, ReceiveApply, TypeOK
<1>2. CursorsOrdered' /\ VersionsIssued' /\ StoppedIsEmpty'
  BY <1>0 DEF Safe, CursorsOrdered, VersionsIssued, StoppedIsEmpty
<1>3. Linked'
  BY <1>0 DEF Safe, Linked, RequestOf
<1>4. ApplyShape' /\ DiskTruth'
  BY <1>0, <1>1, VersionTypes DEF Safe, ApplyShape, DiskTruth
<1>5. PayloadsCurrent'
  BY <1>0, SameContents DEF Safe, PayloadsCurrent, Built
<1> QED BY <1>0, <1>2, <1>3, <1>4, <1>5, ServerStays DEF Safe

(* A driver runs or fails: its kind holds the payload's contents or is    *)
(* counted as failed, and the disk counts as torn throughout.             *)
LEMMA DriverSafe ==
  ASSUME TypeOK, Safe, NEW k \in Kinds, DriverOk(k) \/ DriverThrows(k)
  PROVE  Safe'
<1>0. /\ cur # NoApply /\ k \in cur.todo
      /\ UNCHANGED <<row, desired, unbumped, caps, worker, up, bound, local,
                     net, torn>>
  BY DEF DriverOk, DriverThrows, RunDriver, DriverFails, srvVars
<1>1. cur \in Applies /\ disk \in [Kinds -> Values]
  BY <1>0, VersionTypes DEF TypeOK, Snapshots
<1>2. /\ cur'.req = cur.req /\ cur'.mode = cur.mode /\ cur'.phase = cur.phase
      /\ cur'.todo = cur.todo \ {k}
      /\ cur.failed \subseteq cur'.failed
      /\ \A j \in Kinds : j # k => disk'[j] = disk[j]
      /\ disk'[k] = cur.req.snap[k] \/ k \in cur'.failed
  <2>1. CASE DriverOk(k)
    BY <1>1, <2>1 DEF DriverOk, RunDriver, Applies
  <2>2. CASE DriverThrows(k)
    BY <1>1, <2>2 DEF DriverThrows, DriverFails, Applies
  <2> QED BY <2>1, <2>2
<1>3. cur.mode = "dispatch" /\ torn
  BY <1>0 DEF Safe, ApplyShape
<1>4. CursorsOrdered' /\ VersionsIssued' /\ StoppedIsEmpty'
  BY <1>0, <1>2 DEF Safe, CursorsOrdered, VersionsIssued, StoppedIsEmpty
<1>5. Linked'
  BY <1>0, <1>2 DEF Safe, Linked, RequestOf
<1>6. ApplyShape'
  BY <1>0, <1>2, <1>3 DEF Safe, ApplyShape
<1>7. DiskTruth'
  BY <1>0, <1>3 DEF DiskTruth
<1>8. PayloadsCurrent'
  BY <1>0, <1>2, SameContents DEF Safe, PayloadsCurrent, Built
<1> QED BY <1>0, <1>4, <1>5, <1>6, <1>7, <1>8, ServerStays DEF Safe

(* What ending a handler does apart from the record it writes. *)
LEMMA FinishRest ==
  ASSUME TypeOK, Safe, NEW t, t = cur.req.slot, t \in Slots,
         up, cur # NoApply, cur' = NoApply,
         UNCHANGED <<row, desired, unbumped, caps, up, bound, disk, net>>,
         \A q \in Slots : worker'[q] = worker[q]
                          \/ /\ q = t /\ cur.req.abandoned = 0
                             /\ worker'[q].phase = "answered"
                             /\ worker'[q].answer = Answer,
         \A q \in Slots : /\ worker'[q].version = worker[q].version
                          /\ worker'[q].snap = worker[q].snap
                          /\ worker'[q].dropped = worker[q].dropped
                          /\ worker'[q].events = worker[q].events,
         Answer.failures = cur.failed,
         cur.failed = {} => Answer.version = cur.req.version,
         cur.req.abandoned = 0 => /\ worker[t].phase = "sent"
                                  /\ cur.req.version = worker[t].version
                                  /\ cur.req = RequestOf(t)
                                  /\ cur.req \notin net,
         \/ local' = local
         \/ local'.version = cur.req.version /\ local'.hash = cur.req.snap,
         DiskTruth'
  PROVE  Safe'
<1>1. CursorsOrdered'
  BY DEF Safe, CursorsOrdered
<1>2. VersionsIssued'
  BY DEF Safe, VersionsIssued
<1>3. AnswersHonest'
  BY DEF Safe, AnswersHonest
<1>4. StoppedIsEmpty' /\ ApplyShape'
  BY DEF StoppedIsEmpty, ApplyShape
<1>5. Linked'
  <2>1. ASSUME NEW r \in net, r.abandoned = 0
        PROVE  worker'[r.slot] = worker[r.slot]
    BY <2>1, VersionTypes DEF Safe, Linked
  <2> QED BY <2>1 DEF Safe, Linked, RequestOf
<1>6. PayloadsCurrent'
  BY SameContents DEF Safe, PayloadsCurrent, Built
<1>7. GapRecorded'
  BY DEF Safe, GapRecorded, IsSettled, DroppedKinds, Advertised
<1> QED BY <1>1, <1>2, <1>3, <1>4, <1>5, <1>6, <1>7 DEF Safe

(* The handler ends: a clean dispatch has reached every bound kind, so    *)
(* the record it writes is true of the disk.                              *)
LEMMA FinishSafe ==
  ASSUME TypeOK, Safe, Finish PROVE Safe'
<1> DEFINE t == cur.req.slot
<1>0. /\ up /\ cur # NoApply /\ cur.phase = "events" /\ cur' = NoApply
      /\ local' = IF cur.mode = "stale" \/ cur.failed # {} THEN local
                  ELSE [version |-> cur.req.version, hash |-> cur.req.snap]
      /\ torn' = (torn /\ ~(cur.mode = "dispatch" /\ cur.failed = {}))
      /\ UNCHANGED <<row, desired, unbumped, caps, up, bound, disk, net>>
  BY DEF Finish, FinishApply, ReadyToAnswer
<1>1. cur \in Applies /\ t \in Slots /\ cur.req.version \in Nat
      /\ cur.mode \in {"stale", "dispatch", "skip"}
  BY <1>0, VersionTypes, ApplyFields
<1>2. /\ \A q \in Slots : worker'[q] = worker[q]
                          \/ /\ q = t /\ cur.req.abandoned = 0
                             /\ worker'[q].phase = "answered"
                             /\ worker'[q].answer = Answer
      /\ \A q \in Slots : /\ worker'[q].version = worker[q].version
                          /\ worker'[q].snap = worker[q].snap
                          /\ worker'[q].dropped = worker[q].dropped
                          /\ worker'[q].events = worker[q].events
  <2>1. CASE cur.req.abandoned = 0
    <3> DEFINE w == [worker[t] EXCEPT !.phase = "answered", !.answer = Answer]
    <3>1. worker' = [worker EXCEPT ![t] = w]
      BY <2>1 DEF Finish
    <3>2. /\ w.phase = "answered" /\ w.answer = Answer
          /\ w.version = worker[t].version /\ w.snap = worker[t].snap
          /\ w.dropped = worker[t].dropped /\ w.events = worker[t].events
      BY <1>1, VersionTypes DEF Workers
    <3> HIDE DEF w
    <3>3. worker'[t] = w /\ \A q \in Slots : q # t => worker'[q] = worker[q]
      BY <1>1, <3>1 DEF TypeOK
    <3> QED BY <2>1, <3>2, <3>3
  <2>2. CASE cur.req.abandoned # 0
    BY <2>2 DEF Finish
  <2> QED BY <2>1, <2>2
<1>3. Answer.failures = cur.failed
      /\ (cur.failed = {} => Answer.version = cur.req.version)
  BY DEF Answer
<1>4. cur.req.abandoned = 0 => /\ worker[t].phase = "sent"
                               /\ cur.req.version = worker[t].version
                               /\ cur.req = RequestOf(t)
                               /\ cur.req \notin net
  BY <1>0 DEF Safe, Linked, RequestOf
<1>5. CASE cur.mode = "stale" \/ cur.failed # {}
  <2>1. local' = local /\ torn' = torn
    <3>1. cur.mode = "stale" => ~(cur.mode = "dispatch" /\ cur.failed = {})
      BY <1>1
    <3>2. torn \in BOOLEAN
      BY DEF TypeOK
    <3> QED BY <1>0, <1>5, <3>1, <3>2
  <2>2. DiskTruth'
    BY <1>0, <2>1 DEF Safe, DiskTruth
  <2> QED BY <1>0, <1>1, <1>2, <1>3, <1>4, <2>1, <2>2, FinishRest
<1>6. CASE cur.mode # "stale" /\ cur.failed = {}
  <2>1. local'.version = cur.req.version /\ local'.hash = cur.req.snap
    BY <1>0, <1>6
  <2>2. DiskTruth'
    <3>1. CASE cur.mode = "dispatch"
      BY <1>0, <1>6, <2>1, <3>1 DEF Safe, ApplyShape, DiskTruth
    <3>2. CASE cur.mode = "skip"
      BY <1>0, <2>1, <3>2 DEF Safe, ApplyShape, DiskTruth
    <3> QED BY <1>1, <1>6, <3>1, <3>2
  <2> QED BY <1>0, <1>1, <1>2, <1>3, <1>4, <2>1, <2>2, FinishRest
<1> QED BY <1>5, <1>6

(* A rejected apply: its worker stops waiting, and nothing is recorded. *)
LEMMA RejectSafe ==
  ASSUME TypeOK, Safe, ApplyRejects PROVE Safe'
<1> DEFINE t == cur.req.slot
<1>0. /\ up /\ cur # NoApply /\ cur' = NoApply /\ t \in Slots
      /\ UNCHANGED <<row, desired, unbumped, caps, up, bound, local, disk, net,
                     torn>>
  BY VersionTypes DEF ApplyRejects, AbortApply
<1>1. \A q \in Slots : \/ worker'[q] = worker[q]
                       \/ /\ q = t /\ cur.req.abandoned = 0
                          /\ worker'[q].phase = "idle"
                          /\ worker'[q].version = 0
  <2>1. CASE cur.req.abandoned = 0
    <3>1. worker' = [worker EXCEPT ![t] = Idle]
      BY <2>1 DEF ApplyRejects, AttemptFails, WorkerStops
    <3> QED BY <1>0, <2>1, <3>1 DEF TypeOK, Idle
  <2>2. CASE cur.req.abandoned # 0
    BY <2>2 DEF ApplyRejects
  <2> QED BY <2>1, <2>2
<1>2. CursorsOrdered' /\ VersionsIssued' /\ AnswersHonest'
  BY <1>0, <1>1, VersionTypes
     DEF Safe, CursorsOrdered, VersionsIssued, AnswersHonest
<1>3. Linked'
  <2>1. ASSUME NEW r \in net, r.abandoned = 0
        PROVE  worker'[r.slot] = worker[r.slot]
    BY <1>0, <1>1, <2>1, VersionTypes DEF Safe, Linked
  <2> QED BY <1>0, <2>1 DEF Safe, Linked, RequestOf
<1>4. StoppedIsEmpty' /\ ApplyShape' /\ DiskTruth'
  BY <1>0 DEF Safe, StoppedIsEmpty, ApplyShape, DiskTruth
<1>5. PayloadsCurrent'
  BY <1>0, <1>1, SameContents DEF Safe, PayloadsCurrent, Built
<1>6. GapRecorded'
  BY <1>0 DEF Safe, GapRecorded, IsSettled, DroppedKinds, Advertised
<1> QED BY <1>2, <1>3, <1>4, <1>5, <1>6 DEF Safe

(* A stop: no request survives it, and what was under way stays torn. *)
LEMMA StopSafe ==
  ASSUME TypeOK, Safe, Stop PROVE Safe'
<1>0. /\ net' = {} /\ cur' = NoApply /\ ~up'
      /\ UNCHANGED <<row, desired, unbumped, caps, bound, local, disk, torn>>
  BY DEF Stop, StopMachine
<1>1. \A s \in Slots : \/ worker'[s] = worker[s]
                       \/ worker'[s].phase = "idle" /\ worker'[s].version = 0
  BY DEF Stop, Idle
<1>2. CursorsOrdered' /\ VersionsIssued' /\ AnswersHonest'
  BY <1>0, <1>1, VersionTypes
     DEF Safe, CursorsOrdered, VersionsIssued, AnswersHonest
<1>3. Linked' /\ StoppedIsEmpty' /\ ApplyShape' /\ DiskTruth'
  BY <1>0 DEF Safe, Linked, StoppedIsEmpty, ApplyShape, DiskTruth
<1>4. PayloadsCurrent'
  BY <1>0, <1>1, SameContents DEF Safe, PayloadsCurrent, Built
<1>5. GapRecorded'
  BY <1>0 DEF Safe, GapRecorded, IsSettled, DroppedKinds, Advertised
<1> QED BY <1>2, <1>3, <1>4, <1>5 DEF Safe

(* A boot: other bindings or a lost env file clear the record, so what it *)
(* says of the disk stays true.                                           *)
LEMMA BootSafe ==
  ASSUME TypeOK, Safe, NEW b \in CapSets, NEW m \in BOOLEAN, Boot(b, m)
  PROVE  Safe'
<1>0. /\ ~up /\ up' /\ net = {} /\ cur = NoApply /\ bound' = b
      /\ UNCHANGED <<row, desired, unbumped, caps, worker, net, cur, torn>>
  BY DEF Boot, BootMachine, srvVars, Safe, StoppedIsEmpty
<1>1. \/ local'.version = 0 /\ local'.hash = NoSnap
      \/ local' = local /\ ~Rebound(b) /\ disk' = disk
  <2>1. CASE local.version # 0 /\ (Rebound(b) \/ m)
    BY <2>1 DEF Boot, BootMachine
  <2>2. CASE local.version = 0
    BY <2>2 DEF Boot, BootMachine, Safe, VersionsIssued
  <2>3. CASE local.version # 0 /\ ~(Rebound(b) \/ m)
    BY <2>3 DEF Boot, BootMachine
  <2> QED BY <2>1, <2>2, <2>3
<1>2. CursorsOrdered' /\ VersionsIssued' /\ StoppedIsEmpty'
  BY <1>0, <1>1, VersionTypes DEF Safe, CursorsOrdered, VersionsIssued,
                                  StoppedIsEmpty
<1>3. Linked' /\ ApplyShape'
  BY <1>0 DEF Linked, ApplyShape
<1>4. DiskTruth'
  BY <1>0, <1>1 DEF Safe, DiskTruth, Rebound
<1>5. PayloadsCurrent'
  BY <1>0, <1>1, SameContents DEF Safe, PayloadsCurrent, Built
<1> QED BY <1>0, <1>2, <1>3, <1>4, <1>5, ServerStays DEF Safe

(* The invariant is inductive. *)
LEMMA SafeStep ==
  TypeOK /\ HandlerActive /\ Safe /\ [Next]_vars => Safe'
<1> SUFFICES ASSUME TypeOK, HandlerActive, Safe, [Next]_vars PROVE Safe'
  OBVIOUS
<1>1. StepKind
  BY StepKinds
<1> QED BY <1>1, BumpSafe, SilentSafe, CapsSafe, EventSafe, EndSafe, TakeSafe,
           ReadCapsSafe, BuildSafe, SendSafe, RecordSafe, LoseSafe,
           ReceiveSafe, DriverSafe, FinishSafe, RejectSafe, StopSafe, BootSafe,
           UnchangedSafe
        DEF StepKind

IInv == TypeOK /\ HandlerActive /\ Safe

(* The inductive invariant holds in every reachable state. *)
THEOREM Invariance == Spec => []IInv
<1>1. Init => IInv
  <2>1. Init => HandlerActive
    BY DEF Init, HandlerActive, Idle
  <2> QED BY <2>1, InitType, InitSafe DEF IInv
<1>2. IInv /\ [Next]_vars => IInv'
  BY TypeStep, HandlerStep, SafeStep DEF IInv
<1> QED BY <1>1, <1>2, PTL DEF Spec

(* No cursor runs ahead of what it follows, whatever deliveries race: the *)
(* outbox row, the runtime-state file and the requests in flight.         *)
THEOREM CursorsAreOrdered == Spec => []CursorsOrdered
<1>1. IInv => CursorsOrdered
  BY DEF IInv, Safe
<1> QED BY <1>1, Invariance, PTL

(* The recorded capability gap is the current one whenever the current    *)
(* version is answered and every edit has been bumped.                    *)
THEOREM GapIsRecorded == Spec => []GapRecorded
<1>1. IInv => GapRecorded
  BY DEF IInv, Safe
<1> QED BY <1>1, Invariance, PTL

(* An agent that reports the desired version has the desired contents on  *)
(* its disk, unless an edit was not bumped or the last dispatch was torn. *)
THEOREM AppliedIsOnTheDisk == Spec => []AppliedIsOnDisk
<1>1. IInv => AppliedIsOnDisk
  <2> SUFFICES ASSUME IInv, CaughtUp, ~unbumped, ~torn,
                      NEW k \in Kinds, k \in caps \cap bound
               PROVE  disk[k] = desired[k]
    BY DEF AppliedIsOnDisk, DiskHolds
  <2>1. local.hash = WantedState
    BY DEF IInv, Safe, PayloadsCurrent, CaughtUp
  <2>2. WantedState \in Snapshots
    BY BuildFacts DEF IInv, TypeOK, WantedState
  <2>3. local.hash # NoSnap
    BY <2>1, <2>2, ContentAssumption
  <2>4. disk[k] = WantedState[k]
    BY <2>1, <2>3 DEF IInv, Safe, DiskTruth
  <2>5. WantedState[k] = desired[k]
    BY DEF CaughtUp, WantedState, BuildState, Advertised
  <2> QED BY <2>4, <2>5
<1> QED BY <1>1, Invariance, PTL

(* No answer, however late, moves a cursor of the outbox back, and the    *)
(* agent's own moves back only in a boot that forgets it.                 *)
THEOREM CursorsAreMonotone == Spec => CursorsMonotone
<1> DEFINE Forward ==
      /\ row'.version >= row.version
      /\ row'.settled >= row.settled
      /\ row'.applied >= row.applied
      /\ local'.version < local.version => ~up /\ local'.version = 0
<1>1. IInv /\ [Next]_vars => [Forward]_vars
  <2> SUFFICES ASSUME IInv, [Next]_vars PROVE Forward
    OBVIOUS
  <2>0. TypeOK /\ HandlerActive /\ Safe
    BY DEF IInv
  <2>1. StepKind
    BY <2>0, StepKinds
  <2>2. ASSUME UNCHANGED row, UNCHANGED local
        PROVE  Forward
    BY <2>0, <2>2, VersionTypes
  <2>3. ASSUME BumpStep
        PROVE  Forward
    BY <2>0, <2>3, VersionTypes DEF BumpStep
  <2>4. ASSUME NEW s \in Slots, RecordAnswer(s)
        PROVE  Forward
    <3>1. /\ row'.version = row.version
          /\ \/ row' = row
             \/ /\ row.settled <= worker[s].version
                /\ row'.settled = worker[s].version
                /\ \/ row'.applied = row.applied
                   \/ /\ worker[s].answer.failures = {}
                      /\ row'.applied = worker[s].answer.version
      BY <2>0, <2>4, OutcomeFacts
    <3>2. worker[s].answer.failures = {}
            => worker[s].answer.version = worker[s].version
      BY <2>0, <2>4 DEF RecordAnswer, Safe, AnswersHonest
    <3>3. UNCHANGED local
      BY <2>4 DEF RecordAnswer, chanVars
    <3> QED BY <2>0, <3>1, <3>2, <3>3, VersionTypes DEF Safe, CursorsOrdered
  <2>5. ASSUME Finish
        PROVE  Forward
    <3>1. UNCHANGED row /\ cur # NoApply
          /\ \/ local' = local
             \/ cur.mode # "stale" /\ local'.version = cur.req.version
      BY <2>5 DEF Finish, FinishApply, ReadyToAnswer
    <3> QED BY <2>0, <3>1, VersionTypes DEF Safe, ApplyShape
  <2>6. ASSUME NEW b \in CapSets, NEW m \in BOOLEAN, Boot(b, m)
        PROVE  Forward
    <3>1. UNCHANGED row /\ ~up /\ (local' = local \/ local'.version = 0)
      BY <2>6 DEF Boot, BootMachine, srvVars
    <3> QED BY <2>0, <3>1, VersionTypes
  <2>7. \/ BumpStep \/ Finish
        \/ \E s \in Slots : RecordAnswer(s)
        \/ \E b \in CapSets, m \in BOOLEAN : Boot(b, m)
        \/ UNCHANGED row /\ UNCHANGED local
    BY <2>1, ZenonT(60) DEF StepKind, SilentEdit, CapsStep, EventStep, EndStep, TakeJob,
       ReadCaps, BuildPayload, SendApply, LoseAttempt, Receive, ReceiveApply,
       DriverOk, RunDriver, DriverThrows, DriverFails, ApplyRejects,
       AbortApply, Stop, StopMachine,
       safeVars, srvVars, chanVars
  <2> QED BY <2>2, <2>3, <2>4, <2>5, <2>6, <2>7
<1> QED BY <1>1, Invariance, PTL DEF Spec, CursorsMonotone
=============================================================================
