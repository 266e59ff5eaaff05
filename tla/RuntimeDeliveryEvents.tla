------------------------ MODULE RuntimeDeliveryEvents -----------------------
(***************************************************************************)
(* The safety of the events, proved for every set of events, keys, fire    *)
(* times and kinds and for every budget of disturbances: a directive's     *)
(* work is repeated only when its run was not recorded, an older one never *)
(* follows a newer one of its key, none overtakes a workspace mutation     *)
(* that is still retried, mutations are charged only for attempts that     *)
(* were made, a settled row stands for work that was done, and a hello     *)
(* leaves no drift behind.                                                 *)
(***************************************************************************)
EXTENDS RuntimeDeliverySafety

(* A row is as it was inserted until it is, and no row is from a version  *)
(* that was not issued.                                                   *)
RowsIssued ==
  \A e \in Events : /\ evts[e].version <= row.version
                    /\ evts[e].st = "absent" => evts[e] = NoEventRow

Waiting(m) == evts[m].st = "pending" /\ ~evts[m].expired

(* The set of events that somebody holds to be delivered or run. *)
Carried(E) ==
  \/ \E s \in Slots : Built(s) /\ worker[s].events = E
  \/ \E r \in net : r.events = E
  \/ cur # NoApply /\ cur.req.events = E

(* A payload leaves out no workspace mutation that waits and is older     *)
(* than something in it.                                                  *)
Complete(E) ==
  \A e \in E :
    /\ evts[e].st # "absent"
    /\ \A m \in Events :
         IsWorkspaceMutation(m) /\ Waiting(m) /\ evts[m].version < evts[e].version
           => m \in E

PayloadsComplete == \A E \in SUBSET Events : Carried(E) => Complete(E)

Runs(e) == cur # NoApply /\ cur.running = e

(* The books of the runs: work that was done and is not on record was     *)
(* lost, or is being recorded.                                            *)
Owed(e) == AlreadyRun(e) \/ (Runs(e) /\ EvKind[e] \in bound)

RunsBooked ==
  \A e \in Events :
    /\ effects[e] <= lostRuns[e] + (IF Owed(e) THEN 1 ELSE 0)
    /\ lostRuns[e] <= effects[e]
    /\ Runs(e) => ~AlreadyRun(e) /\ (EvKind[e] \in bound => lostRuns[e] < effects[e])

(* The loop has gone past a workspace mutation only if it ran, had        *)
(* expired, or stopped there.                                             *)
LoopInOrder ==
  cur # NoApply =>
    /\ cur.evtodo \subseteq cur.req.events
    /\ \A e \in cur.late : evts[e].expired
    /\ cur.running # NoEvent => cur.running \in cur.evtodo
    /\ \A m \in cur.req.events \ cur.evtodo :
         IsWorkspaceMutation(m) =>
           cur.evtodo = {} \/ AlreadyRun(m) \/ evts[m].expired

(* What a hello reports is a version the outbox has issued. *)
HelloSane ==
  /\ local.version > 0 => local.hash # NoSnap
  /\ hello.version <= row.version
  /\ hello.version > 0 => hello.hash # NoSnap
  /\ hello.bumped # 0 => hello.version < hello.bumped /\ hello.bumped <= row.version

EventsSafe == /\ RowsIssued /\ PayloadsComplete /\ RunsBooked /\ LoopInOrder
              /\ ChargedOnlyWhenTried /\ HelloSane

---------------------------------------------------------------------------
(* The types the arguments below need *)
LEMMA EventTypes ==
  ASSUME TypeOK, NEW e \in Events
  PROVE  /\ evts[e] \in EventRows /\ evts[e].version \in Nat /\ evts[e].attempts \in Nat
         /\ effects[e] \in Nat /\ lostRuns[e] \in Nat
         /\ EvTs[e] \in Nat /\ EvTs[e] > 0 /\ EvKey[e] \in Keys /\ runs[EvKey[e]] \in Nat
         /\ e # NoEvent
<1>1. evts[e] \in EventRows
  BY DEF TypeOK
<1>2. evts[e].version \in Nat /\ evts[e].attempts \in Nat
  BY <1>1, Zenon DEF EventRows
<1>3. EvKey[e] \in Keys
  BY DEF Keys
<1>4. runs[EvKey[e]] \in Nat /\ effects[e] \in Nat /\ lostRuns[e] \in Nat
  BY <1>3 DEF TypeOK
<1>5. EvTs[e] \in Nat /\ EvTs[e] > 0
  BY EventAssumption
<1> QED BY <1>1, <1>2, <1>3, <1>4, <1>5, ChannelAssumption

(* A row that is there stays there, keeps its version, and does not start *)
(* to wait again.                                                         *)
Follows(a, b) ==
  /\ a.st = "absent" => b = a
  /\ a.st # "absent" => b.st # "absent"
  /\ b.version = a.version
  /\ a.expired => b.expired
  /\ b.st = "pending" => a.st = "pending"

(* A row that stands for work that was done *)
StampedDone(a) == a.st = "dispatched" /\ a.error = "none"

FollowsQuietly(a, b) ==
  Follows(a, b) /\ b.attempts = a.attempts /\ (StampedDone(b) => StampedDone(a))

Posted(e) ==
  /\ evts[e].st = "absent" /\ evts'[e].version = row.version + 1
  /\ evts'[e].st = "pending" /\ evts'[e].attempts = 0
  /\ row'.version = row.version + 1

EventsMove == \A e \in Events : Follows(evts[e], evts'[e]) \/ Posted(e)
EventsMoveQuietly ==
  \A e \in Events : FollowsQuietly(evts[e], evts'[e]) \/ Posted(e)

LEMMA RowStays ==
  ASSUME NEW a \in EventRows
  PROVE  FollowsQuietly(a, a)
BY DEF FollowsQuietly, Follows

LEMMA StampFollows ==
  ASSUME NEW a \in EventRows, a.st = "pending", NEW x, x # "none"
  PROVE  FollowsQuietly(a, [a EXCEPT !.st = "dispatched", !.error = x])
BY Zenon DEF FollowsQuietly, Follows, StampedDone, EventRows

LEMMA DeleteFollows ==
  ASSUME NEW a \in EventRows, a.st = "pending"
  PROVE  FollowsQuietly(a, [a EXCEPT !.st = "deleted"])
BY Zenon DEF FollowsQuietly, Follows, StampedDone, EventRows

LEMMA ExpireFollows ==
  ASSUME NEW a \in EventRows, a.st = "pending"
  PROVE  FollowsQuietly(a, [a EXCEPT !.expired = TRUE])
BY Zenon DEF FollowsQuietly, Follows, StampedDone, EventRows

LEMMA ReportFollows ==
  ASSUME NEW a \in EventRows, a.st \in {"pending", "dispatched"}
  PROVE  FollowsQuietly(a, [a EXCEPT !.error = "reported", !.reported = TRUE])
BY Zenon DEF FollowsQuietly, Follows, StampedDone, EventRows

LEMMA SettleFollows ==
  ASSUME NEW a \in EventRows, NEW e \in Events
  PROVE  /\ Follows(a, SettleEvent(a, e)) /\ SettleEvent(a, e).attempts = a.attempts
         /\ SettleEvent(a, e).st # "pending"
BY Zenon DEF Follows, EventRows, SettleEvent

LEMMA ChargeFollows ==
  ASSUME NEW a \in EventRows, NEW e \in Events
  PROVE  /\ Follows(a, ChargeEvent(a, e))
         /\ ChargeEvent(a, e).attempts = a.attempts \/ IsWorkspaceMutation(e)
         /\ ChargeEvent(a, e).error = "none" => a.error = "none"
         /\ ChargeEvent(a, e).st = "dispatched" /\ ChargeEvent(a, e).error = "none"
              => a.st = "dispatched"
<1>1. CASE ~IsWorkspaceMutation(e) \/ a.st # "pending"
  BY <1>1, RowStays DEF ChargeEvent, FollowsQuietly
<1>2. CASE IsWorkspaceMutation(e) /\ a.st = "pending"
  <2>0. a.attempts \in Nat
    BY Zenon DEF EventRows
  <2>1. PICK n \in Nat : n = a.attempts + 1
    BY <2>0
  <2>2. PICK c \in EventRows : c = [a EXCEPT !.attempts = n]
    BY Zenon DEF EventRows
  <2>3. c.st = "pending" /\ c.version = a.version /\ (c.expired <=> a.expired)
        /\ c.error = a.error
    BY <1>2, <2>2, Zenon DEF EventRows
  <2>4. PICK d : d = [c EXCEPT !.st = "dispatched", !.error = "gave up"]
    OBVIOUS
  <2>5. d.st = "dispatched" /\ d.version = a.version /\ (d.expired <=> a.expired)
        /\ d.error = "gave up"
    BY <2>2, <2>3, <2>4, Zenon DEF EventRows
  <2>6. ChargeEvent(a, e) = c \/ ChargeEvent(a, e) = d
    BY <1>2, <2>1, <2>2, <2>4 DEF ChargeEvent
  <2> QED
    BY <1>2, <2>3, <2>5, <2>6, ZenonT(60) DEF Follows
<1> QED BY <1>1, <1>2

---------------------------------------------------------------------------
(* What the steps do to the rows of the events *)

LEMMA QuietMoves == EventsMoveQuietly => EventsMove
BY DEF EventsMoveQuietly, EventsMove, FollowsQuietly

LEMMA SameEvents ==
  ASSUME TypeOK, evts' = evts
  PROVE  EventsMoveQuietly
BY EventTypes, RowStays DEF EventsMoveQuietly

LEMMA StampMoves ==
  ASSUME NEW ev \in [Events -> EventRows], NEW S \in SUBSET Undispatched(ev), NEW x, x # "none",
         NEW e \in Events
  PROVE  FollowsQuietly(ev[e], StampWithError(ev, S, x)[e])
<1>1. ev[e] \in EventRows
  OBVIOUS
<1>2. CASE e \in S
  <2>1. ev[e].st = "pending"
    BY <1>2 DEF Undispatched
  <2>2. StampWithError(ev, S, x)[e] = [ev[e] EXCEPT !.st = "dispatched", !.error = x]
    BY <1>2 DEF StampWithError
  <2>3. FollowsQuietly(ev[e], [ev[e] EXCEPT !.st = "dispatched", !.error = x])
    BY <1>1, <2>1, StampFollows, Zenon
  <2> QED BY <2>2, <2>3, Zenon
<1>3. CASE e \notin S
  <2>1. StampWithError(ev, S, x)[e] = ev[e]
    BY <1>3 DEF StampWithError
  <2> QED BY <1>1, <2>1, RowStays
<1> QED BY <1>2, <1>3

LEMMA PostMoves ==
  ASSUME TypeOK, NEW e \in Events, PostEvent(e)
  PROVE  EventsMoveQuietly
<1>0. evts \in [Events -> EventRows] /\ row \in Rows /\ row.version \in Nat
  BY RowFields DEF TypeOK
<1>1. row'.version = row.version + 1
  BY <1>0, BumpFacts DEF PostEvent
<1>2. PICK ev : ev = IF EvKind[e] = "session-defaults"
                     THEN SupersedePending(evts, "session-defaults") ELSE evts
  OBVIOUS
<1>3. \A f \in Events : FollowsQuietly(evts[f], ev[f])
  <2>1. CASE ev = evts
    BY <1>0, <2>1, RowStays
  <2>2. CASE ev = SupersedePending(evts, "session-defaults")
    <3>1. PICK S : S = {f \in Undispatched(evts) : EvKind[f] = "session-defaults"}
      OBVIOUS
    <3>2. S \in SUBSET Undispatched(evts) /\ ev = StampWithError(evts, S, "superseded")
      BY <2>2, <3>1 DEF SupersedePending
    <3> QED BY <1>0, <3>2, StampMoves
  <2> QED BY <1>2, <2>1, <2>2
<1>4. ev \in [Events -> EventRows]
  BY <1>0, <1>2, StampType DEF SupersedePending
<1>5. evts' = InsertEvent(ev, e, row.version + 1) /\ evts[e].st = "absent"
  BY <1>2 DEF PostEvent
<1>6. PICK p : p = [NoEventRow EXCEPT !.st = "pending", !.version = row.version + 1]
  OBVIOUS
<1>7. p.st = "pending" /\ p.version = row.version + 1 /\ p.attempts = 0
  BY <1>6 DEF NoEventRow
<1>8. \A f \in Events : evts'[f] = IF f = e THEN p ELSE ev[f]
  BY <1>4, <1>5, <1>6 DEF InsertEvent
<1> QED BY <1>1, <1>3, <1>5, <1>7, <1>8 DEF EventsMoveQuietly, Posted

LEMMA ExpireMoves ==
  ASSUME TypeOK, NEW e \in Events, EventExpires(e)
  PROVE  EventsMoveQuietly
<1>0. evts \in [Events -> EventRows]
  BY DEF TypeOK
<1>1. PICK p : p = [evts[e] EXCEPT !.expired = TRUE]
  OBVIOUS
<1>2. FollowsQuietly(evts[e], p)
  BY <1>0, <1>1, ExpireFollows DEF EventExpires
<1>3. \A f \in Events : evts'[f] = IF f = e THEN p ELSE evts[f]
  BY <1>0, <1>1 DEF EventExpires
<1>4. \A f \in Events : FollowsQuietly(evts[f], evts[f])
  BY <1>0, RowStays
<1> QED BY <1>2, <1>3, <1>4 DEF EventsMoveQuietly

LEMMA BuildMoves ==
  ASSUME TypeOK, NEW s \in Slots, BuildPayload(s)
  PROVE  EventsMoveQuietly
<1>0. evts \in [Events -> EventRows]
  BY DEF TypeOK
<1>1. PICK K : evts' = MarkEventsUndeliverable(evts, K)
  BY DEF BuildPayload
<1>2. PICK S : S = {e \in Undispatched(evts) : EvKind[e] \in K}
  OBVIOUS
<1>3. S \in SUBSET Undispatched(evts) /\ evts' = StampWithError(evts, S, "undeliverable")
  BY <1>1, <1>2 DEF MarkEventsUndeliverable
<1> QED BY <1>0, <1>3, StampMoves DEF EventsMoveQuietly

LEMMA SweepMoves ==
  ASSUME TypeOK, evts' = DeleteExpiredEvents(evts)
  PROVE  EventsMoveQuietly
<1>0. evts \in [Events -> EventRows]
  BY DEF TypeOK
<1> SUFFICES ASSUME NEW e \in Events PROVE FollowsQuietly(evts[e], evts'[e])
  BY DEF EventsMoveQuietly
<1>1. CASE evts[e].st = "pending" /\ evts[e].expired
  <2>1. evts'[e] = [evts[e] EXCEPT !.st = "deleted"]
    BY <1>1 DEF DeleteExpiredEvents
  <2> QED BY <1>0, <1>1, <2>1, DeleteFollows
<1>2. CASE ~(evts[e].st = "pending" /\ evts[e].expired)
  <2>1. evts'[e] = evts[e]
    BY <1>2 DEF DeleteExpiredEvents
  <2> QED BY <1>0, <2>1, RowStays
<1> QED BY <1>1, <1>2

LEMMA ReportMoves ==
  ASSUME TypeOK, NEW e \in Events, evts' = ClaimEventReport(evts, e)
  PROVE  EventsMoveQuietly
<1>0. evts \in [Events -> EventRows]
  BY DEF TypeOK
<1>1. CASE evts[e].st \in {"pending", "dispatched"} /\ ~evts[e].reported
  <2>1. PICK p : p = [evts[e] EXCEPT !.error = "reported", !.reported = TRUE]
    OBVIOUS
  <2>2. FollowsQuietly(evts[e], p)
    BY <1>0, <1>1, <2>1, ReportFollows, Zenon
  <2>3. evts' = [evts EXCEPT ![e] = p]
    BY <1>0, <1>1, <2>1 DEF ClaimEventReport
  <2>4. \A f \in Events : evts'[f] = IF f = e THEN p ELSE evts[f]
    BY <1>0, <2>3
  <2>5. \A f \in Events : FollowsQuietly(evts[f], evts[f])
    BY <1>0, RowStays
  <2> QED BY <2>2, <2>4, <2>5 DEF EventsMoveQuietly
<1>2. CASE ~(evts[e].st \in {"pending", "dispatched"} /\ ~evts[e].reported)
  BY <1>2, SameEvents DEF ClaimEventReport
<1> QED BY <1>1, <1>2

(* recordOutcome, per event *)
LEMMA RecordMoves ==
  ASSUME TypeOK, NEW s \in Slots, RecordAnswer(s)
  PROVE  \A e \in Events :
           /\ Follows(evts[e], evts'[e])
           /\ e \in worker[s].answer.events =>
                evts'[e].st # "pending" \/ (evts'[e] = evts[e] /\ row.version = 0)
           /\ \/ evts'[e].attempts = evts[e].attempts
              \/ /\ e \in AttemptedEvents(worker[s].events, worker[s].answer.events)
                 /\ IsWorkspaceMutation(e) /\ row.version # 0
           /\ e \notin worker[s].answer.events /\ StampedDone(evts'[e]) => StampedDone(evts[e])
<1>0. evts \in [Events -> EventRows]
  BY DEF TypeOK
<1>1. PICK ans, att : /\ ans = worker[s].answer.events
                      /\ att = AttemptedEvents(worker[s].events, worker[s].answer.events)
  OBVIOUS
<1>2. PICK res : res = [version |-> worker[s].answer.version, hash |-> worker[s].answer.hash,
                 failures |-> worker[s].answer.failures, events |-> ans,
                 attempted |-> att, dropped |-> worker[s].dropped]
  OBVIOUS
<1>3. evts' = RecordEvents(evts, row, res)
  BY <1>1, <1>2 DEF RecordAnswer
<1>4. res.events = ans /\ res.attempted = att
  BY <1>2
<1> SUFFICES ASSUME NEW e \in Events
             PROVE  /\ Follows(evts[e], evts'[e])
                    /\ e \in ans =>
                         evts'[e].st # "pending" \/ (evts'[e] = evts[e] /\ row.version = 0)
                    /\ \/ evts'[e].attempts = evts[e].attempts
                       \/ e \in att /\ IsWorkspaceMutation(e) /\ row.version # 0
                    /\ e \notin ans /\ StampedDone(evts'[e]) => StampedDone(evts[e])
  BY <1>1
<1>5. FollowsQuietly(evts[e], evts[e])
  BY <1>0, RowStays
<1>6. CASE row.version = 0 \/ (e \notin ans /\ e \notin att)
  <2>1. evts'[e] = evts[e]
    BY <1>3, <1>4, <1>6 DEF RecordEvents
  <2> QED BY <1>5, <1>6, <2>1 DEF FollowsQuietly
<1>7. CASE row.version # 0 /\ e \in ans
  <2>1. evts'[e] = SettleEvent(evts[e], e)
    BY <1>3, <1>4, <1>7 DEF RecordEvents
  <2>2. /\ Follows(evts[e], evts'[e]) /\ evts'[e].attempts = evts[e].attempts
        /\ evts'[e].st # "pending"
    BY <1>0, <2>1, SettleFollows
  <2> QED BY <1>7, <2>2, Zenon
<1>8. CASE row.version # 0 /\ e \notin ans /\ e \in att
  <2>1. evts'[e] = ChargeEvent(evts[e], e)
    BY <1>3, <1>4, <1>8 DEF RecordEvents
  <2> QED BY <1>0, <1>8, <2>1, ChargeFollows DEF StampedDone
<1> QED BY <1>6, <1>7, <1>8

Records == \E s \in Slots : RecordAnswer(s)

(* The steps that write rows of events *)
Throws(e) == \E m \in BOOLEAN : EventThrows(e, m) \/ RecordThrows(e, m)

LEMMA RowEditors ==
  ASSUME [Next]_vars
  PROVE  \/ evts' = evts
         \/ \E e \in Events : PostEvent(e) \/ EventExpires(e) \/ Throws(e)
         \/ \E s \in Slots : BuildPayload(s)
         \/ \E seen \in {"running", "stopped", "unknown"} : Sweep(seen)
         \/ Records
<1> USE DEF vars, srvVars
<1>1. ASSUME NEW s \in Slots, RecordOutcome(s) \/ RecordThenFails(s)
      PROVE  Records
  BY <1>1 DEF RecordOutcome, RecordThenFails, Records
<1>2. ASSUME NEW k \in Kinds, NEW v \in Values, EditContributions(k, v) \/ EditWithoutBump(k, v)
      PROVE  evts' = evts
  BY <1>2 DEF EditContributions, EditWithoutBump
<1>3. LateBump => evts' = evts
  BY DEF LateBump
<1>4. ASSUME NEW s \in Slots,
             \/ TakeJob(s) \/ DeferToReady(s) \/ DeferToHello(s) \/ ReadCaps(s) \/ SendApply(s)
             \/ SendFails(s)
      PROVE  evts' = evts
  BY <1>4 DEF TakeJob, DeferToReady, DeferToHello, ReadCaps, SendApply, SendFails
<1>5. ASSUME \/ BecomeReady \/ HelloStep \/ UNCHANGED vars
             \/ \E b \in CapSets, m \in BOOLEAN : Boot(b, m)
      PROVE  evts' = evts
  BY <1>5 DEF BecomeReady, HelloStep, HelloSend, HelloUpsert, HelloCheck, Boot
<1>6. AgentStep => evts' = evts
  BY DEF AgentStep, Receive, DriverOk, StartEvents, EventSkipped, EventInvoked,
         EventRecorded, Finish
<1>7. ASSUME \/ \E s \in Slots : LoseAttempt(s) \/ LoseJob(s)
             \/ GatewayRolls \/ HelloFails \/ \E k \in Kinds : DriverThrows(k)
             \/ ApplyRejects \/ Stop
      PROVE  evts' = evts
  BY <1>7 DEF LoseAttempt, LoseJob, GatewayRolls, HelloFails, DriverThrows, ApplyRejects, Stop
<1> HIDE DEF vars, srvVars
<1>8. CASE DomainNext
  BY <1>2, <1>3, <1>8 DEF DomainNext
<1>9. ASSUME NEW s \in Slots, WorkerStep(s)
      PROVE  evts' = evts \/ BuildPayload(s) \/ Records
  BY <1>1, <1>4, <1>9 DEF WorkerStep
<1>10. CASE FaultNext
  BY <1>1, <1>7, <1>10 DEF FaultNext, Throws
<1> QED BY <1>5, <1>6, <1>8, <1>9, <1>10 DEF Next

(* Only a recorded answer charges attempts. *)
LEMMA EventRowsStep ==
  ASSUME TypeOK, [Next]_vars
  PROVE  EventsMoveQuietly \/ Records
<1>1. ASSUME NEW e \in Events, Throws(e)
      PROVE  EventsMoveQuietly
  <2>1. evts' = evts \/ evts' = ClaimEventReport(evts, e)
    BY <1>1 DEF Throws, EventThrows, RecordThrows
  <2> QED BY <2>1, SameEvents, ReportMoves
<1>2. ASSUME NEW seen, Sweep(seen)
      PROVE  EventsMoveQuietly
  BY <1>2, SweepMoves DEF Sweep
<1> QED BY <1>1, <1>2, RowEditors, SameEvents, PostMoves, ExpireMoves, BuildMoves

LEMMA EventsStep ==
  ASSUME TypeOK, [Next]_vars
  PROVE  EventsMove
<1>1. ASSUME NEW s \in Slots, RecordAnswer(s)
      PROVE  EventsMove
  BY <1>1, RecordMoves DEF EventsMove
<1> QED BY <1>1, EventRowsStep, QuietMoves DEF Records

(* The desired version is bumped or stays. *)
LEMMA VersionGrows ==
  ASSUME TypeOK, [Next]_vars
  PROVE  row'.version \in {row.version, row.version + 1}
<1>1. StepKind
  BY StepKinds
<1>2. ASSUME NEW s \in Slots, RecordAnswer(s)
      PROVE  row'.version = row.version
  BY <1>2, OutcomeFacts
<1>3. BumpStep \/ Records \/ row' = row
  BY <1>1, ZenonT(60) DEF StepKind, SilentEdit, CapsStep, EventStep, EndStep, TakeJob,
     ReadCaps, BuildPayload, SendApply, LoseAttempt, Receive, ReceiveApply, Records,
     DriverOk, RunDriver, DriverThrows, DriverFails, Finish, FinishApply, ApplyRejects,
     AbortApply, Stop, StopMachine, Boot, safeVars, srvVars, chanVars
<1> QED BY <1>2, <1>3 DEF BumpStep, Records

LEMMA RowsIssuedStep ==
  ASSUME TypeOK, RowsIssued, EventsMove, row'.version \in {row.version, row.version + 1}
  PROVE  RowsIssued'
<1> SUFFICES ASSUME NEW e \in Events
             PROVE  /\ evts'[e].version <= row'.version
                    /\ evts'[e].st = "absent" => evts'[e] = NoEventRow
  BY DEF RowsIssued
<1>0. /\ evts[e].version \in Nat /\ row.version \in Nat /\ evts[e].version <= row.version
      /\ evts[e].st = "absent" => evts[e] = NoEventRow
  BY EventTypes, VersionTypes DEF RowsIssued
<1>1. CASE Follows(evts[e], evts'[e])
  <2>1. evts'[e].version <= row'.version
    BY <1>0, <1>1 DEF Follows
  <2>2. evts'[e].st = "absent" => evts'[e] = evts[e] /\ evts[e].st = "absent"
    BY <1>1 DEF Follows
  <2> QED BY <1>0, <2>1, <2>2
<1>2. CASE Posted(e)
  BY <1>0, <1>2 DEF Posted
<1> QED BY <1>1, <1>2 DEF EventsMove

LEMMA ExpiredStays ==
  ASSUME RowsIssued, EventsMove, NEW e \in Events, evts[e].expired
  PROVE  evts'[e].expired
<1>1. evts[e].st # "absent"
  BY DEF RowsIssued, NoEventRow
<1> QED BY <1>1 DEF EventsMove, Posted, Follows

LEMMA CompleteStays ==
  ASSUME TypeOK, RowsIssued, EventsMove, NEW E \in SUBSET Events, Complete(E)
  PROVE  Complete(E)'
<1> SUFFICES ASSUME NEW e \in E
             PROVE  /\ evts'[e].st # "absent"
                    /\ \A m \in Events :
                         /\ IsWorkspaceMutation(m) /\ evts'[m].st = "pending"
                         /\ ~evts'[m].expired /\ evts'[m].version < evts'[e].version
                         => m \in E
  BY DEF Complete, Waiting
<1>1. /\ evts[e].st # "absent" /\ evts[e].version \in Nat /\ row.version \in Nat
      /\ evts[e].version <= row.version
  BY EventTypes, VersionTypes DEF Complete, RowsIssued
<1>2. Follows(evts[e], evts'[e])
  BY <1>1 DEF EventsMove, Posted
<1>3. evts'[e].st # "absent" /\ evts'[e].version = evts[e].version
  BY <1>1, <1>2 DEF Follows
<1>4. ASSUME NEW m \in Events, IsWorkspaceMutation(m), evts'[m].st = "pending",
             ~evts'[m].expired, evts'[m].version < evts'[e].version
      PROVE  m \in E
  <2>1. ~Posted(m)
    BY <1>1, <1>3, <1>4 DEF Posted
  <2>2. Follows(evts[m], evts'[m])
    BY <2>1 DEF EventsMove
  <2>3. evts[m].st = "pending" /\ ~evts[m].expired /\ evts[m].version = evts'[m].version
    BY <1>4, <2>2 DEF Follows
  <2> QED BY <1>3, <1>4, <2>3 DEF Complete, Waiting
<1> QED BY <1>3, <1>4

---------------------------------------------------------------------------
(* Who carries which events *)

NothingNew == \A E \in SUBSET Events : Carried(E)' => Carried(E)

(* Workers that change change to ones that have built nothing. *)
LEMMA WorkersCarry ==
  ASSUME \A s \in Slots : Built(s)' => Built(s) /\ worker'[s].events = worker[s].events,
         \A r \in net' : r \in net \/ \E s \in Slots : Built(s) /\ worker[s].events = r.events,
         cur' # NoApply => cur # NoApply /\ cur'.req.events = cur.req.events
  PROVE  NothingNew
BY DEF NothingNew, Carried

LEMMA WorkerReplaced ==
  ASSUME TypeOK, NEW s \in Slots, NEW v, worker' = [worker EXCEPT ![s] = v],
         \/ v.phase \notin {"built", "sent", "answered"}
         \/ Built(s) /\ v.events = worker[s].events
  PROVE  \A x \in Slots : Built(x)' => Built(x) /\ worker'[x].events = worker[x].events
<1>1. \A x \in Slots : worker'[x] = IF x = s THEN v ELSE worker[x]
  BY DEF TypeOK
<1> QED BY <1>1 DEF Built

LEMMA LoseCarries ==
  ASSUME TypeOK, NEW s \in Slots, LoseAttempt(s)
  PROVE  NothingNew
<1>1. \A x \in Slots : Built(x)' => Built(x) /\ worker'[x].events = worker[x].events
  <2>1. worker' = [worker EXCEPT ![s] = Idle] /\ Idle.phase = "idle"
    BY DEF LoseAttempt, AttemptFails, WorkerStops, Idle
  <2> QED BY <2>1, WorkerReplaced
<1>2. \A r \in Requests : Abandon(r).events = r.events
  BY DEF Abandon, Requests
<1>3. \A r \in net' : \E q \in net : r.events = q.events
  <2>1. net' = {IF r.slot = s /\ r.abandoned = 0 THEN Abandon(r) ELSE r : r \in net}
    BY DEF LoseAttempt
  <2>2. \A q \in net : q \in Requests
    BY DEF TypeOK
  <2> QED BY <1>2, <2>1, <2>2
<1>4. cur' # NoApply => cur # NoApply /\ cur'.req.events = cur.req.events
  <2>1. CASE cur # NoApply /\ cur.req.slot = s /\ cur.req.abandoned = 0
    <3>1. cur \in Applies /\ cur.req \in Requests
      BY <2>1, VersionTypes
    <3>2. cur' = [cur EXCEPT !.req = Abandon(cur.req)]
      BY <2>1 DEF LoseAttempt
    <3>3. cur'.req = Abandon(cur.req)
      BY <3>1, <3>2 DEF Applies
    <3> QED BY <1>2, <2>1, <3>1, <3>3
  <2>2. CASE ~(cur # NoApply /\ cur.req.slot = s /\ cur.req.abandoned = 0)
    BY <2>2 DEF LoseAttempt
  <2> QED BY <2>1, <2>2
<1> QED BY <1>1, <1>3, <1>4 DEF NothingNew, Carried

LEMMA CarriedStep ==
  ASSUME TypeOK, Safe, StepKind
  PROVE  NothingNew \/ \E s \in Slots : BuildPayload(s)
<1>0. Idle.phase = "idle"
  BY DEF Idle
<1>1. ASSUME UNCHANGED <<worker, net>>,
             cur' # NoApply => cur # NoApply /\ cur'.req.events = cur.req.events
      PROVE  NothingNew
  BY <1>1, WorkersCarry DEF Built
<1>2. ASSUME NEW s \in Slots, NEW v, worker' = [worker EXCEPT ![s] = v],
             \/ v.phase \notin {"built", "sent", "answered"}
             \/ Built(s) /\ v.events = worker[s].events,
             net' = net, cur' # NoApply => cur # NoApply /\ cur'.req.events = cur.req.events
      PROVE  NothingNew
  BY <1>2, WorkerReplaced, WorkersCarry
<1>3. ASSUME NEW s \in Slots, EndStep(s) \/ RecordAnswer(s)
      PROVE  NothingNew
  <2>1. worker' = [worker EXCEPT ![s] = Idle] /\ net' = net /\ cur' = cur
    BY <1>3 DEF EndStep, RecordAnswer, WorkerStops, chanVars
  <2> QED BY <1>0, <1>2, <2>1
<1>4. ASSUME NEW s \in Slots, TakeJob(s)
      PROVE  NothingNew
  <2>1. net' = net /\ cur' = cur
    BY <1>4 DEF TakeJob, chanVars
  <2>2. CASE row.version = 0
    BY <1>1, <1>4, <2>1, <2>2 DEF TakeJob
  <2>3. CASE row.version # 0
    <3>1. PICK v : v = [worker[s] EXCEPT !.phase = "row", !.version = row.version]
      OBVIOUS
    <3>2. v.phase = "row"
      BY <3>1 DEF TypeOK, Workers
    <3>3. worker' = [worker EXCEPT ![s] = v]
      BY <1>4, <2>3, <3>1 DEF TakeJob, TypeOK
    <3> QED BY <1>2, <2>1, <3>2, <3>3
  <2> QED BY <2>2, <2>3
<1>5. ASSUME NEW s \in Slots, ReadCaps(s)
      PROVE  NothingNew
  <2>1. net' = net /\ cur' = cur
    BY <1>5 DEF ReadCaps, chanVars
  <2>2. PICK v : v = [worker[s] EXCEPT !.phase = "caps", !.caps = caps]
    OBVIOUS
  <2>3. v.phase = "caps"
    BY <2>2 DEF TypeOK, Workers
  <2>4. worker' = [worker EXCEPT ![s] = v]
    BY <1>5, <2>2 DEF ReadCaps, TypeOK
  <2> QED BY <1>2, <2>1, <2>3, <2>4
<1>6. ASSUME NEW s \in Slots, SendApply(s)
      PROVE  NothingNew
  <2>1. PICK v : v = [worker[s] EXCEPT !.phase = "sent"]
    OBVIOUS
  <2>2. v.events = worker[s].events /\ Built(s)
    BY <1>6, <2>1 DEF TypeOK, Workers, SendApply, Built
  <2>3. worker' = [worker EXCEPT ![s] = v]
    BY <1>6, <2>1 DEF SendApply, TypeOK
  <2>4. RequestOf(s).events = worker[s].events
    BY DEF RequestOf
  <2>5. \A r \in net' : r \in net \/ \E x \in Slots : Built(x) /\ worker[x].events = r.events
    BY <1>6, <2>2, <2>4 DEF SendApply
  <2>6. cur' = cur
    BY <1>6 DEF SendApply
  <2> QED BY <2>2, <2>3, <2>5, <2>6, WorkerReplaced, WorkersCarry
<1>7. ASSUME NEW r \in net, Receive(r)
      PROVE  NothingNew
  <2>1. worker' = worker /\ net' = net \ {r} /\ cur'.req = r
    BY <1>7 DEF Receive, ReceiveApply, srvVars
  <2> QED BY <2>1 DEF NothingNew, Carried, Built
<1>8. ASSUME NEW k \in Kinds, DriverOk(k) \/ DriverThrows(k)
      PROVE  NothingNew
  <2>1. cur # NoApply /\ cur \in Applies /\ worker' = worker /\ net' = net
    BY <1>8 DEF DriverOk, DriverThrows, RunDriver, DriverFails, srvVars, TypeOK
  <2>2. cur'.req = cur.req
    BY <1>8, <2>1 DEF DriverOk, DriverThrows, RunDriver, DriverFails, Applies
  <2> QED BY <1>1, <2>1, <2>2
<1>9. CASE Finish
  <2>1. cur # NoApply /\ cur' = NoApply /\ net' = net
    BY <1>9 DEF Finish, FinishApply, ReadyToAnswer
  <2>2. CASE cur.req.abandoned = 0
    <3>1. PICK s \in Slots : s = cur.req.slot
      BY <2>1, VersionTypes
    <3>2. PICK v : v = [worker[s] EXCEPT !.phase = "answered", !.answer = Answer]
      OBVIOUS
    <3>3. v.events = worker[s].events
      BY <3>2 DEF TypeOK, Workers
    <3>4. Built(s)
      BY <2>1, <2>2, <3>1 DEF Safe, Linked, Built
    <3>5. worker' = [worker EXCEPT ![s] = v]
      BY <1>9, <2>2, <3>1, <3>2 DEF Finish, TypeOK
    <3> QED BY <1>2, <2>1, <3>3, <3>4, <3>5
  <2>3. CASE cur.req.abandoned # 0
    BY <1>1, <1>9, <2>1, <2>3 DEF Finish
  <2> QED BY <2>2, <2>3
<1>10. CASE ApplyRejects
  <2>1. cur # NoApply /\ cur' = NoApply /\ net' = net
    BY <1>10 DEF ApplyRejects, AbortApply
  <2>2. CASE cur.req.abandoned = 0
    <3>1. PICK s \in Slots : s = cur.req.slot
      BY <2>1, VersionTypes
    <3>2. worker' = [worker EXCEPT ![s] = Idle]
      BY <1>10, <2>2, <3>1 DEF ApplyRejects, AttemptFails, WorkerStops
    <3> QED BY <1>0, <1>2, <2>1, <3>2
  <2>3. CASE cur.req.abandoned # 0
    BY <1>1, <1>10, <2>1, <2>3 DEF ApplyRejects
  <2> QED BY <2>2, <2>3
<1>11. CASE Stop
  <2>1. cur' = NoApply /\ net' = {}
        /\ \A s \in Slots : worker'[s] = Idle \/ worker'[s] = worker[s]
    BY <1>11 DEF Stop, StopMachine
  <2> QED BY <1>0, <2>1, WorkersCarry DEF Built
<1>12. ASSUME NEW b \in CapSets, NEW m \in BOOLEAN, Boot(b, m)
       PROVE  NothingNew
  BY <1>1, <1>12 DEF Boot, BootMachine, srvVars
<1>13. CASE BumpStep \/ SilentEdit \/ CapsStep \/ EventStep \/ UNCHANGED safeVars
  BY <1>1, <1>13 DEF BumpStep, SilentEdit, CapsStep, EventStep, safeVars
<1> QED BY <1>3, <1>4, <1>5, <1>6, <1>7, <1>8, <1>9, <1>10, <1>11, <1>12, <1>13, LoseCarries
        DEF StepKind

(* What a payload is built from is complete: a mutation the runtime       *)
(* cannot take is stamped in the same step.                               *)
LEMMA BuiltComplete ==
  ASSUME TypeOK, NEW s \in Slots, BuildPayload(s), NEW E, E = worker'[s].events
  PROVE  Complete(E)'
<1>0. evts \in [Events -> EventRows]
  BY DEF TypeOK
<1>1. PICK c : c = worker[s].caps
  OBVIOUS
<1>2. PICK v : v = [worker[s] EXCEPT !.phase = "built", !.caps = {}, !.snap = BuildState(c),
                      !.dropped = DroppedKinds(c), !.events = DeliverableEvents(c)]
  OBVIOUS
<1>3. v.events = DeliverableEvents(c)
  BY <1>2 DEF TypeOK, Workers
<1>4. worker'[s] = v
  BY <1>1, <1>2 DEF BuildPayload, TypeOK
<1>5. E = DeliverableEvents(c)
  BY <1>3, <1>4
<1>6. \A e \in Events : Follows(evts[e], evts'[e]) \/ Posted(e)
  BY BuildMoves, QuietMoves DEF EventsMove
<1>7. E \subseteq Events /\ \A e \in E : evts[e].st = "pending"
  BY <1>5 DEF DeliverableEvents, PendingEvents, Undispatched
<1>8. \A e \in E : evts'[e].st # "absent"
  BY <1>6, <1>7 DEF Follows, Posted
<1>9. ASSUME NEW m \in Events, IsWorkspaceMutation(m), evts'[m].st = "pending", ~evts'[m].expired
      PROVE  m \in E
  <2>1. PICK S : /\ S = {e \in Undispatched(evts) :
                           EvKind[e] \in DroppedEventKinds(c) \cap {"workspace"}}
                 /\ evts' = StampWithError(evts, S, "undeliverable")
    BY <1>1 DEF BuildPayload, MarkEventsUndeliverable
  <2>2. m \notin S
    BY <1>0, <1>9, <2>1, Zenon DEF StampWithError, EventRows
  <2>3. evts'[m] = evts[m]
    BY <2>1, <2>2, Zenon DEF StampWithError
  <2>4. m \in PendingEvents(evts) /\ m \in Undispatched(evts)
    BY <1>9, <2>3 DEF PendingEvents, Undispatched
  <2>5. EvKind[m] = "workspace"
    BY <1>9 DEF IsWorkspaceMutation
  <2>6. EvKind[m] \in c
    BY <2>1, <2>2, <2>4, <2>5 DEF DroppedEventKinds
  <2> QED BY <1>5, <2>4, <2>6 DEF DeliverableEvents
<1>10. \A e \in E :
         /\ evts'[e].st # "absent"
         /\ \A m \in Events :
              /\ IsWorkspaceMutation(m) /\ (evts'[m].st = "pending" /\ ~evts'[m].expired)
              /\ evts'[m].version < evts'[e].version
              => m \in E
  BY <1>8, <1>9
<1> QED BY <1>10 DEF Complete, Waiting

LEMMA PayloadsCompleteStep ==
  ASSUME TypeOK, Safe, RowsIssued, PayloadsComplete, EventsMove, StepKind
  PROVE  PayloadsComplete'
<1>1. CASE NothingNew
  <2> SUFFICES ASSUME NEW E \in SUBSET Events, Carried(E)' PROVE Complete(E)'
    BY DEF PayloadsComplete
  <2>1. Carried(E) /\ Complete(E)
    BY <1>1 DEF NothingNew, PayloadsComplete
  <2> QED BY <2>1, CompleteStays
<1>2. ASSUME NEW s \in Slots, BuildPayload(s)
      PROVE  PayloadsComplete'
  <2> SUFFICES ASSUME NEW E \in SUBSET Events, Carried(E)' PROVE Complete(E)'
    BY DEF PayloadsComplete
  <2>1. /\ \A x \in Slots : x # s => worker'[x] = worker[x]
        /\ net' = net /\ cur' = cur
    BY <1>2 DEF BuildPayload, TypeOK, chanVars
  <2>2. CASE Carried(E)
    BY <2>2, CompleteStays DEF PayloadsComplete
  <2>3. CASE ~Carried(E)
    <3>1. ASSUME NEW x \in Slots, Built(x)', worker'[x].events = E
          PROVE  x = s
      BY <2>1, <2>3, <3>1 DEF Carried, Built
    <3>2. E = worker'[s].events
      BY <2>1, <2>3, <3>1 DEF Carried
    <3> QED BY <1>2, <3>2, BuiltComplete
  <2> QED BY <2>2, <2>3
<1> QED BY <1>1, <1>2, CarriedStep

(* An attempt is charged to a mutation of the payload that no other one   *)
(* of it held.                                                            *)
LEMMA ChargedStep ==
  ASSUME TypeOK, RowsIssued, PayloadsComplete, ChargedOnlyWhenTried, EventsMove,
         EventsMoveQuietly \/ Records, row'.version \in {row.version, row.version + 1}
  PROVE  ChargedOnlyWhenTried'
<1> SUFFICES ASSUME NEW m \in Events, NEW n \in Events,
                    IsWorkspaceMutation(m), IsWorkspaceMutation(n),
                    evts'[m].version < evts'[n].version, evts'[n].attempts > 0,
                    evts'[m].st = "pending", ~evts'[m].expired
             PROVE  FALSE
  BY DEF ChargedOnlyWhenTried, IsWorkspaceMutation
<1>0. /\ evts[m].version \in Nat /\ evts[n].version \in Nat /\ row.version \in Nat
      /\ evts[n].attempts \in Nat
      /\ evts[m].version <= row.version /\ evts[n].version <= row.version
  BY EventTypes, VersionTypes DEF RowsIssued
<1>1. ASSUME Follows(evts[n], evts'[n])
      PROVE  evts[m].version < evts[n].version /\ evts[m].st = "pending" /\ ~evts[m].expired
  <2>1. evts'[n].version = evts[n].version
    BY <1>1 DEF Follows
  <2>2. ~Posted(m)
    BY <1>0, <2>1 DEF Posted
  <2>3. Follows(evts[m], evts'[m])
    BY <2>2 DEF EventsMove
  <2> QED BY <2>1, <2>3 DEF Follows
<1>2. ASSUME Follows(evts[n], evts'[n]) PROVE evts[n].attempts = 0
  BY <1>0, <1>1, <1>2 DEF ChargedOnlyWhenTried
<1>3. CASE EventsMoveQuietly
  <2>1. ~Posted(n)
    BY <1>0 DEF Posted
  <2>2. Follows(evts[n], evts'[n]) /\ evts'[n].attempts = evts[n].attempts
    BY <1>3, <2>1 DEF EventsMoveQuietly, FollowsQuietly
  <2> QED BY <1>0, <1>2, <2>2
<1>4. ASSUME NEW s \in Slots, RecordAnswer(s)
      PROVE  FALSE
  <2>1. PICK E, A : E = worker[s].events /\ A = worker[s].answer.events
    OBVIOUS
  <2>2. Follows(evts[n], evts'[n]) /\ evts'[n].attempts # evts[n].attempts
    BY <1>0, <1>2, <1>4, RecordMoves
  <2>3. n \in AttemptedEvents(E, A) /\ row.version # 0
    BY <1>4, <2>1, <2>2, RecordMoves
  <2>4. m \notin A
    BY <1>4, <2>1, <2>3, RecordMoves
  <2>5. E \in SUBSET Events /\ Carried(E)
    <3>1. worker[s] \in Workers
      BY DEF TypeOK
    <3> QED BY <1>4, <2>1, <3>1, WorkerFields DEF RecordAnswer, Carried, Built
  <2>6. n \in E
    BY <2>3 DEF AttemptedEvents
  <2>7. m \in E
    BY <1>1, <2>2, <2>5, <2>6 DEF PayloadsComplete, Complete, Waiting
  <2>8. evts[n].version <= evts[m].version
    BY <2>3, <2>4, <2>7 DEF AttemptedEvents
  <2> QED BY <1>0, <1>1, <2>2, <2>8
<1> QED BY <1>3, <1>4 DEF Records

---------------------------------------------------------------------------
(* The event loop *)

SameBooks == UNCHANGED <<runs, effects, lostRuns, bound>>

LoopStill ==
  /\ SameBooks
  /\ \/ cur' = cur
     \/ /\ cur # NoApply /\ cur' # NoApply /\ cur'.req.events = cur.req.events
        /\ cur'.evtodo = cur.evtodo /\ cur'.late = cur.late
        /\ cur'.running = cur.running /\ cur'.settled = cur.settled

LoopEnds == SameBooks /\ cur' = NoApply /\ cur # NoApply /\ cur.running = NoEvent

LoopMoves ==
  \/ LoopStill \/ LoopEnds \/ StartEvents \/ Stop
  \/ \E r \in net : Receive(r)
  \/ \E e \in Events : EventSkipped(e) \/ EventInvoked(e) \/ EventRecorded(e)
  \/ \E e \in Events, m \in BOOLEAN : EventThrows(e, m) \/ RecordThrows(e, m)
  \/ \E b \in CapSets, m \in BOOLEAN : Boot(b, m)

LEMMA LoopStep ==
  ASSUME TypeOK, TypeOK', [Next]_vars
  PROVE  LoopMoves
<1> USE DEF vars, chanVars
<1>0. cur # NoApply => cur \in Applies
  BY DEF TypeOK
<1>1. ASSUME UNCHANGED chanVars PROVE LoopStill
  BY <1>1 DEF LoopStill, SameBooks
<1>2. ASSUME NEW s \in Slots, SendApply(s) PROVE LoopStill
  BY <1>2 DEF SendApply, LoopStill, SameBooks
<1>3. ASSUME NEW s \in Slots, LoseAttempt(s) PROVE LoopStill
  <2>0. SameBooks
    BY <1>3 DEF LoseAttempt, SameBooks
  <2>1. CASE cur # NoApply /\ cur.req.slot = s /\ cur.req.abandoned = 0
    <3>1. cur' = [cur EXCEPT !.req = Abandon(cur.req)] /\ cur \in Applies /\ cur.req \in Requests
      BY <1>3, <2>1, VersionTypes DEF LoseAttempt
    <3>2. /\ cur'.req = Abandon(cur.req) /\ cur'.evtodo = cur.evtodo /\ cur'.late = cur.late
          /\ cur'.running = cur.running /\ cur'.settled = cur.settled
      BY <3>1 DEF Applies
    <3>3. Abandon(cur.req).events = cur.req.events
      BY <3>1 DEF Abandon, Requests
    <3>4. cur' # NoApply
      <4>0. left["lose"] \in Nat
        BY DEF TypeOK, Disturbances
      <4>1. PICK q \in Requests : q = Abandon(cur.req)
        BY <3>1, <4>0 DEF Abandon, Requests
      <4>2. cur' = [cur EXCEPT !.req = q]
        BY <3>1, <4>1
      <4>3. cur' \in Applies
        BY <3>1, <4>2 DEF Applies
      <4> QED BY <4>3, ChannelAssumption
    <3> QED BY <2>0, <2>1, <3>2, <3>3, <3>4 DEF LoopStill
  <2>2. CASE ~(cur # NoApply /\ cur.req.slot = s /\ cur.req.abandoned = 0)
    BY <1>3, <2>0, <2>2 DEF LoseAttempt, LoopStill
  <2> QED BY <2>1, <2>2
<1>4. ASSUME NEW k \in Kinds, DriverOk(k) \/ DriverThrows(k) PROVE LoopStill
  <2>1. SameBooks /\ cur # NoApply /\ cur \in Applies
    BY <1>0, <1>4 DEF DriverOk, DriverThrows, RunDriver, DriverFails, SameBooks
  <2>2. /\ cur'.req = cur.req /\ cur'.evtodo = cur.evtodo /\ cur'.late = cur.late
        /\ cur'.running = cur.running /\ cur'.settled = cur.settled
    BY <1>4, <2>1 DEF DriverOk, DriverThrows, RunDriver, DriverFails, Applies
  <2>3. cur' # NoApply
    <3>1. PICK t \in SUBSET Kinds, f \in SUBSET Kinds :
            cur' = [cur EXCEPT !.todo = t] \/ cur' = [cur EXCEPT !.todo = t, !.failed = f]
      <4>1. cur.todo \ {k} \in SUBSET Kinds /\ cur.failed \cup {k} \in SUBSET Kinds
        BY <2>1, ApplyFields
      <4> QED BY <1>4, <4>1, Zenon DEF DriverOk, DriverThrows, RunDriver, DriverFails
    <3>2. [cur EXCEPT !.todo = t] \in Applies
      BY <2>1 DEF Applies
    <3>3. [cur EXCEPT !.todo = t, !.failed = f] \in Applies
      BY <2>1 DEF Applies
    <3> QED BY <3>1, <3>2, <3>3, ChannelAssumption
  <2> QED BY <2>1, <2>2, <2>3 DEF LoopStill
<1>5. ASSUME Finish \/ ApplyRejects PROVE LoopEnds
  BY <1>5 DEF Finish, FinishApply, ReadyToAnswer, ApplyRejects, AbortApply, LoopEnds, SameBooks
<1>6. CASE DomainNext
  <2>1. UNCHANGED chanVars
    BY <1>6 DEF DomainNext, EditContributions, EditWithoutBump, LateBump, PostEvent, EventExpires
  <2> QED BY <1>1, <2>1 DEF LoopMoves
<1>7. ASSUME NEW s \in Slots, WorkerStep(s) PROVE LoopStill
  <2>1. ASSUME TakeJob(s) \/ DeferToReady(s) \/ DeferToHello(s) \/ ReadCaps(s) \/ BuildPayload(s)
               \/ SendFails(s) \/ RecordOutcome(s)
        PROVE  UNCHANGED chanVars
    BY <2>1 DEF TakeJob, DeferToReady, DeferToHello, ReadCaps, BuildPayload, SendFails,
                RecordOutcome, RecordAnswer
  <2> QED BY <1>1, <1>2, <1>7, <2>1 DEF WorkerStep
<1>8. CASE \/ \E seen \in {"running", "stopped", "unknown"} : Sweep(seen)
           \/ BecomeReady \/ HelloStep \/ UNCHANGED vars
  <2>1. UNCHANGED chanVars
    BY <1>8 DEF Sweep, BecomeReady, HelloStep, HelloSend, HelloUpsert, HelloCheck
  <2> QED BY <1>1, <2>1 DEF LoopMoves
<1>9. CASE FaultNext
  <2>1. ASSUME \/ \E s \in Slots : LoseJob(s) \/ RecordThenFails(s)
               \/ GatewayRolls \/ HelloFails
        PROVE  UNCHANGED chanVars
    BY <2>1 DEF LoseJob, RecordThenFails, RecordAnswer, GatewayRolls, HelloFails
  <2> QED BY <1>1, <1>3, <1>4, <1>5, <1>9, <2>1 DEF FaultNext, LoopMoves
<1>10. CASE AgentStep
  BY <1>4, <1>5, <1>10 DEF AgentStep, LoopMoves
<1> HIDE DEF vars, chanVars
<1> QED BY <1>6, <1>7, <1>8, <1>9, <1>10 DEF Next, LoopMoves

(* c is a, up to its phase, with these parts of the loop. *)
LoopOf(c, a, todo, late, run, settled) ==
  /\ c # NoApply /\ c.req = a.req /\ c.evtodo = todo /\ c.late = late
  /\ c.running = run /\ c.settled = settled

LEMMA LoopEdits ==
  ASSUME NEW a \in Applies, NEW T \in SUBSET Events, NEW e \in Events \cup {NoEvent},
         NEW S \in SUBSET Events
  PROVE  /\ LoopOf([a EXCEPT !.evtodo = T, !.running = e, !.settled = S], a, T, a.late, e, S)
         /\ LoopOf([a EXCEPT !.running = e], a, a.evtodo, a.late, e, a.settled)
         /\ LoopOf([a EXCEPT !.evtodo = T], a, T, a.late, a.running, a.settled)
         /\ LoopOf([a EXCEPT !.running = e, !.evtodo = T], a, T, a.late, e, a.settled)
         /\ LoopOf([a EXCEPT !.phase = "events", !.late = T], a, a.evtodo, T, a.running, a.settled)
<1>1. /\ [a EXCEPT !.evtodo = T, !.running = e, !.settled = S] # NoApply
      /\ [a EXCEPT !.running = e] # NoApply
      /\ [a EXCEPT !.evtodo = T] # NoApply
      /\ [a EXCEPT !.running = e, !.evtodo = T] # NoApply
      /\ [a EXCEPT !.phase = "events", !.late = T] # NoApply
  <2>1. [a EXCEPT !.evtodo = T, !.running = e, !.settled = S] \in Applies
    BY DEF Applies
  <2>2. [a EXCEPT !.running = e] \in Applies
    BY DEF Applies
  <2>3. [a EXCEPT !.evtodo = T] \in Applies
    BY DEF Applies
  <2>4. [a EXCEPT !.running = e, !.evtodo = T] \in Applies
    BY DEF Applies
  <2>5. [a EXCEPT !.phase = "events", !.late = T] \in Applies
    BY DEF Applies
  <2> QED BY <2>1, <2>2, <2>3, <2>4, <2>5, ChannelAssumption
<1>2. LoopOf([a EXCEPT !.evtodo = T, !.running = e, !.settled = S], a, T, a.late, e, S)
  BY <1>1 DEF LoopOf, Applies
<1>3. LoopOf([a EXCEPT !.running = e], a, a.evtodo, a.late, e, a.settled)
  BY <1>1 DEF LoopOf, Applies
<1>4. LoopOf([a EXCEPT !.evtodo = T], a, T, a.late, a.running, a.settled)
  BY <1>1 DEF LoopOf, Applies
<1>5. LoopOf([a EXCEPT !.running = e, !.evtodo = T], a, T, a.late, e, a.settled)
  BY <1>1 DEF LoopOf, Applies
<1>6. LoopOf([a EXCEPT !.phase = "events", !.late = T], a, a.evtodo, T, a.running, a.settled)
  BY <1>1 DEF LoopOf, Applies
<1> QED BY <1>2, <1>3, <1>4, <1>5, <1>6

(* What remains of the loop after the event e has failed. *)
Remaining(e) == IF IsWorkspaceMutation(e) THEN {} ELSE cur.evtodo \ {e}

LEMMA LoopFacts ==
  ASSUME TypeOK, NEW e \in Events
  PROVE  /\ EventSkipped(e) =>
              /\ cur # NoApply /\ cur.running = NoEvent /\ e \in cur.evtodo
              /\ AlreadyRun(e) \/ e \in cur.late
              /\ LoopOf(cur', cur, cur.evtodo \ {e}, cur.late, NoEvent, cur.settled \cup {e})
              /\ SameBooks
         /\ EventInvoked(e) =>
              /\ cur # NoApply /\ cur.running = NoEvent /\ e \in cur.evtodo /\ ~AlreadyRun(e)
              /\ LoopOf(cur', cur, cur.evtodo, cur.late, e, cur.settled)
              /\ effects' = IF EvKind[e] \in bound THEN [effects EXCEPT ![e] = @ + 1] ELSE effects
              /\ UNCHANGED <<runs, lostRuns, bound>>
         /\ EventRecorded(e) =>
              /\ cur # NoApply /\ cur.running = e
              /\ LoopOf(cur', cur, cur.evtodo \ {e}, cur.late, NoEvent, cur.settled \cup {e})
              /\ runs' = [runs EXCEPT ![EvKey[e]] = EvTs[e]]
              /\ UNCHANGED <<effects, lostRuns, bound>>
         /\ \A m \in BOOLEAN : EventThrows(e, m) =>
              /\ cur # NoApply /\ cur.running = NoEvent
              /\ LoopOf(cur', cur, Remaining(e), cur.late, NoEvent, cur.settled)
              /\ SameBooks
         /\ \A m \in BOOLEAN : RecordThrows(e, m) =>
              /\ cur # NoApply /\ cur.running = e
              /\ LoopOf(cur', cur, Remaining(e), cur.late, NoEvent, cur.settled)
              /\ lostRuns' = IF EvKind[e] \in bound THEN [lostRuns EXCEPT ![e] = @ + 1]
                             ELSE lostRuns
              /\ UNCHANGED <<runs, effects, bound>>
<1>0. cur # NoApply => /\ cur \in Applies /\ cur.evtodo \ {e} \in SUBSET Events
                       /\ cur.settled \cup {e} \in SUBSET Events /\ Remaining(e) \in SUBSET Events
                       /\ e \in Events \cup {NoEvent} /\ NoEvent \in Events \cup {NoEvent}
  BY ApplyFields, SMTT(60) DEF TypeOK, Remaining
<1>1. cur # NoApply =>
        LoopOf(SettleHere(e), cur, cur.evtodo \ {e}, cur.late, NoEvent, cur.settled \cup {e})
  BY <1>0, LoopEdits, Zenon DEF SettleHere
<1>2. ASSUME EventSkipped(e)
      PROVE  /\ cur # NoApply /\ cur.running = NoEvent /\ e \in cur.evtodo
             /\ AlreadyRun(e) \/ e \in cur.late
             /\ cur' = SettleHere(e) /\ SameBooks
  BY <1>2 DEF EventSkipped, SkipEvent, AtEvent, SameBooks
<1>3. ASSUME EventInvoked(e)
      PROVE  /\ cur # NoApply /\ cur.running = NoEvent /\ e \in cur.evtodo /\ ~AlreadyRun(e)
             /\ cur' = [cur EXCEPT !.running = e]
             /\ effects' = IF EvKind[e] \in bound THEN [effects EXCEPT ![e] = @ + 1] ELSE effects
             /\ UNCHANGED <<runs, lostRuns, bound>>
  BY <1>3 DEF EventInvoked, InvokeEvent, AtEvent
<1>4. ASSUME EventRecorded(e)
      PROVE  /\ cur # NoApply /\ cur.running = e /\ cur' = SettleHere(e)
             /\ runs' = [runs EXCEPT ![EvKey[e]] = EvTs[e]]
             /\ UNCHANGED <<effects, lostRuns, bound>>
  BY <1>4 DEF EventRecorded, RecordEvent
<1>5. ASSUME NEW m \in BOOLEAN, EventThrows(e, m)
      PROVE  /\ cur # NoApply /\ cur.running = NoEvent /\ SameBooks
             /\ cur' = [cur EXCEPT !.evtodo = Remaining(e)]
  BY <1>5 DEF EventThrows, FailEvent, AtEvent, SameBooks, Remaining
<1>6. ASSUME NEW m \in BOOLEAN, RecordThrows(e, m)
      PROVE  /\ cur # NoApply /\ cur.running = e
             /\ cur' = [cur EXCEPT !.running = NoEvent, !.evtodo = Remaining(e)]
             /\ lostRuns' = IF EvKind[e] \in bound THEN [lostRuns EXCEPT ![e] = @ + 1]
                            ELSE lostRuns
             /\ UNCHANGED <<runs, effects, bound>>
  BY <1>6, SMTT(60) DEF RecordThrows, FailRecord, Remaining
<1>7. cur # NoApply =>
        /\ LoopOf([cur EXCEPT !.running = e], cur, cur.evtodo, cur.late, e, cur.settled)
        /\ LoopOf([cur EXCEPT !.evtodo = Remaining(e)], cur, Remaining(e), cur.late, cur.running,
                  cur.settled)
        /\ LoopOf([cur EXCEPT !.running = NoEvent, !.evtodo = Remaining(e)], cur, Remaining(e),
                  cur.late, NoEvent, cur.settled)
  BY <1>0, LoopEdits, ZenonT(60)
<1> QED BY <1>1, <1>2, <1>3, <1>4, <1>5, <1>6, <1>7, Zenon

LEMMA StartFacts ==
  ASSUME TypeOK, StartEvents
  PROVE  /\ cur # NoApply /\ SameBooks
         /\ LoopOf(cur', cur, cur.evtodo, Late(cur.req.events), cur.running, cur.settled)
<1>1. /\ cur # NoApply /\ SameBooks
      /\ cur' = [cur EXCEPT !.phase = "events", !.late = Late(cur.req.events)]
  BY DEF StartEvents, BeginEvents, SameBooks
<1>2. cur \in Applies /\ cur.req \in Requests
  BY <1>1, VersionTypes
<1>3. Late(cur.req.events) \in SUBSET Events
  BY <1>2, RequestFields DEF Late
<1>4. NoEvent \in Events \cup {NoEvent} /\ {} \in SUBSET Events
  OBVIOUS
<1> QED BY <1>1, <1>2, <1>3, <1>4, LoopEdits, Zenon

LEMMA ReceiveFacts ==
  ASSUME TypeOK, TypeOK', NEW r \in net, Receive(r)
  PROVE  /\ cur = NoApply /\ cur'.req = r /\ cur'.evtodo = r.events /\ cur'.late = Late(r.events)
         /\ cur'.running = NoEvent /\ cur'.settled = {} /\ SameBooks
BY DEF Receive, ReceiveApply, SameBooks

(* An event booked as the old one, with the same parts *)
Booked(e) ==
  /\ effects[e] <= lostRuns[e] + (IF Owed(e) THEN 1 ELSE 0)
  /\ lostRuns[e] <= effects[e]
  /\ Runs(e) => ~AlreadyRun(e) /\ (EvKind[e] \in bound => lostRuns[e] < effects[e])

LEMMA BookedStays ==
  ASSUME NEW e \in Events, Booked(e), SameBooks, Runs(e)' <=> Runs(e)
  PROVE  Booked(e)'
BY DEF Booked, Owed, AlreadyRun, SameBooks

(* Fire times on record only grow. *)
LEMMA RecordGrows ==
  ASSUME TypeOK, RunsBooked, NEW e \in Events, EventRecorded(e), NEW f \in Events
  PROVE  /\ AlreadyRun(e)'
         /\ AlreadyRun(f) => AlreadyRun(f)'
         /\ EvKey[f] # EvKey[e] => runs'[EvKey[f]] = runs[EvKey[f]]
<1>1. /\ Runs(e) /\ runs' = [runs EXCEPT ![EvKey[e]] = EvTs[e]] /\ runs \in [Keys -> Nat]
  BY LoopFacts DEF Runs, TypeOK
<1>2. ~AlreadyRun(e)
  BY <1>1 DEF RunsBooked
<1>3. /\ EvKey[e] \in Keys /\ EvKey[f] \in Keys /\ EvTs[e] \in Nat /\ EvTs[f] \in Nat
      /\ runs[EvKey[e]] \in Nat /\ runs[EvKey[f]] \in Nat
  BY EventTypes
<1>4. /\ runs'[EvKey[e]] = EvTs[e]
      /\ EvKey[f] # EvKey[e] => runs'[EvKey[f]] = runs[EvKey[f]]
  BY <1>1, <1>3
<1>5. EvTs[e] > runs[EvKey[e]]
  BY <1>2, <1>3 DEF AlreadyRun
<1>6. AlreadyRun(e)'
  BY <1>3, <1>4 DEF AlreadyRun
<1>7. AlreadyRun(f) => AlreadyRun(f)'
  <2>1. CASE EvKey[f] = EvKey[e]
    BY <1>3, <1>4, <1>5, <2>1 DEF AlreadyRun
  <2>2. CASE EvKey[f] # EvKey[e]
    BY <1>4, <2>2 DEF AlreadyRun
  <2> QED BY <2>1, <2>2
<1> QED BY <1>4, <1>6, <1>7

LEMMA RunsStay ==
  ASSUME TypeOK, RunsBooked, LoopMoves, NEW f \in Events, AlreadyRun(f)
  PROVE  AlreadyRun(f)'
<1>1. ASSUME NEW e \in Events, EventRecorded(e) PROVE AlreadyRun(f)'
  BY <1>1, RecordGrows
<1>2. ASSUME ~\E e \in Events : EventRecorded(e) PROVE runs' = runs
  <2>1. ASSUME NEW e \in Events,
               \/ EventSkipped(e) \/ EventInvoked(e)
               \/ \E m \in BOOLEAN : EventThrows(e, m) \/ RecordThrows(e, m)
        PROVE  runs' = runs
    BY <2>1, LoopFacts DEF SameBooks
  <2>2. ASSUME \/ LoopStill \/ LoopEnds \/ StartEvents \/ Stop
               \/ \E r \in net : Receive(r)
               \/ \E b \in CapSets, m \in BOOLEAN : Boot(b, m)
        PROVE  runs' = runs
    BY <2>2 DEF LoopStill, LoopEnds, SameBooks, StartEvents, BeginEvents, Stop, StopMachine,
       Receive, ReceiveApply, Boot, BootMachine
  <2> QED BY <1>2, <2>1, <2>2 DEF LoopMoves
<1> QED BY <1>1, <1>2 DEF AlreadyRun

LEMMA BookedStep ==
  ASSUME TypeOK, TypeOK', StoppedIsEmpty, RunsBooked, LoopMoves
  PROVE  RunsBooked'
<1>0. \A f \in Events : Booked(f)
  BY DEF RunsBooked, Booked
<1> SUFFICES ASSUME NEW f \in Events PROVE Booked(f)'
  BY DEF RunsBooked, Booked
<1>1. /\ effects[f] \in Nat /\ lostRuns[f] \in Nat /\ f # NoEvent
      /\ effects \in [Events -> Nat] /\ lostRuns \in [Events -> Nat]
  BY EventTypes DEF TypeOK
<1>2. ASSUME SameBooks, cur = NoApply \/ cur.running = NoEvent,
             cur' = NoApply \/ cur'.running = NoEvent
      PROVE  Booked(f)'
  BY <1>0, <1>1, <1>2, BookedStays DEF Runs
<1>3. CASE LoopStill \/ LoopEnds
  BY <1>0, <1>1, <1>3, BookedStays DEF LoopStill, LoopEnds, Runs
<1>4. CASE StartEvents
  BY <1>0, <1>4, StartFacts, BookedStays DEF Runs, LoopOf
<1>5. ASSUME NEW r \in net, Receive(r) PROVE Booked(f)'
  BY <1>2, <1>5, ReceiveFacts
<1>6. ASSUME NEW e \in Events, EventSkipped(e) \/ \E m \in BOOLEAN : EventThrows(e, m)
      PROVE  Booked(f)'
  <2>1. SameBooks /\ cur.running = NoEvent /\ cur'.running = NoEvent
    BY <1>6, LoopFacts DEF LoopOf
  <2> QED BY <1>2, <2>1
<1>7. ASSUME NEW e \in Events, EventInvoked(e) PROVE Booked(f)'
  <2>1. /\ cur # NoApply /\ cur.running = NoEvent /\ ~AlreadyRun(e)
        /\ cur' # NoApply /\ cur'.running = e
        /\ effects' = IF EvKind[e] \in bound THEN [effects EXCEPT ![e] = @ + 1] ELSE effects
        /\ runs' = runs /\ lostRuns' = lostRuns /\ bound' = bound
    BY <1>7, LoopFacts DEF LoopOf
  <2>2. ~Runs(f) /\ (Runs(f)' <=> f = e) /\ (AlreadyRun(f)' <=> AlreadyRun(f))
    BY <1>1, <2>1 DEF Runs, AlreadyRun
  <2>3. effects'[f] = IF f = e /\ EvKind[e] \in bound THEN effects[f] + 1 ELSE effects[f]
    BY <1>1, <2>1
  <2>4. CASE f = e
    <3>1. effects[f] <= lostRuns[f] /\ lostRuns[f] <= effects[f]
      BY <1>0, <1>1, <2>1, <2>2, <2>4 DEF Booked, Owed
    <3>2. ~AlreadyRun(f)' /\ Runs(f)'
      BY <2>1, <2>2, <2>4
    <3>3. Owed(f)' <=> EvKind[f] \in bound
      BY <2>1, <3>2 DEF Owed
    <3>4. CASE EvKind[f] \in bound
      <4>1. effects'[f] = effects[f] + 1 /\ lostRuns'[f] = lostRuns[f] /\ Owed(f)'
        BY <2>1, <2>3, <2>4, <3>3, <3>4
      <4> QED BY <1>1, <3>1, <3>2, <4>1 DEF Booked
    <3>5. CASE EvKind[f] \notin bound
      <4>1. effects'[f] = effects[f] /\ lostRuns'[f] = lostRuns[f] /\ EvKind[f] \notin bound'
        BY <2>1, <2>3, <2>4, <3>5
      <4> QED BY <1>1, <3>1, <3>2, <4>1 DEF Booked
    <3> QED BY <3>4, <3>5
  <2>5. CASE f # e
    <3>1. ~Runs(f)' /\ effects'[f] = effects[f] /\ lostRuns'[f] = lostRuns[f]
      BY <2>1, <2>2, <2>3, <2>5
    <3>2. Owed(f)' <=> Owed(f)
      BY <2>2, <3>1 DEF Owed
    <3> QED BY <1>0, <3>1, <3>2 DEF Booked
  <2> QED BY <2>4, <2>5
<1>8. ASSUME NEW e \in Events, EventRecorded(e) PROVE Booked(f)'
  <2>1. /\ Runs(e) /\ cur'.running = NoEvent
        /\ effects' = effects /\ lostRuns' = lostRuns /\ bound' = bound
    BY <1>8, LoopFacts DEF LoopOf, Runs
  <2>2. ~Runs(f)'
    BY <1>1, <2>1 DEF Runs
  <2>3. Owed(f) => Owed(f)'
    <3>1. AlreadyRun(e)' /\ (AlreadyRun(f) => AlreadyRun(f)')
      BY <1>8, RecordGrows
    <3>2. Runs(f) => f = e
      BY <2>1 DEF Runs
    <3> QED BY <3>1, <3>2 DEF Owed
  <2> QED BY <1>0, <1>1, <2>1, <2>2, <2>3 DEF Booked
<1>9. ASSUME NEW e \in Events, NEW m \in BOOLEAN, RecordThrows(e, m) PROVE Booked(f)'
  <2>1. /\ Runs(e) /\ cur'.running = NoEvent
        /\ lostRuns' = IF EvKind[e] \in bound THEN [lostRuns EXCEPT ![e] = @ + 1] ELSE lostRuns
        /\ effects' = effects /\ runs' = runs /\ bound' = bound
    BY <1>9, LoopFacts DEF LoopOf, Runs
  <2>2. ~Runs(f)' /\ (Runs(f) <=> f = e) /\ (AlreadyRun(f)' <=> AlreadyRun(f))
    BY <1>1, <2>1 DEF Runs, AlreadyRun
  <2>3. lostRuns'[f] = IF f = e /\ EvKind[e] \in bound THEN lostRuns[f] + 1 ELSE lostRuns[f]
    BY <1>1, <2>1
  <2> QED BY <1>0, <1>1, <2>1, <2>2, <2>3 DEF Booked, Owed
<1>10. CASE Stop
  <2>1. /\ cur' = NoApply /\ runs' = runs /\ effects' = effects /\ bound' = bound
        /\ lostRuns' = [e \in Events |->
             IF cur # NoApply /\ cur.running = e /\ EvKind[e] \in bound
             THEN lostRuns[e] + 1 ELSE lostRuns[e]]
    BY <1>10 DEF Stop, StopMachine
  <2>2. ~Runs(f)' /\ (AlreadyRun(f)' <=> AlreadyRun(f))
    BY <2>1 DEF Runs, AlreadyRun
  <2>3. lostRuns'[f] = IF Runs(f) /\ EvKind[f] \in bound THEN lostRuns[f] + 1 ELSE lostRuns[f]
    BY <2>1 DEF Runs
  <2> QED BY <1>0, <1>1, <2>1, <2>2, <2>3 DEF Booked, Owed
<1>11. ASSUME NEW b \in CapSets, NEW m \in BOOLEAN, Boot(b, m) PROVE Booked(f)'
  <2>1. cur = NoApply /\ cur' = NoApply /\ runs' = runs /\ effects' = effects /\ lostRuns' = lostRuns
    BY <1>11 DEF Boot, BootMachine, StoppedIsEmpty
  <2> QED BY <1>0, <2>1 DEF Booked, Owed, Runs, AlreadyRun
<1> QED BY <1>3, <1>4, <1>5, <1>6, <1>7, <1>8, <1>9, <1>10, <1>11 DEF LoopMoves

(* A loop over R that still has T to do, knows L to be late, and is at x *)
Ordered(R, T, L, x) ==
  /\ T \subseteq R
  /\ \A e \in L : evts[e].expired
  /\ x # NoEvent => x \in T
  /\ \A m \in R \ T :
       IsWorkspaceMutation(m) => T = {} \/ AlreadyRun(m) \/ evts[m].expired

LEMMA OrderedLoop ==
  LoopInOrder <=> (cur # NoApply => Ordered(cur.req.events, cur.evtodo, cur.late, cur.running))
BY DEF LoopInOrder, Ordered

LEMMA OrderedStays ==
  ASSUME RowsIssued, EventsMove, \A f \in Events : AlreadyRun(f) => AlreadyRun(f)',
         NEW R \in SUBSET Events, NEW T, NEW L \in SUBSET Events, NEW x, Ordered(R, T, L, x)
  PROVE  Ordered(R, T, L, x)'
<1>1. \A e \in Events : evts[e].expired => evts'[e].expired
  BY ExpiredStays
<1>2. T \subseteq R /\ \A e \in L : evts'[e].expired
  BY <1>1 DEF Ordered
<1>3. ASSUME NEW m \in R \ T, IsWorkspaceMutation(m)
      PROVE  T = {} \/ AlreadyRun(m)' \/ evts'[m].expired
  BY <1>1, <1>3 DEF Ordered
<1>4. x # NoEvent => x \in T
  BY DEF Ordered
<1> QED BY <1>2, <1>3, <1>4 DEF Ordered

LEMMA OrderedStep ==
  ASSUME TypeOK, TypeOK', RowsIssued, EventsMove, StoppedIsEmpty, RunsBooked, LoopInOrder, LoopMoves
  PROVE  LoopInOrder'
<1>0. \A f \in Events : AlreadyRun(f) => AlreadyRun(f)'
  BY RunsStay
<1>1. CASE cur = NoApply /\ ~\E r \in net : Receive(r)
  <2>1. \A e \in Events : ~EventSkipped(e) /\ ~EventInvoked(e) /\ ~EventRecorded(e)
    BY <1>1, LoopFacts
  <2>2. \A e \in Events, m \in BOOLEAN : ~EventThrows(e, m) /\ ~RecordThrows(e, m)
    BY <1>1, LoopFacts
  <2>3. ~StartEvents
    BY <1>1, StartFacts
  <2>4. cur' = NoApply
    BY <1>1, <2>1, <2>2, <2>3 DEF LoopMoves, LoopStill, LoopEnds, Stop, StopMachine, Boot, BootMachine
  <2> QED BY <2>4 DEF LoopInOrder
<1>2. ASSUME NEW r \in net, Receive(r) PROVE LoopInOrder'
  <2>1. /\ cur'.req = r /\ cur'.evtodo = r.events /\ cur'.late = Late(r.events)
        /\ cur'.running = NoEvent
    BY <1>2, ReceiveFacts
  <2>2. evts' = evts
    BY <1>2 DEF Receive, srvVars
  <2>3. \A e \in Late(r.events) : evts'[e].expired
    BY <2>2 DEF Late
  <2> QED BY <2>1, <2>3 DEF LoopInOrder
<1>3. CASE cur # NoApply
  <2>1. PICK R, T, L, x : R = cur.req.events /\ T = cur.evtodo /\ L = cur.late /\ x = cur.running
    OBVIOUS
  <2>2. R \in SUBSET Events /\ T \in SUBSET Events /\ L \in SUBSET Events /\ Ordered(R, T, L, x)
    BY <1>3, <2>1, VersionTypes, ApplyFields, RequestFields, OrderedLoop
  <2>3. Ordered(R, T, L, x)'
    BY <1>0, <2>2, OrderedStays
  <2>4. ASSUME cur'.req.events = R, cur'.evtodo = T, cur'.late = L, cur'.running = x
        PROVE  LoopInOrder'
    BY <2>3, <2>4 DEF LoopInOrder, Ordered
  <2>5. CASE LoopStill
    BY <2>1, <2>4, <2>5 DEF LoopStill
  <2>6. CASE LoopEnds \/ Stop
    BY <2>6 DEF LoopEnds, Stop, StopMachine, LoopInOrder
  <2>7. CASE StartEvents
    <3>1. LoopOf(cur', cur, T, Late(R), x, cur.settled) /\ evts' = evts
      BY <2>1, <2>7, StartFacts DEF StartEvents, srvVars
    <3>2. \A e \in Late(R) : evts'[e].expired
      BY <3>1 DEF Late
    <3> QED BY <2>1, <2>3, <3>1, <3>2 DEF LoopInOrder, Ordered, LoopOf
  <2>8. ASSUME NEW e \in Events, EventSkipped(e) PROVE LoopInOrder'
    <3>1. /\ e \in T /\ x = NoEvent /\ (AlreadyRun(e) \/ e \in L)
          /\ LoopOf(cur', cur, T \ {e}, L, NoEvent, cur.settled \cup {e})
      BY <2>1, <2>8, LoopFacts
    <3>2. AlreadyRun(e)' \/ evts'[e].expired
      BY <1>0, <2>3, <3>1 DEF Ordered
    <3>3. \A m \in R \ (T \ {e}) : IsWorkspaceMutation(m) => AlreadyRun(m)' \/ evts'[m].expired
      BY <2>3, <3>1, <3>2 DEF Ordered
    <3> QED BY <2>1, <2>3, <3>1, <3>3 DEF LoopInOrder, Ordered, LoopOf
  <2>9. ASSUME NEW e \in Events, EventInvoked(e) PROVE LoopInOrder'
    <3>1. e \in T /\ LoopOf(cur', cur, T, L, e, cur.settled)
      BY <2>1, <2>9, LoopFacts
    <3> QED BY <2>1, <2>3, <3>1 DEF LoopInOrder, Ordered, LoopOf
  <2>10. ASSUME NEW e \in Events, EventRecorded(e) PROVE LoopInOrder'
    <3>1. x = e /\ LoopOf(cur', cur, T \ {e}, L, NoEvent, cur.settled \cup {e})
      BY <2>1, <2>10, LoopFacts
    <3>2. AlreadyRun(e)' /\ e \in T
      BY <2>2, <2>10, <3>1, RecordGrows, ChannelAssumption DEF Ordered
    <3>3. \A m \in R \ (T \ {e}) : IsWorkspaceMutation(m) => AlreadyRun(m)' \/ evts'[m].expired
      BY <2>3, <3>2 DEF Ordered
    <3> QED BY <2>1, <2>3, <3>1, <3>3 DEF LoopInOrder, Ordered, LoopOf
  <2>11. ASSUME NEW e \in Events, NEW m \in BOOLEAN, EventThrows(e, m) \/ RecordThrows(e, m)
         PROVE  LoopInOrder'
    <3>1. LoopOf(cur', cur, Remaining(e), L, NoEvent, cur.settled)
      BY <2>1, <2>11, LoopFacts
    <3>2. Remaining(e) = IF IsWorkspaceMutation(e) THEN {} ELSE T \ {e}
      BY <2>1 DEF Remaining
    <3>3. \A n \in R \ Remaining(e) : IsWorkspaceMutation(n) =>
            Remaining(e) = {} \/ AlreadyRun(n)' \/ evts'[n].expired
      BY <2>3, <3>2 DEF Ordered
    <3>4. Remaining(e) \subseteq R
      BY <2>3, <3>2 DEF Ordered
    <3>5. \A l \in L : evts'[l].expired
      BY <2>3 DEF Ordered
    <3>6. /\ cur'.req.events = R /\ cur'.evtodo = Remaining(e) /\ cur'.late = L
          /\ cur'.running = NoEvent
      BY <2>1, <3>1 DEF LoopOf
    <3> HIDE DEF Remaining
    <3> QED BY <3>3, <3>4, <3>5, <3>6 DEF LoopInOrder
  <2>12. ASSUME NEW b \in CapSets, NEW m \in BOOLEAN, Boot(b, m) PROVE FALSE
    BY <1>3, <2>12 DEF Boot, BootMachine, StoppedIsEmpty
  <2>13. ASSUME NEW r \in net, Receive(r) PROVE FALSE
    BY <1>3, <2>13 DEF Receive, ReceiveApply
  <2> QED BY <2>5, <2>6, <2>7, <2>8, <2>9, <2>10, <2>11, <2>12, <2>13 DEF LoopMoves
<1> QED BY <1>1, <1>2, <1>3

---------------------------------------------------------------------------
(* What a hello reports *)

LEMMA HelloMoves ==
  ASSUME [Next]_vars
  PROVE  \/ hello' = hello \/ HelloSend \/ HelloUpsert
         \/ hello'.version = 0 /\ hello'.bumped = 0
<1> USE DEF vars, srvVars
<1>1. HelloDue.version = 0 /\ HelloDue.bumped = 0
      /\ [HelloDue EXCEPT !.phase = "done"].version = 0
      /\ [HelloDue EXCEPT !.phase = "done"].bumped = 0
  BY DEF HelloDue
<1>2. ASSUME HelloCheck \/ HelloFails \/ Stop
      PROVE  hello'.version = 0 /\ hello'.bumped = 0
  BY <1>1, <1>2 DEF HelloCheck, HelloFails, Stop
<1>3. ASSUME DomainNext PROVE hello' = hello
  BY <1>3 DEF DomainNext, EditContributions, EditWithoutBump, LateBump, PostEvent, EventExpires
<1>4. ASSUME NEW s \in Slots, WorkerStep(s) PROVE hello' = hello
  BY <1>4 DEF WorkerStep, TakeJob, DeferToReady, DeferToHello, ReadCaps, BuildPayload, SendApply,
              SendFails, RecordOutcome, RecordAnswer
<1>5. ASSUME AgentStep PROVE hello' = hello
  BY <1>5 DEF AgentStep, Receive, DriverOk, StartEvents, EventSkipped, EventInvoked,
              EventRecorded, Finish
<1>6. ASSUME \/ \E s \in Slots : LoseAttempt(s) \/ LoseJob(s) \/ RecordThenFails(s)
             \/ GatewayRolls \/ \E k \in Kinds : DriverThrows(k)
             \/ \E e \in Events, r \in BOOLEAN : EventThrows(e, r) \/ RecordThrows(e, r)
             \/ ApplyRejects
      PROVE  hello' = hello
  BY <1>6 DEF LoseAttempt, LoseJob, RecordThenFails, RecordAnswer, GatewayRolls, DriverThrows,
              EventThrows, RecordThrows, ApplyRejects
<1>7. ASSUME \/ \E seen \in {"running", "stopped", "unknown"} : Sweep(seen)
             \/ BecomeReady \/ UNCHANGED vars
             \/ \E b \in CapSets, m \in BOOLEAN : Boot(b, m)
      PROVE  hello' = hello
  BY <1>7 DEF Sweep, BecomeReady, Boot
<1> HIDE DEF vars, srvVars
<1> QED BY <1>2, <1>3, <1>4, <1>5, <1>6, <1>7 DEF Next, FaultNext, HelloStep

LEMMA HelloSaneStep ==
  ASSUME TypeOK, Safe, HelloSane, StepKind, [Next]_vars,
         row'.version \in {row.version, row.version + 1}
  PROVE  HelloSane'
<1>0. /\ row.version \in Nat /\ local.version \in Nat /\ local.version <= row.version
      /\ hello.version \in Nat /\ hello.bumped \in Nat /\ hello \in Hellos
  BY VersionTypes DEF Safe, CursorsOrdered, TypeOK, Hellos
<1>1. local'.version > 0 => local'.hash # NoSnap
  <2>1. CASE Finish
    <3>1. local' = local \/ local' = [version |-> cur.req.version, hash |-> cur.req.snap]
      BY <2>1 DEF Finish, FinishApply
    <3>2. cur # NoApply
      BY <2>1 DEF Finish, FinishApply, ReadyToAnswer
    <3>3. cur.req.snap # NoSnap
      BY <3>2, VersionTypes, RequestFields, ContentAssumption
    <3> QED BY <3>1, <3>3 DEF HelloSane
  <2>2. ASSUME NEW b \in CapSets, NEW m \in BOOLEAN, Boot(b, m)
        PROVE  local' = local \/ local'.version = 0
    BY <2>2, SMTT(60) DEF Boot, BootMachine
  <2>3. local' = local \/ Finish \/ \E b \in CapSets, m \in BOOLEAN : Boot(b, m)
    BY ZenonT(60) DEF StepKind, BumpStep, SilentEdit, CapsStep, EventStep, EndStep, TakeJob,
       ReadCaps, BuildPayload, SendApply, RecordAnswer, LoseAttempt, Receive, ReceiveApply,
       DriverOk, RunDriver, DriverThrows, DriverFails, ApplyRejects,
       AbortApply, Stop, StopMachine, safeVars, srvVars, chanVars
  <2> QED BY <1>0, <2>1, <2>2, <2>3 DEF HelloSane
<1>2. CASE hello' = hello
  BY <1>0, <1>1, <1>2 DEF HelloSane
<1>3. CASE HelloSend
  <2>1. hello'.version = local.version /\ hello'.hash = local.hash /\ hello'.bumped = 0
    BY <1>3 DEF HelloSend
  <2> QED BY <1>0, <1>1, <2>1 DEF HelloSane
<1>4. CASE HelloUpsert
  <2>1. CASE hello' = [hello EXCEPT !.phase = "upserted", !.bumped = row.version + 1]
             /\ row' = BumpVersion(row, TRUE)
    <3>1. hello'.version = hello.version /\ hello'.hash = hello.hash
          /\ hello'.bumped = row.version + 1
      BY <1>0, <2>1 DEF Hellos
    <3>2. row'.version = row.version + 1
      BY <2>1, BumpFacts DEF TypeOK
    <3> QED BY <1>0, <1>1, <3>1, <3>2 DEF HelloSane
  <2>2. CASE hello' = [hello EXCEPT !.phase = "upserted"]
    <3>1. hello'.version = hello.version /\ hello'.hash = hello.hash
          /\ hello'.bumped = hello.bumped
      BY <1>0, <2>2 DEF Hellos
    <3> QED BY <1>0, <1>1, <3>1 DEF HelloSane
  <2> QED BY <1>4, <2>1, <2>2 DEF HelloUpsert
<1>5. CASE hello'.version = 0 /\ hello'.bumped = 0
  BY <1>0, <1>1, <1>5 DEF HelloSane
<1> QED BY <1>2, <1>3, <1>4, <1>5, HelloMoves

---------------------------------------------------------------------------
EInv == IInv /\ EventsSafe

LEMMA InitEvents == Init => EventsSafe
<1> SUFFICES ASSUME Init PROVE EventsSafe
  OBVIOUS
<1>0. TypeOK
  BY InitType
<1>1. \A e \in Events : evts[e] = NoEventRow
  BY DEF Init
<1>2. RowsIssued /\ ChargedOnlyWhenTried
  BY <1>1 DEF RowsIssued, ChargedOnlyWhenTried, NoEventRow, Init, NoRow
<1>3. PayloadsComplete
  BY DEF Init, ChanInit, PayloadsComplete, Carried, Built, Idle
<1>4. LoopInOrder
  BY DEF Init, ChanInit, LoopInOrder
<1>5. RunsBooked
  BY EventTypes, <1>0 DEF Init, ChanInit, RunsBooked, Owed, Runs, AlreadyRun
<1>6. HelloSane
  BY DEF Init, ChanInit, HelloSane, HelloDue, NoRow
<1> QED BY <1>2, <1>3, <1>4, <1>5, <1>6 DEF EventsSafe

LEMMA EventsSafeStep ==
  ASSUME IInv, EventsSafe, [Next]_vars
  PROVE  EventsSafe'
<1>0. TypeOK /\ HandlerActive /\ Safe /\ StoppedIsEmpty
  BY DEF IInv, Safe
<1>1. /\ RowsIssued /\ PayloadsComplete /\ RunsBooked /\ LoopInOrder
      /\ ChargedOnlyWhenTried /\ HelloSane
  BY DEF EventsSafe
<1>2. TypeOK' /\ StepKind
  BY <1>0, TypeStep, StepKinds
<1>3. EventsMove /\ (EventsMoveQuietly \/ Records)
  BY <1>0, EventsStep, EventRowsStep
<1>4. row'.version \in {row.version, row.version + 1}
  BY <1>0, VersionGrows
<1>5. LoopMoves
  BY <1>0, <1>2, LoopStep
<1>6. RowsIssued'
  BY <1>0, <1>1, <1>3, <1>4, RowsIssuedStep
<1>7. PayloadsComplete'
  BY <1>0, <1>1, <1>2, <1>3, PayloadsCompleteStep
<1>8. ChargedOnlyWhenTried'
  BY <1>0, <1>1, <1>3, <1>4, ChargedStep
<1>9. RunsBooked'
  BY <1>0, <1>1, <1>2, <1>5, BookedStep
<1>10. LoopInOrder'
  BY <1>0, <1>1, <1>2, <1>3, <1>5, OrderedStep
<1>11. HelloSane'
  BY <1>0, <1>1, <1>2, <1>4, HelloSaneStep
<1> QED BY <1>6, <1>7, <1>8, <1>9, <1>10, <1>11 DEF EventsSafe

LEMMA InvStep ==
  ASSUME IInv, [Next]_vars
  PROVE  IInv'
BY TypeStep, HandlerStep, SafeStep DEF IInv

(* The inductive invariant of the events holds in every reachable state. *)
THEOREM EventsInvariant == Spec => []EInv
<1>1. Init => EInv
  <2>1. Init => IInv
    <3>1. Init => HandlerActive
      BY DEF Init, HandlerActive, Idle
    <3> QED BY <3>1, InitType, InitSafe DEF IInv
  <2> QED BY <2>1, InitEvents DEF EInv
<1>2. EInv /\ [Next]_vars => EInv'
  BY InvStep, EventsSafeStep DEF EInv
<1> QED BY <1>1, <1>2, PTL DEF Spec

(* A directive's handler does its work once more only after a run of it   *)
(* was lost, by a stop or by a failing write to the state store, whatever *)
(* answers are lost, jobs doubled or requests late.                       *)
THEOREM RefiresOnlyAfterALostRun == Spec => []RefireOnlyAcrossCrash
<1>1. EInv => RefireOnlyAcrossCrash
  <2> SUFFICES ASSUME EInv, NEW e \in Events PROVE effects[e] <= 1 + lostRuns[e]
    BY DEF RefireOnlyAcrossCrash
  <2>1. effects[e] \in Nat /\ lostRuns[e] \in Nat
    BY EventTypes DEF EInv, IInv
  <2>2. effects[e] <= lostRuns[e] + (IF Owed(e) THEN 1 ELSE 0)
    BY DEF EInv, EventsSafe, RunsBooked
  <2> QED BY <2>1, <2>2
<1> QED BY <1>1, EventsInvariant, PTL

(* A workspace mutation is charged an attempt only when every mutation    *)
(* before it has run, was given up or has expired.                        *)
THEOREM MutationsChargedInTurn == Spec => []ChargedOnlyWhenTried
<1>1. EInv => ChargedOnlyWhenTried
  BY DEF EInv, EventsSafe
<1> QED BY <1>1, EventsInvariant, PTL

(* Work is done in one place only: the loop's call of the handler. *)
LEMMA WorkIsInvoked ==
  ASSUME TypeOK, LoopMoves, NEW e \in Events, effects'[e] > effects[e]
  PROVE  EventInvoked(e)
<1>0. effects \in [Events -> Nat] /\ effects[e] \in Nat
  BY EventTypes DEF TypeOK
<1>1. ASSUME effects' = effects PROVE FALSE
  BY <1>0, <1>1
<1>2. ASSUME \/ LoopStill \/ LoopEnds \/ StartEvents \/ Stop
             \/ \E r \in net : Receive(r)
             \/ \E b \in CapSets, m \in BOOLEAN : Boot(b, m)
      PROVE  effects' = effects
  BY <1>2 DEF LoopStill, LoopEnds, SameBooks, StartEvents, BeginEvents, Stop, StopMachine,
     Receive, ReceiveApply, Boot, BootMachine
<1>3. ASSUME NEW f \in Events, \/ EventSkipped(f) \/ EventRecorded(f)
                               \/ \E m \in BOOLEAN : EventThrows(f, m) \/ RecordThrows(f, m)
      PROVE  effects' = effects
  BY <1>3, LoopFacts DEF SameBooks
<1>4. PICK f \in Events : EventInvoked(f)
  BY <1>1, <1>2, <1>3 DEF LoopMoves
<1>5. effects' = IF EvKind[f] \in bound THEN [effects EXCEPT ![f] = @ + 1] ELSE effects
  BY <1>4, LoopFacts
<1>6. f = e
  BY <1>0, <1>1, <1>5
<1> QED BY <1>4, <1>6

LEMMA StepLoop ==
  ASSUME EInv, [Next]_vars
  PROVE  TypeOK /\ LoopMoves
<1>1. TypeOK
  BY DEF EInv, IInv
<1>2. TypeOK'
  BY <1>1, TypeStep
<1> QED BY <1>1, <1>2, LoopStep

(* Once a newer directive of a key is on record as run, no older one does *)
(* its work, however late its request arrives.                            *)
THEOREM NewerIsNeverUndone == Spec => OlderNeverAfterNewer
<1> DEFINE InOrder ==
      \A e, f \in Events :
        /\ effects'[e] > effects[e]
        /\ EvKey[f] = EvKey[e] /\ EvTs[f] > EvTs[e]
        => effects[f] = lostRuns[f]
<1>1. EInv /\ [Next]_vars => [InOrder]_vars
  <2> SUFFICES ASSUME EInv, [Next]_vars, NEW e \in Events, NEW f \in Events,
                      effects'[e] > effects[e], EvKey[f] = EvKey[e], EvTs[f] > EvTs[e]
               PROVE  effects[f] = lostRuns[f]
    OBVIOUS
  <2>0. TypeOK /\ LoopMoves
    BY StepLoop
  <2>1. EventInvoked(e)
    BY <2>0, WorkIsInvoked
  <2>2. cur.running = NoEvent /\ ~AlreadyRun(e)
    BY <2>0, <2>1, LoopFacts
  <2>3. /\ EvTs[e] \in Nat /\ EvTs[f] \in Nat /\ runs[EvKey[e]] \in Nat /\ f # NoEvent
        /\ effects[f] \in Nat /\ lostRuns[f] \in Nat
    BY <2>0, EventTypes
  <2>4. ~AlreadyRun(f)
    BY <2>2, <2>3 DEF AlreadyRun
  <2>5. ~Owed(f)
    BY <2>2, <2>3, <2>4 DEF Owed, Runs
  <2>6. effects[f] <= lostRuns[f] + (IF Owed(f) THEN 1 ELSE 0) /\ lostRuns[f] <= effects[f]
    BY DEF EInv, EventsSafe, RunsBooked
  <2> QED BY <2>3, <2>5, <2>6
<1> QED BY <1>1, EventsInvariant, PTL DEF Spec, OlderNeverAfterNewer

(* When a handler is called, no workspace mutation posted before its      *)
(* event waits without having run: the payload left none out, and the     *)
(* loop has not passed one.                                               *)
LEMMA HeldAtInvocation ==
  ASSUME EInv, NEW e \in Events, EventInvoked(e), NEW m \in Events, IsWorkspaceMutation(m),
         evts[m].version < evts[e].version, Waiting(m)
  PROVE  AlreadyRun(m)
<1>0. TypeOK
  BY DEF EInv, IInv
<1>2. cur # NoApply /\ e \in cur.evtodo
  BY <1>0, LoopFacts
<1>3. FirstOf(e, cur.evtodo)
  BY DEF EventInvoked, NextEvent
<1>4. evts[e].version \in Nat /\ evts[m].version \in Nat
  BY <1>0, EventTypes
<1>5. m \notin cur.evtodo
  BY <1>3, <1>4 DEF FirstOf
<1>6. LoopInOrder /\ PayloadsComplete
  BY DEF EInv, EventsSafe
<1>7. cur.req.events \in SUBSET Events
  BY <1>0, <1>2, VersionTypes, RequestFields
<1>8. Complete(cur.req.events)
  BY <1>2, <1>6, <1>7 DEF PayloadsComplete, Carried
<1>9. e \in cur.req.events
  BY <1>2, <1>6 DEF LoopInOrder
<1>10. m \in cur.req.events
  BY <1>8, <1>9 DEF Complete
<1>11. cur.evtodo = {} \/ AlreadyRun(m) \/ evts[m].expired
  BY <1>2, <1>5, <1>6, <1>10 DEF LoopInOrder
<1> QED BY <1>2, <1>11 DEF Waiting

(* No directive does its work while a workspace mutation posted before it *)
(* waits and has not run: the payloads leave no such mutation out, and    *)
(* the loop stops at one that fails.                                      *)
THEOREM NothingOvertakesAMutation == Spec => HeldBehindMutation
<1> DEFINE Held ==
      \A e, m \in Events :
        /\ effects'[e] > effects[e]
        /\ IsWorkspaceMutation(m)
        /\ evts[m].version < evts[e].version
        => evts[m].st # "pending" \/ evts[m].expired \/ AlreadyRun(m)
<1>1. EInv /\ [Next]_vars => [Held]_vars
  <2> SUFFICES ASSUME EInv, [Next]_vars, NEW e \in Events, NEW m \in Events,
                      effects'[e] > effects[e], IsWorkspaceMutation(m),
                      evts[m].version < evts[e].version, Waiting(m)
               PROVE  AlreadyRun(m)
    BY DEF Waiting
  <2>1. EventInvoked(e)
    BY StepLoop, WorkIsInvoked
  <2> QED BY <2>1, HeldAtInvocation
<1> QED BY <1>1, EventsInvariant, PTL DEF Spec, HeldBehindMutation

(* Only the comparison of the reported cursor ends a hello. *)
LEMMA HelloEnds ==
  ASSUME [Next]_vars, hello.phase = "upserted", hello'.phase = "done"
  PROVE  HelloCheck
<1> USE DEF vars, srvVars
<1>1. hello' # hello /\ HelloDue.phase = "due"
  BY DEF HelloDue
<1>2. ~HelloSend /\ ~HelloUpsert
  BY DEF HelloSend, HelloUpsert
<1>3. ~HelloFails /\ ~Stop
  BY <1>1 DEF HelloFails, Stop
<1>4. ~DomainNext
  BY <1>1 DEF DomainNext, EditContributions, EditWithoutBump, LateBump, PostEvent, EventExpires
<1>5. ASSUME NEW s \in Slots, WorkerStep(s) PROVE FALSE
  BY <1>1, <1>5 DEF WorkerStep, TakeJob, DeferToReady, DeferToHello, ReadCaps, BuildPayload,
     SendApply, SendFails, RecordOutcome, RecordAnswer
<1>6. ~AgentStep
  BY <1>1 DEF AgentStep, Receive, DriverOk, StartEvents, EventSkipped, EventInvoked,
              EventRecorded, Finish
<1>7. ~(\/ \E s \in Slots : LoseAttempt(s) \/ LoseJob(s) \/ RecordThenFails(s)
        \/ GatewayRolls \/ \E k \in Kinds : DriverThrows(k)
        \/ \E e \in Events, r \in BOOLEAN : EventThrows(e, r) \/ RecordThrows(e, r)
        \/ ApplyRejects)
  BY <1>1 DEF LoseAttempt, LoseJob, RecordThenFails, RecordAnswer, GatewayRolls, DriverThrows,
              EventThrows, RecordThrows, ApplyRejects
<1>8. ~(\/ \E seen \in {"running", "stopped", "unknown"} : Sweep(seen)
        \/ BecomeReady \/ UNCHANGED vars
        \/ \E b \in CapSets, m \in BOOLEAN : Boot(b, m))
  BY <1>1 DEF Sweep, BecomeReady, Boot
<1> HIDE DEF vars, srvVars
<1> QED BY <1>2, <1>3, <1>4, <1>5, <1>6, <1>7, <1>8 DEF Next, FaultNext, HelloStep

(* A hello that ends has found the agent's reported contents to be the    *)
(* ones built now, or leaves it a newer version to fetch.                 *)
THEOREM HelloCatchesDrift == Spec => HelloLeavesNoDrift
<1> DEFINE NoDrift ==
      hello.phase = "upserted" /\ hello'.phase = "done" /\ row.version > 0
        => \/ row'.version > hello.version
           \/ BuildState(bound) = hello.hash
<1>1. EInv /\ [Next]_vars => [NoDrift]_vars
  <2> SUFFICES ASSUME EInv, [Next]_vars, hello.phase = "upserted", hello'.phase = "done",
                      row.version > 0, BuildState(bound) # hello.hash
               PROVE  row'.version > hello.version
    OBVIOUS
  <2>0. TypeOK /\ HelloSane
    BY DEF EInv, IInv, EventsSafe
  <2>1. HelloCheck
    BY HelloEnds
  <2>2. row \in Rows /\ row.version \in Nat /\ hello.version \in Nat /\ hello.bumped \in Nat
    BY <2>0, VersionTypes DEF TypeOK, Hellos
  <2>3. CASE Drifted
    <3>1. row' = BumpVersion(row, TRUE)
      BY <2>1, <2>3 DEF HelloCheck
    <3>2. row'.version = row.version + 1
      BY <2>2, <3>1, BumpFacts
    <3>3. row.version = hello.version
      BY <2>3 DEF Drifted
    <3> QED BY <2>2, <3>2, <3>3
  <2>4. CASE ~Drifted
    <3>1. row' = row
      BY <2>1, <2>4 DEF HelloCheck
    <3>2. hello.bumped # 0 \/ row.version # hello.version \/ hello.hash = NoSnap
      BY <2>4 DEF Drifted
    <3> QED BY <2>0, <2>2, <3>1, <3>2 DEF HelloSane
  <2> QED BY <2>3, <2>4
<1> QED BY <1>1, EventsInvariant, PTL DEF Spec, HelloLeavesNoDrift

---------------------------------------------------------------------------
(* What the platform takes for settled is on the agent's record *)

Passed(e) == AlreadyRun(e) \/ evts[e].expired

(* What the loop has settled, an answer reports and a row says is done    *)
(* has a fire time on the agent's record, or its time had passed.         *)
SettledOnRecord ==
  /\ cur # NoApply => \A e \in cur.settled : Passed(e)
  /\ \A s \in Slots : worker[s].phase = "answered" =>
       \A e \in worker[s].answer.events : Passed(e)
  /\ \A e \in Events : StampedDone(evts[e]) => Passed(e)

LEMMA PassedStays ==
  ASSUME TypeOK, RowsIssued, EventsMove, RunsBooked, LoopMoves, NEW e \in Events, Passed(e)
  PROVE  Passed(e)'
<1>1. AlreadyRun(e) => AlreadyRun(e)'
  BY RunsStay
<1>2. evts[e].expired => evts'[e].expired
  BY ExpiredStays
<1> QED BY <1>1, <1>2 DEF Passed

(* The loop settles an event that is on record, has expired or just ran. *)
LEMMA SettledStep ==
  ASSUME TypeOK, TypeOK', RowsIssued, EventsMove, StoppedIsEmpty, RunsBooked,
         LoopInOrder, LoopMoves, SettledOnRecord, cur' # NoApply, NEW f \in cur'.settled
  PROVE  Passed(f)'
<1>0. \A e \in Events : Passed(e) => Passed(e)'
  BY PassedStays
<1>1. f \in Events
  BY ApplyFields DEF TypeOK
<1>2. ASSUME cur # NoApply, cur'.settled = cur.settled PROVE Passed(f)
  BY <1>2 DEF SettledOnRecord
<1>3. CASE LoopStill
  BY <1>0, <1>1, <1>3, <1>2 DEF LoopStill
<1>4. CASE LoopEnds \/ Stop
  BY <1>4 DEF LoopEnds, Stop, StopMachine
<1>5. CASE StartEvents
  BY <1>0, <1>1, <1>2, <1>5, StartFacts DEF LoopOf
<1>6. ASSUME NEW r \in net, Receive(r) PROVE FALSE
  BY <1>6, ReceiveFacts
<1>7. ASSUME NEW e \in Events, EventSkipped(e) PROVE Passed(f)
  <2>1. /\ cur # NoApply /\ (AlreadyRun(e) \/ e \in cur.late)
        /\ cur'.settled = cur.settled \cup {e}
    BY <1>7, LoopFacts DEF LoopOf
  <2>2. Passed(e)
    BY <2>1 DEF LoopInOrder, Passed
  <2> QED BY <2>1, <2>2 DEF SettledOnRecord
<1>8. ASSUME NEW e \in Events, EventInvoked(e) PROVE Passed(f)
  <2>1. cur # NoApply /\ cur'.settled = cur.settled
    BY <1>8, LoopFacts DEF LoopOf
  <2> QED BY <1>2, <2>1
<1>9. ASSUME NEW e \in Events, EventRecorded(e) PROVE Passed(f)'
  <2>1. cur # NoApply /\ cur'.settled = cur.settled \cup {e}
    BY <1>9, LoopFacts DEF LoopOf
  <2>2. AlreadyRun(e)'
    BY <1>9, RecordGrows
  <2>3. Passed(e)'
    BY <2>2 DEF Passed
  <2> QED BY <1>0, <1>1, <2>1, <2>3 DEF SettledOnRecord
<1>10. ASSUME NEW e \in Events, NEW m \in BOOLEAN, EventThrows(e, m) \/ RecordThrows(e, m)
       PROVE  Passed(f)
  <2>1. cur # NoApply /\ cur'.settled = cur.settled
    BY <1>10, LoopFacts DEF LoopOf
  <2> QED BY <1>2, <2>1
<1>11. ASSUME NEW b \in CapSets, NEW m \in BOOLEAN, Boot(b, m) PROVE FALSE
  <2>1. cur = NoApply /\ cur' = cur
    BY <1>11 DEF Boot, BootMachine, StoppedIsEmpty
  <2> QED BY <2>1
<1> QED BY <1>0, <1>1, <1>3, <1>4, <1>5, <1>6, <1>7, <1>8, <1>9, <1>10, <1>11 DEF LoopMoves

(* An answer is what the loop has settled, and stays what it is. *)
AnswerKept(s) ==
  worker'[s].phase = "answered" =>
    worker[s].phase = "answered" /\ worker'[s].answer = worker[s].answer

LEMMA AnswerReplaced ==
  ASSUME TypeOK, NEW s \in Slots, NEW v, worker' = [worker EXCEPT ![s] = v],
         v.phase # "answered", NEW x \in Slots
  PROVE  AnswerKept(x)
<1>1. worker'[x] = IF x = s THEN v ELSE worker[x]
  BY DEF TypeOK
<1> QED BY <1>1 DEF AnswerKept

LEMMA AnswersStep ==
  ASSUME TypeOK, StepKind, NEW x \in Slots
  PROVE  \/ AnswerKept(x)
         \/ cur # NoApply /\ worker'[x].answer.events = cur.settled
<1>0. Idle.phase = "idle"
  BY DEF Idle
<1>1. ASSUME worker' = worker PROVE AnswerKept(x)
  BY <1>1 DEF AnswerKept
<1>2. ASSUME NEW s \in Slots, worker' = [worker EXCEPT ![s] = Idle] PROVE AnswerKept(x)
  BY <1>0, <1>2, AnswerReplaced
<1>3. ASSUME NEW s \in Slots, EndStep(s) \/ RecordAnswer(s) \/ LoseAttempt(s)
      PROVE  AnswerKept(x)
  BY <1>2, <1>3 DEF EndStep, RecordAnswer, LoseAttempt, AttemptFails, WorkerStops
<1>4. ASSUME NEW s \in Slots, TakeJob(s) PROVE AnswerKept(x)
  <2>1. CASE row.version = 0
    BY <1>1, <1>4, <2>1 DEF TakeJob
  <2>2. CASE row.version # 0
    <3>1. PICK v : v = [worker[s] EXCEPT !.phase = "row", !.version = row.version]
      OBVIOUS
    <3>2. v.phase = "row"
      BY <3>1 DEF TypeOK, Workers
    <3>3. worker' = [worker EXCEPT ![s] = v]
      BY <1>4, <2>2, <3>1 DEF TakeJob, TypeOK
    <3> QED BY <3>2, <3>3, AnswerReplaced
  <2> QED BY <2>1, <2>2
<1>5. ASSUME NEW s \in Slots, ReadCaps(s) PROVE AnswerKept(x)
  <2>1. PICK v : v = [worker[s] EXCEPT !.phase = "caps", !.caps = caps]
    OBVIOUS
  <2>2. v.phase = "caps"
    BY <2>1 DEF TypeOK, Workers
  <2>3. worker' = [worker EXCEPT ![s] = v]
    BY <1>5, <2>1 DEF ReadCaps, TypeOK
  <2> QED BY <2>2, <2>3, AnswerReplaced
<1>6. ASSUME NEW s \in Slots, BuildPayload(s) PROVE AnswerKept(x)
  <2>1. PICK v : v = [worker[s] EXCEPT !.phase = "built", !.caps = {},
                        !.snap = BuildState(worker[s].caps),
                        !.dropped = DroppedKinds(worker[s].caps),
                        !.events = DeliverableEvents(worker[s].caps)]
    OBVIOUS
  <2>2. v.phase = "built"
    BY <2>1 DEF TypeOK, Workers
  <2>3. worker' = [worker EXCEPT ![s] = v]
    BY <1>6, <2>1 DEF BuildPayload, TypeOK
  <2> QED BY <2>2, <2>3, AnswerReplaced
<1>7. ASSUME NEW s \in Slots, SendApply(s) PROVE AnswerKept(x)
  <2>1. PICK v : v = [worker[s] EXCEPT !.phase = "sent"]
    OBVIOUS
  <2>2. v.phase = "sent"
    BY <2>1 DEF TypeOK, Workers
  <2>3. worker' = [worker EXCEPT ![s] = v]
    BY <1>7, <2>1 DEF SendApply, TypeOK
  <2> QED BY <2>2, <2>3, AnswerReplaced
<1>8. CASE Finish
  <2>1. cur # NoApply
    BY <1>8 DEF Finish, FinishApply, ReadyToAnswer
  <2>2. CASE cur.req.abandoned = 0
    <3>1. PICK s \in Slots : s = cur.req.slot
      BY <2>1, VersionTypes
    <3>2. PICK v : v = [worker[s] EXCEPT !.phase = "answered", !.answer = Answer]
      OBVIOUS
    <3>3. v.answer = Answer
      BY <3>2 DEF TypeOK, Workers
    <3>4. Answer.events = cur.settled
      BY DEF Answer
    <3>5. worker' = [worker EXCEPT ![s] = v]
      BY <1>8, <2>2, <3>1, <3>2 DEF Finish, TypeOK
    <3>6. worker'[x] = IF x = s THEN v ELSE worker[x]
      BY <3>5 DEF TypeOK
    <3> QED BY <2>1, <3>3, <3>4, <3>6 DEF AnswerKept
  <2>3. CASE cur.req.abandoned # 0
    BY <1>1, <1>8, <2>3 DEF Finish
  <2> QED BY <2>2, <2>3
<1>9. CASE ApplyRejects
  <2>1. cur # NoApply
    BY <1>9 DEF ApplyRejects, AbortApply
  <2>2. CASE cur.req.abandoned = 0
    <3>1. PICK s \in Slots : s = cur.req.slot
      BY <2>1, VersionTypes
    <3>2. worker' = [worker EXCEPT ![s] = Idle]
      BY <1>9, <2>2, <3>1 DEF ApplyRejects, AttemptFails, WorkerStops
    <3> QED BY <1>2, <3>2
  <2>3. CASE cur.req.abandoned # 0
    BY <1>1, <1>9, <2>3 DEF ApplyRejects
  <2> QED BY <2>2, <2>3
<1>10. CASE Stop
  <2>1. \A s \in Slots : worker'[s] = Idle \/ worker'[s] = worker[s]
    BY <1>10 DEF Stop
  <2> QED BY <1>0, <2>1 DEF AnswerKept
<1>11. ASSUME \/ \E r \in net : Receive(r)
              \/ \E k \in Kinds : DriverOk(k) \/ DriverThrows(k)
              \/ \E b \in CapSets, m \in BOOLEAN : Boot(b, m)
       PROVE  worker' = worker
  BY <1>11 DEF Receive, DriverOk, DriverThrows, Boot, srvVars
<1>12. CASE BumpStep \/ SilentEdit \/ CapsStep \/ EventStep \/ UNCHANGED safeVars
  BY <1>1, <1>12 DEF BumpStep, SilentEdit, CapsStep, EventStep, safeVars
<1> QED BY <1>1, <1>3, <1>4, <1>5, <1>6, <1>7, <1>8, <1>9, <1>10, <1>11, <1>12 DEF StepKind

LEMMA SettledOnRecordStep ==
  ASSUME EInv, SettledOnRecord, [Next]_vars
  PROVE  SettledOnRecord'
<1>0. /\ TypeOK /\ StoppedIsEmpty /\ RowsIssued /\ RunsBooked /\ LoopInOrder
      /\ LoopMoves
  BY StepLoop DEF EInv, IInv, Safe, EventsSafe
<1>1. TypeOK' /\ EventsMove /\ StepKind /\ (EventsMoveQuietly \/ Records)
  <2>1. TypeOK /\ HandlerActive
    BY DEF EInv, IInv
  <2> QED BY <2>1, TypeStep, EventsStep, StepKinds, EventRowsStep
<1>2. \A e \in Events : Passed(e) => Passed(e)'
  BY <1>0, <1>1, PassedStays
<1>3. cur' # NoApply => \A e \in cur'.settled : Passed(e)'
  BY <1>0, <1>1, SettledStep
<1>4. ASSUME NEW s \in Slots, worker'[s].phase = "answered", NEW e \in worker'[s].answer.events
      PROVE  Passed(e)'
  <2>1. e \in Events
    <3>1. worker'[s] \in Workers
      BY <1>1 DEF TypeOK
    <3>2. worker'[s].answer \in Answers
      BY <3>1, WorkerFields
    <3> QED BY <1>4, <3>2, AnswerFields
  <2>2. CASE AnswerKept(s)
    BY <1>2, <1>4, <2>1, <2>2 DEF AnswerKept, SettledOnRecord
  <2>3. CASE cur # NoApply /\ worker'[s].answer.events = cur.settled
    BY <1>2, <1>4, <2>1, <2>3 DEF SettledOnRecord
  <2> QED BY <1>0, <1>1, <2>2, <2>3, AnswersStep
<1>5. ASSUME NEW e \in Events, StampedDone(evts'[e])
      PROVE  Passed(e)'
  <2>1. ASSUME StampedDone(evts[e]) PROVE Passed(e)'
    BY <1>2, <2>1 DEF SettledOnRecord
  <2>2. CASE EventsMoveQuietly
    BY <1>5, <2>1, <2>2 DEF EventsMoveQuietly, FollowsQuietly, Posted, StampedDone
  <2>3. ASSUME NEW s \in Slots, RecordAnswer(s) PROVE Passed(e)'
    <3>1. CASE e \in worker[s].answer.events
      <4>1. worker[s].phase = "answered"
        BY <2>3 DEF RecordAnswer
      <4> QED BY <1>2, <3>1, <4>1 DEF SettledOnRecord
    <3>2. CASE e \notin worker[s].answer.events
      <4>1. StampedDone(evts[e])
        BY <1>0, <1>5, <2>3, <3>2, RecordMoves
      <4> QED BY <2>1, <4>1
    <3> QED BY <3>1, <3>2
  <2> QED BY <1>1, <2>2, <2>3 DEF Records
<1> QED BY <1>3, <1>4, <1>5 DEF SettledOnRecord

LEMMA InitOnRecord == Init => SettledOnRecord
<1> SUFFICES ASSUME Init PROVE SettledOnRecord
  OBVIOUS
<1>1. \A e \in Events : ~StampedDone(evts[e])
  BY DEF Init, NoEventRow, StampedDone
<1>2. cur = NoApply /\ \A s \in Slots : worker[s].phase = "idle"
  BY DEF Init, ChanInit, Idle
<1> QED BY <1>1, <1>2 DEF SettledOnRecord

(* What the loop settled, an answer reports or a row says is done is on   *)
(* the agent's record of runs, or its time had passed (event-loop.ts).    *)
THEOREM SettledIsOnRecord == Spec => []SettledOnRecord
BY InitOnRecord, SettledOnRecordStep, EventsInvariant, PTL DEF Spec

---------------------------------------------------------------------------
(* What is on record was done, where every image can do it *)

(* Every image that is booted has a handler for every kind of event. *)
EveryImageRuns == \A b \in CapSets, e \in Events : EvKind[e] \in b

(* A fire time on record is the one of a directive that did its work. *)
RecordsTrue ==
  \A k \in Keys : runs[k] = 0 \/ \E f \in Events : /\ EvKey[f] = k /\ EvTs[f] = runs[k]
                                                   /\ effects[f] > 0

LEMMA WorkGrows ==
  ASSUME TypeOK, LoopMoves, NEW e \in Events, effects[e] > 0
  PROVE  effects'[e] > 0
<1>0. effects \in [Events -> Nat] /\ effects[e] \in Nat
  BY EventTypes DEF TypeOK
<1>1. ASSUME effects' = effects PROVE effects'[e] > 0
  BY <1>1
<1>2. ASSUME \/ LoopStill \/ LoopEnds \/ StartEvents \/ Stop
             \/ \E r \in net : Receive(r)
             \/ \E b \in CapSets, m \in BOOLEAN : Boot(b, m)
      PROVE  effects' = effects
  BY <1>2 DEF LoopStill, LoopEnds, SameBooks, StartEvents, BeginEvents, Stop, StopMachine,
     Receive, ReceiveApply, Boot, BootMachine
<1>3. ASSUME NEW f \in Events, \/ EventSkipped(f) \/ EventRecorded(f)
                               \/ \E m \in BOOLEAN : EventThrows(f, m) \/ RecordThrows(f, m)
      PROVE  effects' = effects
  BY <1>3, LoopFacts DEF SameBooks
<1>4. ASSUME NEW f \in Events, EventInvoked(f) PROVE effects'[e] > 0
  <2>1. effects' = IF EvKind[f] \in bound THEN [effects EXCEPT ![f] = @ + 1] ELSE effects
    BY <1>4, LoopFacts
  <2>2. effects'[e] = effects[e] \/ effects'[e] = effects[e] + 1
    BY <1>0, <2>1
  <2> QED BY <1>0, <2>2
<1> QED BY <1>1, <1>2, <1>3, <1>4 DEF LoopMoves

LEMMA RunningRan ==
  ASSUME TypeOK, EveryImageRuns, RunsBooked, NEW e \in Events, Runs(e)
  PROVE  effects[e] > 0
<1>1. EvKind[e] \in bound
  BY DEF TypeOK, EveryImageRuns
<1>2. effects[e] \in Nat /\ lostRuns[e] \in Nat
  BY EventTypes
<1> QED BY <1>1, <1>2 DEF RunsBooked

(* A directive the loop passes over as already run did its work, or a     *)
(* newer one of its key did.                                              *)
LEMMA SkippedRan ==
  ASSUME TypeOK, RecordsTrue, NEW e \in Events, AlreadyRun(e)
  PROVE  RanOrReplaced(e)
<1>1. EvKey[e] \in Keys /\ EvTs[e] \in Nat /\ EvTs[e] > 0 /\ runs[EvKey[e]] \in Nat
  BY EventTypes
<1>2. runs[EvKey[e]] # 0 /\ EvTs[e] <= runs[EvKey[e]]
  BY <1>1 DEF AlreadyRun
<1>3. PICK f \in Events : EvKey[f] = EvKey[e] /\ EvTs[f] = runs[EvKey[e]] /\ effects[f] > 0
  BY <1>1, <1>2 DEF RecordsTrue
<1>4. CASE EvTs[f] = EvTs[e]
  <2>1. f = e
    BY <1>3, <1>4, EventIdAssumption
  <2> QED BY <1>3, <2>1 DEF RanOrReplaced
<1>5. CASE EvTs[f] # EvTs[e]
  <2>1. EvTs[f] > EvTs[e]
    BY <1>1, <1>2, <1>3, <1>5
  <2> QED BY <1>3, <2>1 DEF RanOrReplaced
<1> QED BY <1>4, <1>5

LEMMA RecordsTrueStep ==
  ASSUME TypeOK, EveryImageRuns, RunsBooked, LoopMoves, RecordsTrue
  PROVE  RecordsTrue'
<1>0. \A f \in Events : effects[f] > 0 => effects'[f] > 0
  BY WorkGrows
<1>1. ASSUME runs' = runs PROVE RecordsTrue'
  BY <1>0, <1>1 DEF RecordsTrue
<1>2. ASSUME NEW e \in Events, EventRecorded(e) PROVE RecordsTrue'
  <2>1. Runs(e) /\ runs' = [runs EXCEPT ![EvKey[e]] = EvTs[e]] /\ runs \in [Keys -> Nat]
    BY <1>2, LoopFacts DEF Runs, TypeOK
  <2>2. effects'[e] > 0
    BY <1>0, <2>1, RunningRan
  <2>3. \A k \in Keys : runs'[k] = IF k = EvKey[e] THEN EvTs[e] ELSE runs[k]
    BY <2>1
  <2> QED BY <1>0, <2>2, <2>3 DEF RecordsTrue
<1>3. ASSUME ~\E e \in Events : EventRecorded(e) PROVE runs' = runs
  <2>1. ASSUME NEW e \in Events,
               \/ EventSkipped(e) \/ EventInvoked(e)
               \/ \E m \in BOOLEAN : EventThrows(e, m) \/ RecordThrows(e, m)
        PROVE  runs' = runs
    BY <2>1, LoopFacts DEF SameBooks
  <2>2. ASSUME \/ LoopStill \/ LoopEnds \/ StartEvents \/ Stop
               \/ \E r \in net : Receive(r)
               \/ \E b \in CapSets, m \in BOOLEAN : Boot(b, m)
        PROVE  runs' = runs
    BY <2>2 DEF LoopStill, LoopEnds, SameBooks, StartEvents, BeginEvents, Stop, StopMachine,
       Receive, ReceiveApply, Boot, BootMachine
  <2> QED BY <1>3, <2>1, <2>2 DEF LoopMoves
<1> QED BY <1>1, <1>2, <1>3

(* A row stamped dispatched without an error stands for work that was     *)
(* done, had expired or was overtaken by a newer directive of its key.    *)
(* Every image has to bind every kind of event: one that no longer does   *)
(* settles a directive without doing anything (dispatcher.ts), and the    *)
(* row is stamped all the same.                                           *)
THEOREM SettledStandsForWork ==
  ASSUME EveryImageRuns
  PROVE  Spec => []SettledMeansRan
<1>1. Init => RecordsTrue
  BY Zenon DEF Init, ChanInit, RecordsTrue
<1>2. EInv /\ RecordsTrue /\ [Next]_vars => RecordsTrue'
  <2> SUFFICES ASSUME EInv, RecordsTrue, [Next]_vars PROVE RecordsTrue'
    OBVIOUS
  <2>1. TypeOK /\ RunsBooked /\ LoopMoves
    BY StepLoop DEF EInv, EventsSafe
  <2> QED BY <2>1, RecordsTrueStep
<1>3. EInv /\ RecordsTrue /\ SettledOnRecord => SettledMeansRan
  <2> SUFFICES ASSUME EInv, RecordsTrue, SettledOnRecord, NEW e \in Events,
                      StampedDone(evts[e])
               PROVE  RanOrReplaced(e)
    BY DEF SettledMeansRan, StampedDone
  <2>1. TypeOK /\ Passed(e)
    BY DEF EInv, IInv, SettledOnRecord
  <2>2. CASE AlreadyRun(e)
    BY <2>1, <2>2, SkippedRan
  <2>3. CASE evts[e].expired
    BY <2>3 DEF RanOrReplaced
  <2> QED BY <2>1, <2>2, <2>3 DEF Passed
<1> QED BY <1>1, <1>2, <1>3, EventsInvariant, SettledIsOnRecord, PTL DEF Spec

---------------------------------------------------------------------------
(* Delivery implements the journal of directives *)

(* Every status comes from one kind of row. *)
LEMMA StatusFacts ==
  ASSUME NEW a \in EventRows
  PROVE  /\ StatusOf(a) \in {"absent", "owed", "done", "ended"}
         /\ StatusOf(a) = "absent" <=> a.st = "absent"
         /\ StatusOf(a) = "owed" <=> a.st = "pending"
         /\ StatusOf(a) = "done" <=> StampedDone(a)
BY DEF StatusOf, StampedDone

(* The row keeps its place in the journal, or is closed without success. *)
Closes(a, b) ==
  /\ b.version = a.version /\ b.expired = a.expired
  /\ StatusOf(b) = StatusOf(a) \/ (StatusOf(a) = "owed" /\ StatusOf(b) = "ended")

LEMMA RowCloses ==
  ASSUME NEW a \in EventRows
  PROVE  /\ Closes(a, a)
         /\ a.st = "pending" =>
              /\ \A x \in {"undeliverable", "superseded"} :
                   Closes(a, [a EXCEPT !.st = "dispatched", !.error = x])
              /\ Closes(a, [a EXCEPT !.st = "deleted"])
<1>1. Closes(a, a)
  BY DEF Closes
<1>2. ASSUME a.st = "pending", NEW x \in {"undeliverable", "superseded"}
      PROVE  Closes(a, [a EXCEPT !.st = "dispatched", !.error = x])
  <2>1. PICK b \in EventRows : b = [a EXCEPT !.st = "dispatched", !.error = x]
    BY EventRowEdits, Zenon
  <2>2. /\ b.version = a.version /\ b.expired = a.expired
        /\ b.st = "dispatched" /\ b.error = x
    BY <2>1, ZenonT(60) DEF EventRows
  <2>3. StatusOf(b) = "ended" /\ StatusOf(a) = "owed"
    BY <1>2, <2>2 DEF StatusOf
  <2> QED BY <2>1, <2>2, <2>3, ZenonT(60) DEF Closes
<1>3. ASSUME a.st = "pending" PROVE Closes(a, [a EXCEPT !.st = "deleted"])
  <2>1. PICK b \in EventRows : b = [a EXCEPT !.st = "deleted"]
    BY EventRowEdits, Zenon
  <2>2. b.version = a.version /\ b.expired = a.expired /\ b.st = "deleted"
    BY <2>1, Zenon DEF EventRows
  <2>3. StatusOf(b) = "ended" /\ StatusOf(a) = "owed"
    BY <1>3, <2>2 DEF StatusOf
  <2> QED BY <2>1, <2>2, <2>3, Zenon DEF Closes
<1> QED BY <1>1, <1>2, <1>3

(* recordOutcome: what the agent settled becomes done, or is closed with  *)
(* the error that was reported of it; what it did not settle may be given *)
(* up.                                                                    *)
LEMMA SettleCloses ==
  ASSUME NEW a \in EventRows, NEW e \in Events
  PROVE  LET b == SettleEvent(a, e)
         IN  /\ b.version = a.version /\ b.expired = a.expired
             /\ \/ StatusOf(b) = StatusOf(a)
                \/ StatusOf(a) \in {"owed", "ended"} /\ StatusOf(b) = "done"
                \/ StatusOf(a) = "owed" /\ StatusOf(b) = "ended"
<1>1. CASE a.st \notin {"pending", "dispatched"}
  BY <1>1 DEF SettleEvent
<1>2. CASE a.st \in {"pending", "dispatched"}
  <2>1. PICK x : x = IF IsWorkspaceMutation(e) THEN "none" ELSE a.error
    OBVIOUS
  <2>2. PICK b : b = [a EXCEPT !.st = "dispatched", !.error = x]
    OBVIOUS
  <2>3. SettleEvent(a, e) = b
    BY <1>2, <2>1, <2>2, Zenon DEF SettleEvent
  <2>4. /\ b.version = a.version /\ b.expired = a.expired
        /\ b.st = "dispatched" /\ b.error = x
    BY <2>2, Zenon DEF EventRows
  <2>5. StatusOf(b) = IF x = "none" THEN "done" ELSE "ended"
    BY <2>4 DEF StatusOf
  <2>6. /\ a.st = "pending" => StatusOf(a) = "owed"
        /\ a.st = "dispatched" => StatusOf(a) = IF a.error = "none" THEN "done" ELSE "ended"
    BY DEF StatusOf
  <2>7. a.error = "none" => x = "none"
    BY <2>1
  <2> QED BY <1>2, <2>3, <2>4, <2>5, <2>6, <2>7
<1> QED BY <1>1, <1>2

LEMMA ChargeCloses ==
  ASSUME NEW a \in EventRows, NEW e \in Events
  PROVE  Closes(a, ChargeEvent(a, e))
<1>1. CASE ~IsWorkspaceMutation(e) \/ a.st # "pending"
  BY <1>1, RowCloses, Zenon DEF ChargeEvent
<1>2. CASE IsWorkspaceMutation(e) /\ a.st = "pending"
  <2>1. PICK n : n = a.attempts + 1
    OBVIOUS
  <2>2. PICK c : c = [a EXCEPT !.attempts = n]
    OBVIOUS
  <2>3. c.st = "pending" /\ c.version = a.version /\ c.expired = a.expired
    BY <1>2, <2>2, Zenon DEF EventRows
  <2>4. PICK d : d = [c EXCEPT !.st = "dispatched", !.error = "gave up"]
    OBVIOUS
  <2>5. /\ d.st = "dispatched" /\ d.error = "gave up"
        /\ d.version = a.version /\ d.expired = a.expired
    BY <2>2, <2>3, <2>4, Zenon DEF EventRows
  <2>6. ChargeEvent(a, e) = c \/ ChargeEvent(a, e) = d
    BY <1>2, <2>1, <2>2, <2>4 DEF ChargeEvent
  <2>7. StatusOf(a) = "owed" /\ StatusOf(c) = "owed" /\ StatusOf(d) = "ended"
    BY <1>2, <2>3, <2>5, Zenon DEF StatusOf
  <2> QED BY <2>3, <2>5, <2>6, <2>7, Zenon DEF Closes
<1> QED BY SMTT(60), <1>1, <1>2

---------------------------------------------------------------------------
(* Each step of delivery as a step of the journal *)

LEMMA PlacesStay ==
  ASSUME \A e \in Events : /\ evts'[e].version = evts[e].version
                           /\ evts'[e].expired = evts[e].expired
  PROVE  OrderOfAll' = OrderOfAll /\ ExpiredOnes' = ExpiredOnes
BY DEF OrderOfAll, ExpiredOnes

LEMMA AgentStays ==
  ASSUME SameBooks, RunningOne' = RunningOne
  PROVE  UNCHANGED <<runs, AbleOnes, RunningOne, effects, lostRuns>>
BY DEF SameBooks, AbleOnes

(* Rows that are closed and nothing else: the books are brought up to     *)
(* date.                                                                  *)
LEMMA CloseSettles ==
  ASSUME SameBooks, RunningOne' = RunningOne, \A e \in Events : Closes(evts[e], evts'[e])
  PROVE  Journal!Settle
<1>1. UNCHANGED <<runs, AbleOnes, RunningOne, effects, lostRuns>>
  BY AgentStays
<1>2. UNCHANGED <<OrderOfAll, ExpiredOnes>>
  BY PlacesStay DEF Closes
<1>3. \A e \in Events :
        \/ StatusOfAll'[e] = StatusOfAll[e]
        \/ StatusOfAll[e] = "owed" /\ StatusOfAll'[e] = "ended"
  BY DEF StatusOfAll, Closes
<1> QED BY <1>1, <1>2, <1>3 DEF Journal!Settle

LEMMA SameJournal ==
  ASSUME evts' = evts, SameBooks, RunningOne' = RunningOne
  PROVE  UNCHANGED Journal!vars
BY AgentStays DEF Journal!vars, StatusOfAll, OrderOfAll, ExpiredOnes

LEMMA StampCloses ==
  ASSUME NEW ev \in [Events -> EventRows], NEW S \in SUBSET Undispatched(ev),
         NEW x \in {"undeliverable", "superseded"}, NEW e \in Events
  PROVE  Closes(ev[e], StampWithError(ev, S, x)[e])
<1>1. PICK a \in EventRows : a = ev[e]
  OBVIOUS
<1>2. CASE e \in S
  <2>1. a.st = "pending"
    BY <1>1, <1>2 DEF Undispatched
  <2>2. StampWithError(ev, S, x)[e] = [a EXCEPT !.st = "dispatched", !.error = x]
    BY <1>1, <1>2 DEF StampWithError
  <2>3. Closes(a, [a EXCEPT !.st = "dispatched", !.error = x])
    BY <2>1, RowCloses, Zenon
  <2> QED BY <1>1, <2>2, <2>3, Zenon
<1>3. CASE e \notin S
  <2>1. StampWithError(ev, S, x)[e] = a
    BY <1>1, <1>3 DEF StampWithError
  <2> QED BY <1>1, <2>1, RowCloses, Zenon
<1> QED BY <1>2, <1>3

LEMMA ServerAlone ==
  ASSUME UNCHANGED chanVars
  PROVE  SameBooks /\ RunningOne' = RunningOne
BY DEF chanVars, SameBooks, RunningOne

(* An event is posted. *)
LEMMA PostIsPost ==
  ASSUME TypeOK, RowsIssued, NEW e \in Events, PostEvent(e)
  PROVE  Journal!Post(e)
<1>0. evts \in [Events -> EventRows] /\ row.version \in Nat
  BY VersionTypes DEF TypeOK
<1>1. PICK ev : ev = IF EvKind[e] = "session-defaults"
                     THEN SupersedePending(evts, "session-defaults") ELSE evts
  OBVIOUS
<1>2. \A f \in Events : Closes(evts[f], ev[f])
  <2>1. CASE ev = evts
    BY <1>0, <2>1, RowCloses, Zenon
  <2>2. CASE ev = SupersedePending(evts, "session-defaults")
    <3>1. PICK S : S = {f \in Undispatched(evts) : EvKind[f] = "session-defaults"}
      OBVIOUS
    <3>2. S \in SUBSET Undispatched(evts) /\ ev = StampWithError(evts, S, "superseded")
      BY <2>2, <3>1 DEF SupersedePending
    <3> QED BY <1>0, <3>2, StampCloses
  <2> QED BY SMTT(60), <1>1, <2>1, <2>2
<1>3. ev \in [Events -> EventRows]
  BY <1>0, <1>1, StampType DEF SupersedePending
<1>4. PICK p : p = [NoEventRow EXCEPT !.st = "pending", !.version = row.version + 1]
  OBVIOUS
<1>5. p.st = "pending" /\ p.version = row.version + 1 /\ p.expired = FALSE
  BY <1>4 DEF NoEventRow
<1>6. /\ evts[e].st = "absent" /\ evts' = InsertEvent(ev, e, row.version + 1)
      /\ \A f \in Events : EvKey[f] = EvKey[e] /\ EvTs[f] < EvTs[e] => evts[f].st # "absent"
      /\ UNCHANGED chanVars
  BY <1>1 DEF PostEvent
<1>7. \A f \in Events : evts'[f] = IF f = e THEN p ELSE ev[f]
  BY <1>3, <1>4, <1>6 DEF InsertEvent
<1>8. evts[e].expired = FALSE
  BY <1>6 DEF RowsIssued, NoEventRow
<1>9. ExpiredOnes' = ExpiredOnes
  BY <1>2, <1>5, <1>7, <1>8 DEF ExpiredOnes, Closes
<1>10. StatusOfAll[e] = "absent" /\ StatusOfAll'[e] = "owed"
  BY <1>5, <1>6, <1>7 DEF StatusOfAll, StatusOf
<1>11. \A f \in Events \ {e} :
         \/ StatusOfAll'[f] = StatusOfAll[f]
         \/ StatusOfAll[f] = "owed" /\ StatusOfAll'[f] = "ended"
  BY <1>2, <1>7 DEF StatusOfAll, Closes
<1>12. \A f \in Events : /\ OrderOfAll[f] < OrderOfAll'[e]
                         /\ f # e => OrderOfAll'[f] = OrderOfAll[f]
  <2> SUFFICES ASSUME NEW f \in Events
               PROVE  OrderOfAll[f] < OrderOfAll'[e] /\ (f # e => OrderOfAll'[f] = OrderOfAll[f])
    OBVIOUS
  <2>1. evts[f].version \in Nat /\ evts[f].version <= row.version
    BY EventTypes DEF RowsIssued
  <2>2. OrderOfAll[f] = evts[f].version /\ OrderOfAll'[e] = row.version + 1
    BY <1>5, <1>7 DEF OrderOfAll
  <2>3. f # e => OrderOfAll'[f] = OrderOfAll[f]
    BY <1>2, <1>7 DEF OrderOfAll, Closes
  <2> QED BY <1>0, <2>1, <2>2, <2>3
<1>13. \A f \in Events : EvKey[f] = EvKey[e] /\ EvTs[f] < EvTs[e] => StatusOfAll[f] # "absent"
  BY <1>0, <1>6, StatusFacts DEF StatusOfAll
<1>14. UNCHANGED <<runs, AbleOnes, RunningOne, effects, lostRuns>>
  BY <1>6, ServerAlone, AgentStays
<1> QED BY <1>9, <1>10, <1>11, <1>12, <1>13, <1>14 DEF Journal!Post

(* An event expires. *)
LEMMA ExpireIsExpire ==
  ASSUME TypeOK, NEW e \in Events, EventExpires(e)
  PROVE  Journal!Expire(e)
<1>0. evts \in [Events -> EventRows] /\ evts[e] \in EventRows
  BY DEF TypeOK
<1>1. PICK p : p = [evts[e] EXCEPT !.expired = TRUE]
  OBVIOUS
<1>2. /\ evts[e].st = "pending" /\ evts' = [evts EXCEPT ![e] = p] /\ UNCHANGED chanVars
  BY <1>0, <1>1 DEF EventExpires
<1>3. /\ p.st = evts[e].st /\ p.error = evts[e].error /\ p.version = evts[e].version
      /\ p.expired = TRUE
  BY <1>0, <1>1, Zenon DEF EventRows
<1>4. \A f \in Events : evts'[f] = IF f = e THEN p ELSE evts[f]
  BY <1>0, <1>2
<1>5. StatusOf(p) = StatusOf(evts[e])
  BY <1>3 DEF StatusOf
<1>6. StatusOfAll' = StatusOfAll /\ OrderOfAll' = OrderOfAll
  BY <1>3, <1>4, <1>5 DEF StatusOfAll, OrderOfAll
<1>7. ExpiredOnes' = ExpiredOnes \cup {e}
  BY <1>3, <1>4 DEF ExpiredOnes
<1>8. StatusOfAll[e] = "owed"
  BY <1>2 DEF StatusOfAll, StatusOf
<1>9. UNCHANGED <<runs, AbleOnes, RunningOne, effects, lostRuns>>
  BY <1>2, ServerAlone, AgentStays
<1> QED BY <1>6, <1>7, <1>8, <1>9 DEF Journal!Expire

(* Stamping what an image cannot take and deleting what has expired *)
LEMMA BuildSettles ==
  ASSUME TypeOK, NEW s \in Slots, BuildPayload(s)
  PROVE  Journal!Settle
<1>0. evts \in [Events -> EventRows]
  BY DEF TypeOK
<1>1. PICK K : evts' = MarkEventsUndeliverable(evts, K) /\ UNCHANGED chanVars
  BY DEF BuildPayload
<1>2. PICK S : S = {e \in Undispatched(evts) : EvKind[e] \in K}
  OBVIOUS
<1>3. S \in SUBSET Undispatched(evts) /\ evts' = StampWithError(evts, S, "undeliverable")
  BY <1>1, <1>2 DEF MarkEventsUndeliverable
<1>4. \A e \in Events : Closes(evts[e], evts'[e])
  BY <1>0, <1>3, StampCloses
<1> QED BY <1>1, <1>4, ServerAlone, CloseSettles

LEMMA SweepSettles ==
  ASSUME TypeOK, NEW seen, Sweep(seen)
  PROVE  Journal!Settle
<1>1. \A e \in Events : Closes(evts[e], evts'[e])
  <2> SUFFICES ASSUME NEW e \in Events PROVE Closes(evts[e], evts'[e])
    OBVIOUS
  <2>1. evts[e] \in EventRows
    BY DEF TypeOK
  <2>2. evts'[e] = evts[e] \/ (evts[e].st = "pending" /\ evts'[e] = [evts[e] EXCEPT !.st = "deleted"])
    BY DEF Sweep, DeleteExpiredEvents
  <2> QED BY <2>1, <2>2, RowCloses, Zenon
<1> QED BY <1>1, ServerAlone, CloseSettles DEF Sweep

(* recordOutcome: what becomes done is on the agent's record. *)
LEMMA RecordSettles ==
  ASSUME TypeOK, SettledOnRecord, NEW s \in Slots, RecordAnswer(s)
  PROVE  Journal!Settle
<1>0. evts \in [Events -> EventRows]
  BY DEF TypeOK
<1>1. PICK ans, att : /\ ans = worker[s].answer.events
                      /\ att = AttemptedEvents(worker[s].events, worker[s].answer.events)
  OBVIOUS
<1>2. PICK res : res = [version |-> worker[s].answer.version, hash |-> worker[s].answer.hash,
                 failures |-> worker[s].answer.failures, events |-> ans,
                 attempted |-> att, dropped |-> worker[s].dropped]
  OBVIOUS
<1>3. /\ evts' = RecordEvents(evts, row, res) /\ UNCHANGED chanVars
      /\ worker[s].phase = "answered"
  BY <1>1, <1>2 DEF RecordAnswer
<1>4. res.events = ans
  BY <1>2
<1>5. \A e \in ans : Passed(e)
  BY <1>1, <1>3 DEF SettledOnRecord
<1>6. ASSUME NEW e \in Events
      PROVE  \/ Closes(evts[e], evts'[e])
             \/ /\ evts'[e].version = evts[e].version /\ evts'[e].expired = evts[e].expired
                /\ StatusOf(evts[e]) \in {"owed", "ended"} /\ StatusOf(evts'[e]) = "done"
                /\ Passed(e)
  <2>1. PICK a \in EventRows : a = evts[e]
    BY <1>0
  <2>2. \/ evts'[e] = a \/ evts'[e] = ChargeEvent(a, e)
        \/ e \in ans /\ evts'[e] = SettleEvent(a, e)
    BY SMTT(60), <1>3, <1>4, <2>1 DEF RecordEvents
  <2>3. CASE evts'[e] = a \/ evts'[e] = ChargeEvent(a, e)
    BY <2>1, <2>3, RowCloses, ChargeCloses, Zenon
  <2>4. CASE e \in ans /\ evts'[e] = SettleEvent(a, e)
    <3>1. PICK b : b = SettleEvent(a, e)
      OBVIOUS
    <3>2. /\ b.version = a.version /\ b.expired = a.expired
          /\ \/ StatusOf(b) = StatusOf(a)
             \/ StatusOf(a) \in {"owed", "ended"} /\ StatusOf(b) = "done"
             \/ StatusOf(a) = "owed" /\ StatusOf(b) = "ended"
      BY <3>1, SettleCloses
    <3>3. evts'[e] = b /\ evts[e] = a /\ Passed(e)
      BY <1>5, <2>1, <2>4, <3>1
    <3>4. CASE StatusOf(b) = "done" /\ StatusOf(a) \in {"owed", "ended"}
      BY <3>2, <3>3, <3>4
    <3>5. CASE \/ StatusOf(b) = StatusOf(a)
               \/ StatusOf(a) = "owed" /\ StatusOf(b) = "ended"
      BY <3>2, <3>3, <3>5, SMTT(60) DEF Closes
    <3> QED BY <3>2, <3>4, <3>5
  <2> QED BY <2>2, <2>3, <2>4
<1>7. \A e \in Events :
        \/ StatusOfAll'[e] = StatusOfAll[e]
        \/ StatusOfAll[e] = "owed" /\ StatusOfAll'[e] = "ended"
        \/ /\ StatusOfAll[e] \in {"owed", "ended"} /\ StatusOfAll'[e] = "done"
           /\ Journal!OnRecord(e) \/ e \in ExpiredOnes
  BY <1>6, Zenon DEF StatusOfAll, Closes, Passed, AlreadyRun, Journal!OnRecord, ExpiredOnes
<1>8. UNCHANGED <<OrderOfAll, ExpiredOnes>>
  BY <1>6, PlacesStay DEF Closes
<1>9. UNCHANGED <<runs, AbleOnes, RunningOne, effects, lostRuns>>
  BY <1>3, ServerAlone, AgentStays
<1> QED BY <1>7, <1>8, <1>9 DEF Journal!Settle

(* The report of a failure leaves its row where it is, or takes back that *)
(* it was done.                                                           *)
LEMMA ReportedRow ==
  ASSUME TypeOK, NEW e \in Events, evts' = evts \/ evts' = ClaimEventReport(evts, e)
  PROVE  /\ UNCHANGED <<OrderOfAll, ExpiredOnes>>
         /\ \A f \in Events \ {e} : StatusOfAll'[f] = StatusOfAll[f]
         /\ \/ StatusOfAll'[e] = StatusOfAll[e]
            \/ StatusOfAll[e] = "done" /\ StatusOfAll'[e] = "ended"
<1>0. evts \in [Events -> EventRows]
  BY DEF TypeOK
<1>1. CASE evts' = evts
  BY <1>1 DEF StatusOfAll, OrderOfAll, ExpiredOnes
<1>2. CASE evts' # evts
  <2>1. PICK a \in EventRows : a = evts[e]
    BY <1>0
  <2>2. PICK p : p = [a EXCEPT !.error = "reported", !.reported = TRUE]
    OBVIOUS
  <2>3. /\ p.st = a.st /\ p.version = a.version /\ p.expired = a.expired
        /\ p.error = "reported"
    BY <2>2, Zenon DEF EventRows
  <2>4. evts' = [evts EXCEPT ![e] = p] /\ a.st \in {"pending", "dispatched"}
    BY <1>0, <1>2, <2>1, <2>2 DEF ClaimEventReport
  <2>5. \A f \in Events : evts'[f] = IF f = e THEN p ELSE evts[f]
    BY <1>0, <2>4
  <2>6. StatusOf(p) = StatusOf(a) \/ (StatusOf(a) = "done" /\ StatusOf(p) = "ended")
    BY <2>3, <2>4 DEF StatusOf
  <2>7. UNCHANGED <<OrderOfAll, ExpiredOnes>>
    BY <2>1, <2>3, <2>5, PlacesStay
  <2> QED BY <2>1, <2>5, <2>6, <2>7 DEF StatusOfAll
<1> QED BY <1>1, <1>2

LEMMA ThrowSettles ==
  ASSUME TypeOK, NEW e \in Events, NEW m \in BOOLEAN, EventThrows(e, m)
  PROVE  Journal!Settle
<1>1. /\ evts' = evts \/ evts' = ClaimEventReport(evts, e)
      /\ ~AlreadyRun(e)
  BY DEF EventThrows, FailEvent
<1>2. SameBooks /\ RunningOne' = RunningOne
  BY LoopFacts DEF LoopOf, RunningOne
<1>3. UNCHANGED <<runs, AbleOnes, RunningOne, effects, lostRuns>>
  BY <1>2, AgentStays
<1>4. ~Journal!OnRecord(e)
  BY <1>1 DEF AlreadyRun, Journal!OnRecord
<1> QED BY <1>1, <1>3, <1>4, ReportedRow DEF Journal!Settle

LEMMA RecordThrowLoses ==
  ASSUME TypeOK, NEW e \in Events, NEW m \in BOOLEAN, RecordThrows(e, m)
  PROVE  Journal!Lose(e)
<1>1. evts' = evts \/ evts' = ClaimEventReport(evts, e)
  BY DEF RecordThrows
<1>2. /\ cur # NoApply /\ cur.running = e /\ cur' # NoApply /\ cur'.running = NoEvent
      /\ lostRuns' = IF EvKind[e] \in bound THEN [lostRuns EXCEPT ![e] = @ + 1] ELSE lostRuns
      /\ UNCHANGED <<runs, effects, bound>>
  BY LoopFacts DEF LoopOf
<1>3. RunningOne = e /\ RunningOne' = NoEvent
  BY <1>2 DEF RunningOne
<1>4. AbleOnes' = AbleOnes /\ (e \in AbleOnes <=> EvKind[e] \in bound)
  BY <1>2 DEF AbleOnes
<1>5. \/ StatusOfAll' = StatusOfAll
      \/ StatusOfAll[e] = "done" /\ StatusOfAll' = [StatusOfAll EXCEPT ![e] = "ended"]
  <2>1. /\ StatusOfAll = [f \in Events |-> StatusOfAll[f]]
        /\ StatusOfAll' = [f \in Events |-> StatusOfAll'[f]]
    BY DEF StatusOfAll
  <2> QED BY <1>1, <2>1, ReportedRow
<1>6. UNCHANGED <<OrderOfAll, ExpiredOnes>>
  BY <1>1, ReportedRow
<1> QED BY <1>2, <1>3, <1>4, <1>5, <1>6 DEF Journal!Lose

(* A handler is called: the run is due, and nothing holds it. *)
LEMMA InvokeRuns ==
  ASSUME EInv, NEW e \in Events, EventInvoked(e)
  PROVE  Journal!Run(e)
<1>0. TypeOK /\ RunsBooked /\ PayloadsComplete /\ LoopInOrder
  BY DEF EInv, IInv, EventsSafe
<1>1. /\ cur # NoApply /\ cur.running = NoEvent /\ e \in cur.evtodo /\ ~AlreadyRun(e)
      /\ cur' # NoApply /\ cur'.running = e
      /\ effects' = IF EvKind[e] \in bound THEN [effects EXCEPT ![e] = @ + 1] ELSE effects
      /\ UNCHANGED <<runs, lostRuns, bound>>
  BY <1>0, LoopFacts DEF LoopOf
<1>2. evts' = evts
  BY DEF EventInvoked, srvVars
<1>3. RunningOne = NoEvent /\ RunningOne' = e
  BY <1>1 DEF RunningOne
<1>4. UNCHANGED <<StatusOfAll, OrderOfAll, ExpiredOnes, AbleOnes>>
  BY <1>1, <1>2 DEF StatusOfAll, OrderOfAll, ExpiredOnes, AbleOnes
<1>5. effects[e] = lostRuns[e]
  <2>1. effects[e] \in Nat /\ lostRuns[e] \in Nat /\ e # NoEvent
    BY <1>0, EventTypes
  <2>2. ~Owed(e)
    BY <1>1, <2>1 DEF Owed, Runs
  <2> QED BY <1>0, <2>1, <2>2 DEF RunsBooked
<1>6. StatusOfAll[e] # "absent"
  <2>1. cur.req.events \in SUBSET Events /\ e \in cur.req.events
    BY <1>0, <1>1, VersionTypes, RequestFields DEF LoopInOrder
  <2>2. evts[e].st # "absent" /\ evts[e] \in EventRows
    BY ZenonT(60), <1>0, <1>1, <2>1, EventTypes DEF PayloadsComplete, Carried, Complete
  <2> QED BY <2>2, StatusFacts DEF StatusOfAll
<1>7. ASSUME NEW h \in Events, IsWorkspaceMutation(h), OrderOfAll[h] < OrderOfAll[e]
      PROVE  StatusOfAll[h] # "owed" \/ h \in ExpiredOnes \/ Journal!OnRecord(h)
  <2>1. evts[h].version < evts[e].version /\ evts[h] \in EventRows
    BY <1>0, <1>7, EventTypes DEF OrderOfAll
  <2>2. CASE Waiting(h)
    BY <1>7, <2>1, <2>2, HeldAtInvocation DEF AlreadyRun, Journal!OnRecord
  <2>3. CASE ~Waiting(h)
    BY <2>1, <2>3, StatusFacts DEF Waiting, StatusOfAll, ExpiredOnes
  <2> QED BY <2>2, <2>3
<1>8. ~Journal!OnRecord(e) /\ (e \in AbleOnes <=> EvKind[e] \in bound)
  BY <1>1 DEF AlreadyRun, Journal!OnRecord, AbleOnes
<1> QED BY <1>1, <1>3, <1>4, <1>5, <1>6, <1>7, <1>8 DEF Journal!Run

LEMMA RecordPuts ==
  ASSUME TypeOK, NEW e \in Events, EventRecorded(e)
  PROVE  Journal!PutOnRecord(e)
<1>1. /\ cur # NoApply /\ cur.running = e /\ cur' # NoApply /\ cur'.running = NoEvent
      /\ runs' = [runs EXCEPT ![EvKey[e]] = EvTs[e]]
      /\ UNCHANGED <<effects, lostRuns, bound>>
  BY LoopFacts DEF LoopOf
<1>2. evts' = evts
  BY DEF EventRecorded, srvVars
<1>3. UNCHANGED <<StatusOfAll, OrderOfAll, ExpiredOnes, AbleOnes>>
  BY <1>1, <1>2 DEF StatusOfAll, OrderOfAll, ExpiredOnes, AbleOnes
<1>4. RunningOne = e /\ RunningOne' = NoEvent
  BY <1>1 DEF RunningOne
<1> QED BY <1>1, <1>3, <1>4 DEF Journal!PutOnRecord

(* A stop loses the run that was not recorded. *)
LEMMA StopLoses ==
  ASSUME TypeOK, Stop
  PROVE  UNCHANGED Journal!vars \/ \E e \in Events : Journal!Lose(e)
<1>1. /\ evts' = evts /\ cur' = NoApply /\ UNCHANGED <<runs, effects, bound>>
      /\ lostRuns' = [e \in Events |->
           IF cur # NoApply /\ cur.running = e /\ EvKind[e] \in bound
           THEN lostRuns[e] + 1 ELSE lostRuns[e]]
  BY DEF Stop, StopMachine
<1>2. lostRuns \in [Events -> Nat] /\ NoEvent \notin Events
  BY ChannelAssumption DEF TypeOK
<1>3. RunningOne \in Events \cup {NoEvent} /\ RunningOne' = NoEvent
  BY <1>1, ApplyFields DEF RunningOne, TypeOK
<1>4. CASE RunningOne = NoEvent
  <2>1. \A e \in Events : lostRuns'[e] = lostRuns[e]
    BY <1>1, <1>2, <1>4 DEF RunningOne
  <2>2. lostRuns' = lostRuns
    BY <1>1, <1>2, <2>1
  <2> QED BY <1>1, <1>3, <1>4, <2>2, SameJournal DEF SameBooks
<1>5. ASSUME NEW e \in Events, RunningOne = e PROVE Journal!Lose(e)
  <2>1. cur # NoApply /\ cur.running = e
    BY <1>2, <1>5 DEF RunningOne
  <2>2. UNCHANGED <<StatusOfAll, OrderOfAll, ExpiredOnes, AbleOnes>>
    BY <1>1 DEF StatusOfAll, OrderOfAll, ExpiredOnes, AbleOnes
  <2>3. lostRuns' = IF EvKind[e] \in bound THEN [lostRuns EXCEPT ![e] = @ + 1] ELSE lostRuns
    BY <1>1, <1>2, <2>1
  <2>4. e \in AbleOnes <=> EvKind[e] \in bound
    BY DEF AbleOnes
  <2> QED BY <1>1, <1>3, <1>5, <2>2, <2>3, <2>4 DEF Journal!Lose
<1> QED BY <1>3, <1>4, <1>5

LEMMA BootRebinds ==
  ASSUME StoppedIsEmpty, NEW b \in CapSets, NEW m \in BOOLEAN, Boot(b, m)
  PROVE  Journal!Rebind
<1>1. cur = NoApply /\ cur' = cur /\ evts' = evts /\ UNCHANGED <<runs, effects, lostRuns>>
  BY DEF Boot, BootMachine, StoppedIsEmpty, srvVars
<1>2. RunningOne = NoEvent /\ RunningOne' = NoEvent
  BY <1>1 DEF RunningOne
<1>3. UNCHANGED <<StatusOfAll, OrderOfAll, ExpiredOnes>>
  BY <1>1 DEF StatusOfAll, OrderOfAll, ExpiredOnes
<1>4. AbleOnes' \in SUBSET Events
  BY DEF AbleOnes
<1> QED BY <1>1, <1>2, <1>3, <1>4 DEF Journal!Rebind

(* Every step of delivery is a step of the journal or leaves it alone. *)
LEMMA JournalStep ==
  ASSUME EInv, SettledOnRecord, [Next]_vars
  PROVE  [Journal!Next]_(Journal!vars)
<1>0. /\ TypeOK /\ TypeOK' /\ RowsIssued /\ StoppedIsEmpty /\ LoopMoves
  <2>1. TypeOK /\ HandlerActive
    BY DEF EInv, IInv
  <2> QED BY <2>1, TypeStep, StepLoop DEF EInv, IInv, Safe, EventsSafe
<1>1. ASSUME NEW e \in Events, PostEvent(e) \/ EventExpires(e) PROVE Journal!Next
  BY <1>0, <1>1, PostIsPost, ExpireIsExpire DEF Journal!Next
<1>2. ASSUME NEW e \in Events, Throws(e) PROVE Journal!Next
  BY <1>0, <1>2, ThrowSettles, RecordThrowLoses DEF Throws, Journal!Next
<1>3. ASSUME NEW s \in Slots, BuildPayload(s) PROVE Journal!Next
  BY <1>0, <1>3, BuildSettles DEF Journal!Next
<1>4. ASSUME NEW seen, Sweep(seen) PROVE Journal!Next
  BY <1>0, <1>4, SweepSettles DEF Journal!Next
<1>5. CASE Records
  BY <1>0, <1>5, RecordSettles DEF Records, Journal!Next
<1>6. CASE evts' = evts
  <2>1. CASE LoopStill
    BY <1>6, <2>1, SameJournal DEF LoopStill, RunningOne
  <2>2. CASE LoopEnds
    BY <1>6, <2>2, SameJournal DEF LoopEnds, RunningOne
  <2>3. CASE StartEvents
    <3>1. SameBooks /\ RunningOne' = RunningOne
      BY <1>0, <2>3, StartFacts DEF LoopOf, RunningOne
    <3> QED BY <1>6, <3>1, SameJournal
  <2>4. ASSUME NEW r \in net, Receive(r) PROVE UNCHANGED Journal!vars
    <3>1. SameBooks /\ RunningOne' = RunningOne
      BY <1>0, <2>4, ReceiveFacts DEF RunningOne
    <3> QED BY <1>6, <3>1, SameJournal
  <2>5. ASSUME NEW e \in Events, EventSkipped(e) PROVE UNCHANGED Journal!vars
    <3>1. SameBooks /\ RunningOne' = RunningOne
      BY <1>0, <2>5, LoopFacts DEF LoopOf, RunningOne
    <3> QED BY <1>6, <3>1, SameJournal
  <2>6. ASSUME NEW e \in Events, EventInvoked(e) \/ EventRecorded(e) PROVE Journal!Next
    BY <1>0, <2>6, InvokeRuns, RecordPuts DEF Journal!Next
  <2>7. ASSUME NEW b \in CapSets, NEW m \in BOOLEAN, Boot(b, m) PROVE Journal!Next
    BY <1>0, <2>7, BootRebinds DEF Journal!Next
  <2>8. CASE Stop
    BY <1>0, <2>8, StopLoses DEF Journal!Next
  <2> QED BY <1>0, <1>2, <2>1, <2>2, <2>3, <2>4, <2>5, <2>6, <2>7, <2>8 DEF LoopMoves, Throws
<1> QED BY <1>1, <1>2, <1>3, <1>4, <1>5, <1>6, RowEditors

LEMMA JournalInit == Init => Journal!Init
<1> SUFFICES ASSUME Init PROVE Journal!Init
  OBVIOUS
<1>1. StatusOfAll = [e \in Events |-> "absent"] /\ OrderOfAll = [e \in Events |-> 0]
  BY DEF Init, StatusOfAll, OrderOfAll, StatusOf, NoEventRow
<1>2. ExpiredOnes = {} /\ RunningOne = NoEvent /\ AbleOnes \in SUBSET Events
  BY DEF Init, ChanInit, ExpiredOnes, RunningOne, AbleOnes, NoEventRow
<1>3. /\ runs = [k \in {EvKey[d] : d \in Events} |-> 0]
      /\ effects = [e \in Events |-> 0] /\ lostRuns = [e \in Events |-> 0]
  BY DEF Init, ChanInit, Keys
<1> QED BY <1>1, <1>2, <1>3 DEF Journal!Init

(* Delivery implements the journal, for every set of directives, keys,    *)
(* fire times, images and disturbances: with outbox, queue, workers,      *)
(* requests, answers, sweep and restarts in between, the agent works each *)
(* directive once unless its record is lost, in the order the keys and    *)
(* the workspace mutations ask for, and the rows say done only of what is *)
(* on its record or had expired.                                          *)
THEOREM DeliveryKeepsTheJournal == Spec => JournalKept
<1>1. EInv /\ SettledOnRecord /\ [Next]_vars => [Journal!Next]_(Journal!vars)
  BY JournalStep
<1> QED
  BY <1>1, JournalInit, EventsInvariant, SettledIsOnRecord, PTL
     DEF Spec, JournalKept, Journal!Spec
=============================================================================
