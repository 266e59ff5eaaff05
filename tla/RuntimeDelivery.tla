--------------------------- MODULE RuntimeDelivery --------------------------
(***************************************************************************)
(* Runtime delivery end to end for one agent: the handlers that change the *)
(* desired state, the BullMQ queue with its two deduplication keys, the    *)
(* delivery worker, the hello handler, the ready watch and the cron sweep  *)
(* of the api-server, composed with the agent-runtime of RuntimeChannel.   *)
(***************************************************************************)
EXTENDS RuntimeChannel

CONSTANTS
  MaxTries,      \* [Slots -> Nat]: the queue's attempts per job
  Budget         \* how often each disturbance may happen in a behaviour

VARIABLES
  row,       \* the agent's row of runtime_state_outbox
  evts,      \* its rows of runtime_events
  desired,   \* the contributions the domain tables hold for the agent
  unbumped,  \* history: the contents changed and no bump has followed yet
  caps,      \* agents.runtime_capabilities
  jobs,      \* the queue: one job per deduplication key
  worker,    \* what the active job's handler holds
  ready,     \* the Agent resource's Ready condition
  hello,     \* the boot's hello call
  bootLost,  \* history: a boot job ended without delivering
  left       \* the disturbances still to come

srvVars == <<row, evts, desired, unbumped, caps, jobs, worker, ready, hello,
             bootLost, left>>
vars == <<srvVars, chanVars>>

Disturbances == {"edit", "unbumped", "stop", "roll", "lose", "fault",
                 "expire"}

ASSUME TriesAssumption == MaxTries \in [Slots -> Nat \ {0}]
ASSUME BudgetAssumption == Budget \in [Disturbances -> Nat]

Spend(d) == left[d] > 0 /\ left' = [left EXCEPT ![d] = @ - 1]

---------------------------------------------------------------------------
(* The queue.  A job with an id that is waiting or backing off absorbs    *)
(* further adds; one added while the job is active is kept and runs once  *)
(* after it (keepLastIfActive).                                           *)

Jobs == [st : {"none", "queued", "active"}, tries : Nat, next : BOOLEAN]

NoJob == [st |-> "none", tries |-> 0, next |-> FALSE]

FreshJob == [NoJob EXCEPT !.st = "queued"]

Enqueue(j, s) ==
  CASE j[s].st = "none"   -> [j EXCEPT ![s] = FreshJob]
    [] j[s].st = "queued" -> j
    [] j[s].st = "active" -> [j EXCEPT ![s].next = TRUE]

(* The job leaves the queue, completed or out of attempts. *)
EndJob(j, s) == [j EXCEPT ![s] = IF j[s].next THEN FreshJob ELSE NoJob]

LastTry(j, s) == j[s].tries + 1 >= MaxTries[s]

(* The handler threw: back to the queue while attempts last. *)
FailJob(j, s) == IF LastTry(j, s) THEN EndJob(j, s)
                 ELSE [j EXCEPT ![s].st = "queued", ![s].tries = @ + 1]

Answers == [version  : Nat,
            hash     : Snapshots \cup {NoSnap},
            failures : SUBSET Kinds,
            events   : SUBSET Events]

NoAnswer == [version |-> 0, hash |-> NoSnap, failures |-> {}, events |-> {}]

Workers == [phase   : {"idle", "row", "caps", "built", "sent", "answered"},
            version : Nat,
            caps    : SUBSET (Kinds \cup EventKinds),
            snap    : Snapshots,
            dropped : SUBSET Kinds,
            events  : SUBSET Events,
            answer  : Answers]

EmptySnap == [k \in Kinds |-> Empty]

Idle == [phase |-> "idle", version |-> 0, caps |-> {}, snap |-> EmptySnap,
         dropped |-> {}, events |-> {}, answer |-> NoAnswer]

Hellos == [phase  : {"due", "sent", "upserted", "done"},
           version : Nat, hash : Snapshots \cup {NoSnap}, bumped : Nat]

HelloDue == [phase |-> "due", version |-> 0, hash |-> NoSnap, bumped |-> 0]

Init ==
  /\ ChanInit
  /\ row = NoRow
  /\ evts = [e \in Events |-> NoEventRow]
  /\ desired = EmptySnap
  /\ unbumped = FALSE
  /\ caps = NoCaps
  /\ jobs = [s \in Slots |-> NoJob]
  /\ worker = [s \in Slots |-> Idle]
  /\ ready = FALSE
  /\ hello = HelloDue
  /\ bootLost = FALSE
  /\ left = Budget

---------------------------------------------------------------------------
(* Domain handlers *)

(* A contribution edit whose handler bumps in the edit's transaction and  *)
(* then enqueues; a lost enqueue is a job lost by LoseJob right away.     *)
EditContributions(k, v) ==
  /\ Spend("edit")
  /\ v # desired[k]
  /\ desired' = [desired EXCEPT ![k] = v]
  /\ row' = BumpVersion(row, TRUE)
  /\ unbumped' = FALSE
  /\ jobs' = Enqueue(jobs, "plain")
  /\ UNCHANGED <<evts, caps, worker, ready, hello, bootLost, chanVars>>

(* A handler that commits the edit first and bumps in a later statement. *)
EditWithoutBump(k, v) ==
  /\ Spend("unbumped")
  /\ v # desired[k]
  /\ desired' = [desired EXCEPT ![k] = v]
  /\ unbumped' = TRUE
  /\ UNCHANGED <<row, evts, caps, jobs, worker, ready, hello, bootLost,
                 chanVars>>

(* ... and the bump that follows, unless the api-server dies before it. *)
LateBump ==
  /\ unbumped
  /\ unbumped' = FALSE
  /\ row' = BumpVersion(row, TRUE)
  /\ jobs' = Enqueue(jobs, "plain")
  /\ UNCHANGED <<evts, desired, caps, worker, ready, hello, bootLost, left,
                 chanVars>>

(* runtimeMutator.bump with an event, in one transaction; a publisher of  *)
(* session defaults supersedes the waiting ones in it.  A handler picks   *)
(* its fire time at the moment it posts, so fire times of one key grow.   *)
PostEvent(e) ==
  /\ evts[e].st = "absent"
  /\ \A f \in Events : EvKey[f] = EvKey[e] /\ EvTs[f] < EvTs[e]
                         => evts[f].st # "absent"
  /\ row' = BumpVersion(row, FALSE)
  /\ unbumped' = FALSE
  /\ evts' = InsertEvent(IF EvKind[e] = "session-defaults"
                         THEN SupersedePending(evts, "session-defaults")
                         ELSE evts, e, row.version + 1)
  /\ jobs' = Enqueue(jobs, "plain")
  /\ UNCHANGED <<desired, caps, worker, ready, hello, bootLost, left,
                 chanVars>>

(* expires_at passes *)
EventExpires(e) ==
  /\ Spend("expire")
  /\ evts[e].st = "pending" /\ ~evts[e].expired
  /\ evts' = [evts EXCEPT ![e].expired = TRUE]
  /\ UNCHANGED <<row, desired, unbumped, caps, jobs, worker, ready, hello,
                 bootLost, chanVars>>

---------------------------------------------------------------------------
(* The delivery worker *)

Advertised(c) == IF c = NoCaps THEN {} ELSE c

(* stateBuilder.build and filterByCapabilities *)
BuildState(c) == [k \in Kinds |-> IF k \in c THEN desired[k] ELSE Empty]
DroppedKinds(c) == {k \in Kinds \ c : desired[k] # Empty}
DeliverableEvents(c) == {e \in PendingEvents(evts) : EvKind[e] \in c}
DroppedEventKinds(c) == {EvKind[e] : e \in PendingEvents(evts)} \ c

WorkerStops(s) == worker' = [worker EXCEPT ![s] = Idle]

(* The attempt throws. *)
AttemptFails(s) ==
  /\ WorkerStops(s)
  /\ jobs' = FailJob(jobs, s)
  /\ bootLost' = (bootLost \/ (s = "boot" /\ LastTry(jobs, s)))

(* The job starts: the row, and with it the version, is read first. *)
TakeJob(s) ==
  /\ jobs[s].st = "queued"
  /\ IF row.version = 0
     THEN jobs' = EndJob(jobs, s) /\ UNCHANGED worker
     ELSE /\ jobs' = [jobs EXCEPT ![s].st = "active"]
          /\ worker' = [worker EXCEPT ![s] =
                [@ EXCEPT !.phase = "row", !.version = row.version]]
  /\ UNCHANGED <<row, evts, desired, unbumped, caps, ready, hello, bootLost,
                 left, chanVars>>

(* Mutant: a boot job is dropped like a plain one. *)
DeferAlike(s) ==
  /\ worker[s].phase = "row" /\ ~ready
  /\ WorkerStops(s) /\ jobs' = EndJob(jobs, s)
  /\ UNCHANGED <<row, evts, desired, unbumped, caps, ready, hello, bootLost,
                 left, chanVars>>

(* An agent that is not Ready: a boot job retries, a plain one ends. *)
DeferToReady(s) ==
  /\ worker[s].phase = "row" /\ ~ready
  /\ IF s = "boot" THEN AttemptFails(s)
     ELSE WorkerStops(s) /\ jobs' = EndJob(jobs, s) /\ UNCHANGED bootLost
  /\ UNCHANGED <<row, evts, desired, unbumped, caps, ready, hello, left,
                 chanVars>>

(* No hello yet: nothing is known of what the agent can take. *)
DeferToHello(s) ==
  /\ worker[s].phase = "row" /\ ready /\ caps = NoCaps
  /\ WorkerStops(s) /\ jobs' = EndJob(jobs, s)
  /\ UNCHANGED <<row, evts, desired, unbumped, caps, ready, hello, bootLost,
                 left, chanVars>>

(* The capabilities are read next, before anything is built on them. *)
ReadCaps(s) ==
  /\ worker[s].phase = "row" /\ ready /\ caps # NoCaps
  /\ worker' = [worker EXCEPT ![s] =
                   [@ EXCEPT !.phase = "caps", !.caps = caps]]
  /\ UNCHANGED <<row, evts, desired, unbumped, caps, jobs, ready, hello,
                 bootLost, left, chanVars>>

(* The payload is built from what the tables hold now, for the version    *)
(* and the capabilities read before; a workspace mutation they do not     *)
(* name is stamped.                                                       *)
BuildPayload(s) ==
  /\ worker[s].phase = "caps"
  /\ LET c == worker[s].caps
     IN  /\ worker' = [worker EXCEPT ![s] =
              [@ EXCEPT !.phase = "built", !.caps = {},
                        !.snap = BuildState(c),
                        !.dropped = DroppedKinds(c),
                        !.events = DeliverableEvents(c)]]
         /\ evts' = MarkEventsUndeliverable(evts,
                       DroppedEventKinds(c) \cap {"workspace"})
  /\ UNCHANGED <<row, desired, unbumped, caps, jobs, ready, hello, bootLost,
                 left, chanVars>>

RequestOf(s) ==
  [slot |-> s, abandoned |-> 0, version |-> worker[s].version,
   snap |-> worker[s].snap, events |-> worker[s].events]

(* Mutant: the version is read after the payload was built. *)
SendApplyReread(s) ==
  /\ worker[s].phase = "built" /\ up
  /\ worker' = [worker EXCEPT ![s] =
                   [@ EXCEPT !.phase = "sent", !.version = row.version]]
  /\ net' = net \cup {[RequestOf(s) EXCEPT !.version = row.version]}
  /\ UNCHANGED <<row, evts, desired, unbumped, caps, jobs, ready, hello,
                 bootLost, left>>
  /\ UNCHANGED <<up, bound, local, runs, disk, cur, torn, effects, lostRuns>>

SendApply(s) ==
  /\ worker[s].phase = "built" /\ up
  /\ worker' = [worker EXCEPT ![s].phase = "sent"]
  /\ net' = net \cup {RequestOf(s)}
  /\ UNCHANGED <<row, evts, desired, unbumped, caps, jobs, ready, hello,
                 bootLost, left>>
  /\ UNCHANGED <<up, bound, local, runs, disk, cur, torn, effects, lostRuns>>

(* The machine stopped since it was checked. *)
SendFails(s) ==
  /\ worker[s].phase = "built" /\ ~up
  /\ AttemptFails(s)
  /\ UNCHANGED <<row, evts, desired, unbumped, caps, ready, hello, left,
                 chanVars>>

(* An event is first when no other of the payload has an older version. *)
FirstOf(e, S) == \A f \in S : evts[e].version <= evts[f].version

(* Mutant: every event of the payload counts as tried. *)
SentEvents(sent, settled) == sent

(* attemptedEventIds: the first workspace mutation left unsettled hides   *)
(* the events behind it, which were never tried.                          *)
AttemptedEvents(sent, settled) ==
  LET held == {e \in sent \ settled : IsWorkspaceMutation(e)}
  IN  {e \in sent : \A h \in held : evts[e].version <= evts[h].version}

(* The answer is recorded in one transaction. *)
RecordAnswer(s) ==
  /\ worker[s].phase = "answered"
  /\ LET a == worker[s].answer
         res == [version |-> a.version, hash |-> a.hash,
                 failures |-> a.failures, events |-> a.events,
                 attempted |-> AttemptedEvents(worker[s].events, a.events),
                 dropped |-> worker[s].dropped]
     IN  /\ row' = RecordRow(row, worker[s].version, res)
         /\ evts' = RecordEvents(evts, row, res)
  /\ WorkerStops(s)
  /\ UNCHANGED <<desired, unbumped, caps, ready, hello, bootLost, chanVars>>

(* ... and the job completes, *)
RecordOutcome(s) ==
  RecordAnswer(s) /\ jobs' = EndJob(jobs, s) /\ UNCHANGED left

(* or dies in what follows the transaction and is tried again. *)
RecordThenFails(s) ==
  Spend("lose") /\ RecordAnswer(s) /\ jobs' = FailJob(jobs, s)

Abandon(r) == [r EXCEPT !.abandoned = left["lose"]]

(* The attempt dies at any point: the call's timeout, a broken            *)
(* connection or the worker's own process.  What was sent goes on.        *)
LoseAttempt(s) ==
  /\ Spend("lose")
  /\ worker[s].phase # "idle"
  /\ AttemptFails(s)
  /\ net' = {IF r.slot = s /\ r.abandoned = 0 THEN Abandon(r) ELSE r :
               r \in net}
  /\ cur' = IF cur # NoApply /\ cur.req.slot = s /\ cur.req.abandoned = 0
            THEN [cur EXCEPT !.req = Abandon(cur.req)] ELSE cur
  /\ UNCHANGED <<row, evts, desired, unbumped, caps, ready, hello>>
  /\ UNCHANGED <<up, bound, local, runs, disk, torn, effects, lostRuns>>

(* Redis drops a waiting job, or the api-server dies before it enqueues. *)
LoseJob(s) ==
  /\ Spend("lose")
  /\ jobs[s].st = "queued" \/ jobs[s].next
  /\ jobs' = IF jobs[s].st = "queued" THEN [jobs EXCEPT ![s] = NoJob]
             ELSE [jobs EXCEPT ![s].next = FALSE]
  /\ bootLost' = (bootLost \/ s = "boot")
  /\ UNCHANGED <<row, evts, desired, unbumped, caps, worker, ready, hello,
                 chanVars>>

---------------------------------------------------------------------------
(* The sweep, and the watch on Ready *)

(* One tick: rows to retry are enqueued unless their agent is seen        *)
(* stopped, a check without an answer counting as running; expired events *)
(* are deleted.                                                           *)
Sweep(seen) ==
  /\ seen = "running" => ready
  /\ seen = "stopped" => ~ready
  /\ jobs' = IF ListRetryable(row, evts) /\ seen # "stopped"
             THEN Enqueue(jobs, "plain") ELSE jobs
  /\ evts' = DeleteExpiredEvents(evts)
  /\ UNCHANGED <<row, desired, unbumped, caps, worker, ready, hello,
                 bootLost, left, chanVars>>

(* Ready turns True, and the watch re-enqueues an unsettled row. *)
BecomeReady ==
  /\ up /\ ~ready
  /\ ready' = TRUE
  /\ jobs' = IF ~IsSettled(row) THEN Enqueue(jobs, "plain") ELSE jobs
  /\ UNCHANGED <<row, evts, desired, unbumped, caps, worker, hello, bootLost,
                 left, chanVars>>

(* The gateway pod rolls: Ready goes down, the runtime keeps running. *)
GatewayRolls ==
  /\ Spend("roll")
  /\ ready
  /\ ready' = FALSE
  /\ UNCHANGED <<row, evts, desired, unbumped, caps, jobs, worker, hello,
                 bootLost, chanVars>>

---------------------------------------------------------------------------
(* hello *)

HelloSend ==
  /\ up /\ hello.phase = "due"
  /\ hello' = [phase |-> "sent", version |-> local.version,
               hash |-> local.hash, bumped |-> 0]
  /\ UNCHANGED <<row, evts, desired, unbumped, caps, jobs, worker, ready,
                 bootLost, left, chanVars>>

(* Mutant: the capabilities are stored without a bump. *)
HelloUpsertOnly ==
  /\ up /\ hello.phase = "sent"
  /\ caps' = bound
  /\ hello' = [hello EXCEPT !.phase = "upserted"]
  /\ UNCHANGED <<row, unbumped, evts, desired, jobs, worker, ready, bootLost,
                 left, chanVars>>

(* The capabilities and the bump a change of them asks for, atomically. *)
HelloUpsert ==
  /\ up /\ hello.phase = "sent"
  /\ caps' = bound
  /\ IF Advertised(caps) # bound /\ row.version > 0
     THEN /\ row' = BumpVersion(row, TRUE)
          /\ unbumped' = FALSE
          /\ hello' = [hello EXCEPT !.phase = "upserted",
                                    !.bumped = row.version + 1]
     ELSE /\ hello' = [hello EXCEPT !.phase = "upserted"]
          /\ UNCHANGED <<row, unbumped>>
  /\ UNCHANGED <<evts, desired, jobs, worker, ready, bootLost, left,
                 chanVars>>

(* Mutant: the reported hash is not compared. *)
NeverDrifted == FALSE

(* stateDrifted *)
Drifted ==
  /\ hello.bumped = 0 /\ row.version > 0 /\ row.version = hello.version
  /\ hello.hash # NoSnap /\ BuildState(bound) # hello.hash

(* The reported cursor is compared with the desired version. *)
HelloCheck ==
  /\ up /\ hello.phase = "upserted"
  /\ LET desiredVersion == IF hello.bumped # 0 THEN hello.bumped
                           ELSE IF Drifted THEN row.version + 1
                           ELSE row.version
     IN  jobs' = IF desiredVersion > hello.version
                 THEN Enqueue(jobs, "boot") ELSE jobs
  /\ IF Drifted THEN row' = BumpVersion(row, TRUE) /\ unbumped' = FALSE
     ELSE UNCHANGED <<row, unbumped>>
  /\ hello' = [HelloDue EXCEPT !.phase = "done"]
  /\ UNCHANGED <<evts, desired, caps, worker, ready, bootLost, left,
                 chanVars>>

(* The call fails at the agent, which retries with a fresh report. *)
HelloFails ==
  /\ Spend("lose")
  /\ hello.phase \in {"sent", "upserted"}
  /\ hello' = HelloDue
  /\ UNCHANGED <<row, evts, desired, unbumped, caps, jobs, worker, ready,
                 bootLost, chanVars>>

---------------------------------------------------------------------------
(* The agent-runtime *)

Late(S) == {e \in S : evts[e].expired}

Receive(r) == ReceiveApply(r, Late(r.events)) /\ UNCHANGED srvVars

DriverOk(k) == RunDriver(k) /\ UNCHANGED srvVars

DriverThrows(k) ==
  /\ Spend("fault")
  /\ DriverFails(k)
  /\ UNCHANGED <<row, evts, desired, unbumped, caps, jobs, worker, ready,
                 hello, bootLost>>

StartEvents == BeginEvents(Late(cur.req.events)) /\ UNCHANGED srvVars

NextEvent(e) == FirstOf(e, cur.evtodo)

EventSkipped(e) == SkipEvent(e) /\ NextEvent(e) /\ UNCHANGED srvVars

EventInvoked(e) == InvokeEvent(e) /\ NextEvent(e) /\ UNCHANGED srvVars

EventRecorded(e) == RecordEvent(e) /\ UNCHANGED srvVars

(* The failure report is sent once and may be lost. *)
EventThrows(e, reported) ==
  /\ Spend("fault")
  /\ FailEvent(e) /\ NextEvent(e)
  /\ evts' = IF reported /\ ReportsFailure(e) THEN ClaimEventReport(evts, e)
             ELSE evts
  /\ UNCHANGED <<row, desired, unbumped, caps, jobs, worker, ready, hello,
                 bootLost>>

(* The write of the run fails after the handler has done its work. *)
RecordThrows(e, reported) ==
  /\ Spend("fault")
  /\ FailRecord(e)
  /\ evts' = IF reported /\ ReportsFailure(e) THEN ClaimEventReport(evts, e)
             ELSE evts
  /\ UNCHANGED <<row, desired, unbumped, caps, jobs, worker, ready, hello,
                 bootLost>>

(* The answer reaches the worker if it still waits for it. *)
Finish ==
  /\ FinishApply
  /\ worker' = IF cur.req.abandoned = 0
               THEN [worker EXCEPT ![cur.req.slot] =
                       [@ EXCEPT !.phase = "answered", !.answer = Answer]]
               ELSE worker
  /\ UNCHANGED <<row, evts, desired, unbumped, caps, jobs, ready, hello,
                 bootLost, left>>

(* The rejection reaches the worker if it still waits. *)
ApplyRejects ==
  /\ Spend("fault")
  /\ AbortApply
  /\ IF cur.req.abandoned = 0 THEN AttemptFails(cur.req.slot)
     ELSE UNCHANGED <<worker, jobs, bootLost>>
  /\ UNCHANGED <<row, evts, desired, unbumped, caps, ready, hello>>

(* A stop breaks the calls in flight: their attempts fail. *)
Stop ==
  /\ Spend("stop")
  /\ StopMachine
  /\ ready' = FALSE
  /\ LET cut(s) == worker[s].phase = "sent"
     IN  /\ worker' = [s \in Slots |-> IF cut(s) THEN Idle ELSE worker[s]]
         /\ jobs' = [s \in Slots |->
                       IF cut(s) THEN FailJob(jobs, s)[s] ELSE jobs[s]]
         /\ bootLost' = (bootLost \/ (cut("boot") /\ LastTry(jobs, "boot")))
  /\ hello' = HelloDue
  /\ UNCHANGED <<row, evts, desired, unbumped, caps>>

Boot(b, envMissing) == BootMachine(b, envMissing) /\ UNCHANGED srvVars

---------------------------------------------------------------------------
DomainNext ==
  \/ \E k \in Kinds, v \in Values : EditContributions(k, v)
  \/ \E k \in Kinds, v \in Values : EditWithoutBump(k, v)
  \/ LateBump
  \/ \E e \in Events : PostEvent(e)
  \/ \E e \in Events : EventExpires(e)

WorkerStep(s) ==
  \/ TakeJob(s)
  \/ DeferToReady(s)
  \/ DeferToHello(s)
  \/ ReadCaps(s)
  \/ BuildPayload(s)
  \/ SendApply(s)
  \/ SendFails(s)
  \/ RecordOutcome(s)

HelloStep == HelloSend \/ HelloUpsert \/ HelloCheck

AgentStep ==
  \/ \E r \in net : Receive(r)
  \/ \E k \in Kinds : DriverOk(k)
  \/ StartEvents
  \/ \E e \in Events : EventSkipped(e) \/ EventInvoked(e) \/ EventRecorded(e)
  \/ Finish

FaultNext ==
  \/ \E s \in Slots : LoseAttempt(s) \/ LoseJob(s) \/ RecordThenFails(s)
  \/ GatewayRolls
  \/ HelloFails
  \/ \E k \in Kinds : DriverThrows(k)
  \/ \E e \in Events, r \in BOOLEAN : EventThrows(e, r) \/ RecordThrows(e, r)
  \/ ApplyRejects
  \/ Stop

Next ==
  \/ DomainNext
  \/ \E s \in Slots : WorkerStep(s)
  \/ \E seen \in {"running", "stopped", "unknown"} : Sweep(seen)
  \/ BecomeReady
  \/ HelloStep
  \/ AgentStep
  \/ FaultNext
  \/ \E b \in CapSets, m \in BOOLEAN : Boot(b, m)

Spec == Init /\ [][Next]_vars

(* Scheduling the code has: the queue runs its jobs, the runtime its      *)
(* handlers, the cron its ticks; a stopped machine is started again, an   *)
(* agent that is up becomes Ready, and hello is retried until it lands.   *)
(* No disturbance, edit or late bump is ever assumed to happen.           *)
Fairness ==
  /\ \A s \in Slots : WF_vars(WorkerStep(s))
  /\ WF_vars(Sweep("running") \/ Sweep("stopped"))
  /\ WF_vars(BecomeReady)
  /\ WF_vars(HelloStep)
  /\ WF_vars(AgentStep)
  /\ WF_vars(\E b \in CapSets, m \in BOOLEAN : Boot(b, m))

FairSpec == Spec /\ Fairness

---------------------------------------------------------------------------
(* Properties *)

(* The type of every variable: the rows, the queue, the runtime-state     *)
(* file and the calls in flight keep their shape.                         *)
TypeOK ==
  /\ row \in Rows
  /\ evts \in [Events -> EventRows]
  /\ desired \in Snapshots
  /\ unbumped \in BOOLEAN
  /\ caps \in CapSets \cup {NoCaps}
  /\ jobs \in [Slots -> Jobs]
  /\ worker \in [Slots -> Workers]
  /\ ready \in BOOLEAN
  /\ hello \in Hellos
  /\ bootLost \in BOOLEAN
  /\ left \in [Disturbances -> Nat]
  /\ up \in BOOLEAN
  /\ bound \in CapSets
  /\ local \in [version : Nat, hash : Snapshots \cup {NoSnap}]
  /\ runs \in [Keys -> Nat]
  /\ disk \in Snapshots
  /\ net \subseteq Requests
  /\ cur \in Applies \cup {NoApply}
  /\ torn \in BOOLEAN
  /\ effects \in [Events -> Nat]
  /\ lostRuns \in [Events -> Nat]

(* No cursor runs ahead of what it follows: the applied version never     *)
(* passes the answered one, neither passes the desired one, and no agent  *)
(* or request holds a version the outbox has not issued (recordOutcome    *)
(* and the stale branch of the worker, under racing and late deliveries). *)
CursorsOrdered ==
  /\ row.applied <= row.settled
  /\ row.settled <= row.version
  /\ local.version <= row.version
  /\ \A s \in Slots : worker[s].version <= row.version
  /\ \A r \in net : r.version <= row.version
  /\ cur # NoApply => cur.req.version <= row.version

(* What the agent would read from its disk, for the kinds both sides know.*)
DiskHolds(snap) == \A k \in Kinds : k \in caps \cap bound => disk[k] = snap[k]

CaughtUp == /\ up /\ cur = NoApply /\ caps # NoCaps
            /\ local.version > 0 /\ local.version = row.version

(* An agent that reports the desired version holds the desired contents:  *)
(* whatever deliveries raced, were abandoned or built on old              *)
(* capabilities, the drivers' files are those of the tables, as long as   *)
(* every edit has been bumped and the last dispatch was not torn by a     *)
(* failing driver or a stop (service.ts apply, worker-handler).           *)
AppliedIsOnDisk ==
  CaughtUp /\ ~unbumped /\ ~torn => DiskHolds(desired)

(* The owner-visible capability gap is the current one once the current   *)
(* version is answered: a delivery built on stale capabilities never      *)
(* leaves its record behind (hello bumps with the upsert, recordOutcome). *)
GapRecorded ==
  row.version > 0 /\ IsSettled(row) /\ ~unbumped
    => row.dropped = DroppedKinds(Advertised(caps))

(* The api-server's cursors never move back, and the agent's only when a  *)
(* boot forgets it: an answer that arrives late or out of order cannot    *)
(* undo what a newer one recorded.                                        *)
CursorsMonotone ==
  [][/\ row'.version >= row.version
     /\ row'.settled >= row.settled
     /\ row'.applied >= row.applied
     /\ local'.version < local.version => ~up /\ local'.version = 0]_vars

(* A hello never leaves an agent whose reported state is not the one      *)
(* built now without a newer version to fetch: an edit whose bump was     *)
(* lost is picked up here (stateDrifted).                                 *)
HelloLeavesNoDrift ==
  [][hello.phase = "upserted" /\ hello'.phase = "done" /\ row.version > 0
       => \/ row'.version > hello.version
          \/ BuildState(bound) = hello.hash]_vars

(* A directive's work is done again only when its run was not recorded:   *)
(* the machine stopped between the work and the write to the state store, *)
(* or the write failed.  Lost answers, doubled jobs and late requests do  *)
(* not redo it.                                                           *)
RefireOnlyAcrossCrash ==
  \A e \in Events : effects[e] <= 1 + lostRuns[e]

(* Once a newer directive of a key has run and been recorded, an older    *)
(* one never does its work, however late its request arrives: a           *)
(* superseded default cannot overwrite the newer one.                     *)
OlderNeverAfterNewer ==
  [][\A e, f \in Events :
       /\ effects'[e] > effects[e]
       /\ EvKey[f] = EvKey[e] /\ EvTs[f] > EvTs[e]
       => effects[f] = lostRuns[f]]_vars

(* No directive does its work while a workspace mutation posted before it *)
(* is still to be done: an initialization never runs on a seed that has   *)
(* not happened and that the platform still retries.                      *)
HeldBehindMutation ==
  [][\A e, m \in Events :
       /\ effects'[e] > effects[e]
       /\ IsWorkspaceMutation(m)
       /\ evts[m].version < evts[e].version
       => evts[m].st # "pending" \/ evts[m].expired \/ AlreadyRun(m)]_vars

(* The attempt budget of a workspace mutation is charged only once the    *)
(* mutations before it are out of the way (attemptedEventIds).            *)
ChargedOnlyWhenTried ==
  \A m, n \in Events :
    /\ IsWorkspaceMutation(m) /\ IsWorkspaceMutation(n)
    /\ evts[m].version < evts[n].version
    /\ evts[n].attempts > 0
    => evts[m].st # "pending" \/ evts[m].expired

RanOrReplaced(e) ==
  \/ effects[e] > 0
  \/ evts[e].expired
  \/ \E f \in Events : EvKey[f] = EvKey[e] /\ EvTs[f] > EvTs[e]
                          /\ effects[f] > 0

(* A row stamped dispatched without an error stands for work that was     *)
(* done, had expired, or was overtaken by a newer directive of its key,   *)
(* whichever answers were lost or doubled.                                *)
SettledMeansRan ==
  \A e \in Events :
    evts[e].st = "dispatched" /\ evts[e].error = "none" => RanOrReplaced(e)

(* Every version is answered in the end: a lost enqueue, a dropped job, a *)
(* failed attempt or a stop only delays it (sweep, hello, ready watch).   *)
VersionsSettle == []<>(IsSettled(row))

(* An agent that runs ends up at the desired version, even after it       *)
(* forgot what it had applied, unless a boot job was lost on the way      *)
(* (hello, the boot job's own deduplication key).                         *)
AgentCatchesUp ==
  <>[](row.version = 0 \/ local.version = row.version \/ bootLost)

(* The agent leaves "preparing workspace": its mutations run, are given   *)
(* up, or are stamped when the runtime cannot take them.                  *)
WorkspaceGetsReady == []<>(~PreparingWorkspace(evts))

---------------------------------------------------------------------------
(* The abstract specification of the directives *)

StatusOf(r) == CASE r.st = "absent" -> "absent"
                 [] r.st = "pending" -> "owed"
                 [] r.st = "dispatched" /\ r.error = "none" -> "done"
                 [] OTHER -> "ended"

StatusOfAll == [e \in Events |-> StatusOf(evts[e])]
OrderOfAll == [e \in Events |-> evts[e].version]
ExpiredOnes == {e \in Events : evts[e].expired}
AbleOnes == {e \in Events : EvKind[e] \in bound}
RunningOne == IF cur = NoApply THEN NoEvent ELSE cur.running

Journal == INSTANCE DirectiveJournal WITH
  Directives <- Events, Key <- EvKey, Ts <- EvTs, None <- NoEvent,
  Holding <- {e \in Events : IsWorkspaceMutation(e)},
  st <- StatusOfAll, order <- OrderOfAll, expired <- ExpiredOnes,
  record <- runs, able <- AbleOnes, running <- RunningOne,
  work <- effects, lost <- lostRuns

(* Delivery implements the journal: through doubled jobs, lost and late   *)
(* answers, retries, restarts and updates of the image, the rows of       *)
(* runtime_events and the agent's event loop are a journal of directives  *)
(* and an agent that works them once, in order, and reports as done what  *)
(* is on its record (event-loop.ts, recordOutcome, the sweep).            *)
JournalKept == Journal!Spec

---------------------------------------------------------------------------
(* A claim of the repository's documentation that the code does not keep  *)

(* docs/architecture/runtime-delivery.md: a consumer that needs the       *)
(* agent's disk to match the spec gates on the applied cursor.            *)
AppliedMeansOnDisk ==
  IsApplied(row) /\ CaughtUp /\ ~unbumped => DiskHolds(desired)
=============================================================================
