# dam: TLA+ models

dam runs coding agents, each in a microVM of its own. The **api-server** owns
what an agent should be and do; the **agent-runtime** inside the machine makes
it so. Around them stand owners who decide what an agent may do, schedules that
start work, machines outside the cluster (satellites) that lend it tools, and
several replicas of the server, of which one runs the chat channels. The models
here cover five parts in which this coordination is done: *runtime delivery*,
*approvals*, *schedules*, the *leader lease* and *satellites*.

Sources are named relative to `packages/`; `AS` is `api-server/src`, `RD` is
`AS/modules/runtime-delivery`, `AP` is `AS/modules/approvals`, `RC` is
`agent-runtime/src/modules/runtime-channel`. `map` in `PROJECT.json` has the
lines of every definition.

## 1. Inventory

| part | state | operations | talks to | what makes it correct |
|---|---|---|---|---|
| outbox (`RD/infrastructure/outbox-repo.ts`) | one `runtime_state_outbox` row per agent (desired, answered, applied version, hash, failures, attempts, gap), `runtime_events` rows | `bumpVersion`, `insertEvent`, `supersedePending`, `recordOutcome`, `listRetryable`, `markEventsUndeliverable`, `claimEventReport`, `deleteExpiredEvents` | Postgres | cursors ordered and monotone; an event row says what happened to the event |
| mutator and domain handlers (`runtime-mutator.ts`, agents, connections, harness-config) | the domain tables | edit, bump, post event, enqueue | outbox, queue | no committed edit stays without a version |
| queue (`state-queue.ts`, BullMQ) | at most one waiting and one active job per deduplication id, two ids per agent | enqueue, retry with backoff | Redis | a lost job is made good by sweep, hello or ready watch |
| worker (`worker-handler.ts`) | locals across five awaits: row, capabilities, payload, answer | deliver one agent | outbox, agent | the answer is recorded for what was really sent |
| hello, sweep, ready watch | `agents.runtime_capabilities` | upsert, drift check; re-enqueue, expire | outbox, queue | an agent that is behind gets a job; every unsettled row is retried |
| runtime channel (`RC`) | `runtime-state.json` (applied version, hash, event runs), the files drivers write | `applyState`, boot, hello | api-server | the record describes the disk; work is not redone, not reordered |
| approvals (`AP`, `AS/modules/egress-rules`) | `pending_approvals`, egress rules, held calls, the runtime's held requests | ext_authz check, decide, propose, record and end reports, sweep | Envoy, UI, Slack, runtime | a call that waits is answered, by a decision about it that stands; a verdict reaches the tool |
| schedules (`AS/modules/schedules`) | `schedules` rows, delayed jobs, the fire in progress | create, edit, toggle, fire, reconcile, resume, settle | queue, runtime delivery | no occurrence is skipped; a one-time task goes out once and its row tells what became of it |
| leader lease (`AS/core/leader-lease.ts`) | the Kubernetes Lease; per replica its view of it, a chain of transitions, the roles | campaign, claim, transition, release, back off, stop | Kubernetes, roles | one replica serves at a time, with all its roles; somebody serves |
| satellites (`AS/modules/satellites`, `cli/src/modules/satellite`) | `satellites` and `satellite_jobs` rows; a worker's running tools and unsent reports; deliveries in progress | register, start, claim, heartbeat, report, cancel, drain, revoke, remove, sweep, deliver, purge | worker, agent, owner | a call runs at most once, its own result lands in its row, the agent is told once |
| invocations | spawned agents and their outcome | spawn, watch, deliver outcome, reap | agents, runtime delivery | every invocation ends, with one outcome |
| ACP relay, prompt scheduler | turns and their queue in the agent-runtime | prompt, cancel, steer | UI, channels | one turn per session at a time |
| controller (Go), budgets | Agent resources, machines | reconcile, admit | Kubernetes, vm-runner | the owner's pool is never overdrawn |
| the rest | CRUD modules, UI, VM host, telemetry | | | listed in `PROJECT.json` with the reason they are left out |

Hard behaviours, each at its line under `hazards` in `PROJECT.json`: state read
before an await and used after it; two jobs, owners, sweeps or deliveries on one
row; answers, reports and verdicts out of order or after what they are about is
gone; a call that was lost after it took effect; a driver, role or statement
that fails half way; a stop between work and its record; a number that comes
back with the next registration; a batch filled by rows nobody can deliver.

## 2. Modules

    RuntimeOutbox  <-  RuntimeChannel  <-  RuntimeDelivery  <-  MCRuntimeDelivery
                          (implements DirectiveJournal)
                                               ^
                  RuntimeDeliveryProofs  <-  RuntimeDeliverySafety  <-  RuntimeDeliveryEvents

    ApprovalRows  <-  EgressHolds, ToolApprovals  <-  Approvals  <-  MCApprovals

    ScheduleQueue  <-  ScheduleFires  <-  Schedules  <-  MCSchedules

    LeaderLease (implements SingleServer)  <-  MCLeaderLease

    SatelliteJobs  <-  SatelliteWorker, SatelliteAgents  <-  Satellites  <-  MCSatellites

    Approvals    <-  ApprovalsProofs          Schedules   <-  SchedulesProofs
    LeaderLease  <-  LeaderLeaseProofs        Satellites  <-  SatellitesProofs  <-  SatellitesTurns

The parts share no state in the model. Where one uses another it sees what the
other promises: a schedule's event is sent, settled or expired as delivery has
it; a satellite's outcome becomes a turn when its event is written.

Common to all: a statement or transaction on a table is one operator or one
step; each await of a handler is a step of its own, with locals kept in the
handler's record; faults and outside requests spend a unit of a budget
(`Budget`, `left`), so that they stop in the end. In the four newer parts a
behaviour begins by picking a *scenario*: who takes part and which disturbances
it has. This keeps instances small while every combination listed is explored.
Definitions whose comment begins with "Mutant" are variants of the one below
them that break a property; no specification uses them.

### Runtime delivery

**RuntimeOutbox**: the statements of `outbox-repo.ts` as operators from the old
row(s) to the new. Version 0 is the absent row.

**RuntimeChannel**: the agent-runtime. `service.ts` serializes `applyState`, so
there is one apply in progress (`cur`) and a set of requests behind it (`net`).
Each await is a step: `ReceiveApply` (stale, dispatch or skip), `RunDriver` /
`DriverFails` per bound kind, `BeginEvents`, then per event in version order
`SkipEvent`, `InvokeEvent` followed by `RecordEvent` or `FailRecord`, or
`FailEvent`; at last `FinishApply`, or `AbortApply` when the handler throws
elsewhere. `StopMachine` may fall anywhere; `BootMachine` is
`createStateStore`, including what makes it forget its record.

**RuntimeDelivery**: everything around it for one agent. The handler of
`worker-handler.ts` is `TakeJob` (row read), `DeferToReady` / `DeferToHello` /
`ReadCaps`, `BuildPayload` (with the stamping of undeliverable mutations),
`SendApply` / `SendFails`, `RecordOutcome` / `RecordThenFails`. `hello` is
`HelloSend`, `HelloUpsert` (one transaction), `HelloCheck`. One step each:
`Sweep` (a tick; an agent is seen running, stopped, or not at all), `BecomeReady`
(the watch), the domain handlers. The faults: `LoseAttempt` (timeout, broken
connection or death of the worker at any await; the request goes on as
abandoned), `LoseJob`, `HelloFails`, `GatewayRolls`, `Stop`.

Data: the contributions of a kind are one value; a snapshot maps
kinds to values and is its own hash (SHA-256 taken as injective, order
normalised as `contribution-hash.ts` does); a kind the capability filter drops
has the value of a kind without contributions. Event ids are split beforehand into
key and fire time. `workspace-seed` and `workspace-command` are the kind
`workspace`; kinds without a rule of their own are `message`. `torn`,
`unbumped`, `bootLost`, `effects` and `lostRuns` are history variables that no
guard but `LateBump`'s reads. `effects` counts handlers that returned: a handler
that throws half way is a failure without effect, so nothing is said of partial
work inside one handler.

**DirectiveJournal** is the abstract specification of the events: directives are
posted, expire, are run, put on record or lost, and the books are brought up to
date (`Settle`); no outbox, job, request or answer. It fixes what may happen to
each: a run needs that the directive is not on record, nor a newer one of its
key, that its earlier work was lost, and that nothing posted before it holds it;
done is what is on record or expired. The mapping reads `st` off a row's status
and error (`StatusOf`: owed, done, or ended by replacement, by giving up or by
deletion), `order` off its version, `record` off the agent's runs, `running` off
the apply in progress. Jobs, workers, requests, answers and the disk are stutters.

### Approvals

**ApprovalRows**: `pending_approvals` and the conditional updates of
`approvals-repository.ts` (resolve what is pending, resolve late, expire,
correct, mark delivered).

**EgressHolds**: the hold of `ext-authz-gate.ts` (look for a rule, join an open
question or ask, wait for wake-up, poll or timer, answer), the owner's verbs
with the rule they write before they settle the row (`egress-rule-writer.ts`),
proposals of rules by the agent, revocation, the expiry of overdue rows.

**ToolApprovals**: a permission request the agent-runtime holds for its harness
(`pending-agent-requests.ts`), the record and end reports of
`tool-approval-reporter.ts` with their retries, the owner's answer and the frame
that carries it, the mirror the relay keeps, and the sweeper that sends again
what is resolved and undelivered, a batch at a time.

**Approvals** composes the two over one table: both sides are swept by the
same statements, so each can starve or settle the other's rows.

Data: a request is its *shape* (what a rule can match); `HostWide` is the wider
rule. Of the verdicts only grant or denial and once or for good remain.

### Schedules

**ScheduleQueue**: the row, the delayed jobs (a job that is done or failed keeps
its id taken) and the sync that arms the next occurrence.
**ScheduleFires**: the handler of a job, `scheduler-runner.ts`, await by await:
read the row, ask whether the agent is onboarding, then whether it is disabled,
then the spend limit, commit the trigger, write the outcome, arm the next; with
retries, death and stalls. **Schedules** adds the
owner's desks (edit, toggle, delete), the reconcile, the resume of held tasks,
the events' delivery and the listener that settles a one-time task, and time.

Data: time is a count of moments; a recurrence is the set of moments it fires
at. Quiet hours and RRULE arithmetic are in that set.

### Leader lease

**LeaderLease**: the replicas of `leader-lease.ts`. A tick is a third of the
Lease's duration, the period of the campaign. A claim is a read followed by a
conditional write whose answer may be lost; transitions are chained; a failed
start rolls back, releases and backs off; `stop` waits for the claim in flight.
`up` is the set of roles really at work, `running` what the replica's books say.

**SingleServer** is the abstract specification: one server, none, another, each
handing over only by stopping (`Safety`), and again and again somebody serves
(`Served`). The mapping is `TheServer`: the replica with a role up, or the set of them if there were two.

### Satellites

**SatelliteJobs**: the rows and statements of `satellites-repository.ts`; the
slots of deliveries in progress. **SatelliteWorker**: `worker.ts` of the CLI
against `worker-ops.ts`: connect, two long polls (one for work, one for
cancellations when there is no capacity), reports and the reports kept unsent,
heartbeat, draining, exit, a second interrupt, a kill; every call may fail
before or after the server acted on it. **SatelliteAgents**: the agent's calls
(`agent-ops.ts`: start, wait, read, cancel; claiming an outcome, giving a wait's
lease back and answering are steps of their own), the owner's
(`satellites-service.ts`: a revocation takes the grant and then stops the
dispatch), and the delivery of outcomes (`outcome-delivery.ts`, `core/outcome-turn.ts`)
with the hourly retry. **Satellites** adds the sweep and time: instead of
clocks, a lease, a wait, a sent cancellation and a row are fresh or lapsed.

`hist` is history: how often each call ran, how many turns told of it, who saw
it, and what a dying delivery or a dying request left claimed.

## 3. Runs

Sizes are for two workers.

| run | instance | checks | states |
|---|---|---|---|
| DeliveryRaces | 2 kinds (symmetric), 2 edits, 1 loss, 1 fault, 2 tries | CursorsOrdered, AppliedIsOnDisk, CursorsMonotone | 2.3 M |
| DeliveryRestarts | 1 kind, image with or without its driver, 1 edit, 1 unbumped edit, 1 stop, 1 roll | AppliedIsOnDisk, GapRecorded, HelloLeavesNoDrift | 3.2 M |
| CreateEvents | 2 workspace mutations, 2 faults | ChargedOnlyWhenTried, HeldBehindMutation | 0.8 M |
| KeyedEvents | 2 session defaults of a key, 1 fault, 1 expiry | SettledMeansRan, OlderNeverAfterNewer, JournalKept | 0.4 M |
| CatchUp (liveness) | 1 kind, 1 edit, 1 stop, 1 loss, 2 tries | AgentCatchesUp, VersionsSettle | 0.3 M |
| WorkspaceReady (liveness) | 1 seed, image with or without its handler, 1 fault, 1 stop | WorkspaceGetsReady, RefireOnlyAcrossCrash | 0.7 M |
| Approvals | 10 scenarios of calls of 1 or 2 shapes, a proposal, tool requests, 1 or 2 owners | AllowIsGranted, PermanentHasRule, EndIsFinal, DecidedOnce, EveryCallAnswered, DecisionReachesTool, QuestionsClose | 0.2 M |
| Schedules | 11 scenarios of a recurring or a one-time schedule, 5 moments, 2 desks, 2 attempts | RunsOnce, OutcomeIsTrue, NoneSkipped, DueFires, OnceResolves | 0.2 M |
| LeaderLease | 2 replicas, 2 roles, 5 sets of disturbances | AllOrNone, ReleasedWhenStopped, OneServer, LeaderServes | 0.1 M |
| Satellites | 11 scenarios, 2 worker processes, 2 agent calls, 1 owner, 2 deliveries | NoBacklog, NeverRetried, OwnOutcome, OneTurn, SettledStays, UntoldIsKept, JobsSettle, CancelReaches, OutcomeReaches | 0.2 M |

**Bounds of delivery.** Jobs have `MaxTries` attempts (8 and 120 in the code)
and rows `MaxAttempts` (8). With one or two of each, every branch on "last
attempt" and "attempts left" is taken. Two slots, two kinds and two versions are
what the properties about races tell apart: an older and a newer payload, a
driver that ran and one that failed. The theorems of section 5 remove the bound
where it matters most.

**Bounds of the others.** Two calls of a shape are what it takes to join
another's question, two owners to contradict each other, two tool requests of
one tool call to supersede. `BatchSize` is 3 (50), more than the rows a scenario
can leave undeliverable; SweepStarved sets it to 1. Two occurrences, a window of
3 moments and a limit that lifts each second moment let a fire be late, held,
retried and past its window. Two replicas suffice for every conflict over one
Lease. `Limit` 1 and two calls make the race for room; `MaxSeq` 2 makes a number
come back after a removal; `MaxUnsent` 1 (16) makes the eviction happen. A poll
for cancellations is a step only when it would carry one or change a row
(`PollMatters`), the statements of one claim round are one step, and a settled
row reaches its retention only at the cost of a "week".

Deadlock is checked in the delivery runs (a sweep tick is always possible) and
in LeaderLease. In Approvals, Schedules and Satellites a scenario comes to its
end when everything asked for has happened, so it is not.

**What the runs of the new parts show.** *Approvals*: a call let through rests
on a grant of its own shape that is on record, whichever of poll, timer, sweep
and late verdict came first; opposite permanent verdicts cannot both settle; the
runtime's end report is the last word even when it overtakes the record; nobody
waits for ever. *Schedules*: the fire's retry neither sends twice nor leaves the
schedule unarmed, and an armed occurrence is passed over only by a fire, by its
owner's own change or in the wake of a replaced recurrence; no statement lets the row of a one-time task say what its
event contradicts. *LeaderLease*: through lost answers, failed starts and stops,
crashes and shutdowns the roles run on one replica, and the election implements
SingleServer. *Satellites*: a lost answer is never retried on the machine, a
late report never lands in a successor's row, an outcome is told once and not
purged before.

**Disagreements with a run** (`findings` in `PROJECT.json` quotes the lines):

* **TornDispatch**: contents edited back after a half-failed dispatch are
  skipped by the hash comparison and reported applied.
* **SweepStarved**: resolved egress rows are never marked delivered and fill the
  sweeper's batch, so a tool verdict whose first send failed is not sent again.

**Disagreements without a run**, met while modelling; the passing properties are
stated beside them. Where one is said to break a property, TLC shows it once the
exception, or the bound that leaves it out, is lifted (AppliedIsOnDisk holds *unless* `torn` or `unbumped`,
AgentCatchesUp *unless* `bootLost`, UntoldIsKept and OutcomeReaches *unless*
`orphaned`, NoneSkipped *unless* `Outdated`):

* Delivery. Two answers of one version are recorded in either order; a clean one
  from before a restart erases the failures of a later one (`outbox-repo.ts:345`).
  An agent that forgot its state has a settled row, so neither sweep nor ready
  watch puts back its dropped boot job (`outbox-repo.ts:405`). Some handlers edit
  and bump in two statements (`agents-service.ts:1652`). A delivered message whose
  answer was lost is reported expired (`cron-sweep.ts:131`). An event that reaches
  an image without its handler is recorded as run (`dispatcher.ts:156`). A failed
  harness-config event is settled unrun once a newer one has run
  (`event-loop.ts:29`), whereas the delivery document has it redelivered.
* Approvals. `expireAcpNative` (`approvals-relay-service.ts:145`) only marks
  delivered a row that was resolved meanwhile, although its request was dropped.
* Leader lease. A campaign during a slow start chains a second transition; if
  the start then fails, the Lease is released and the chained transition starts
  the roles without one, beside the next holder (`leader-lease.ts:143`, against
  `:16`). A replica's first campaign waits for its roles before the renewals begin
  (`:244`, against `:12`), so a first start that outlasts the Lease goes on beside
  the next holder. The passing run therefore has no slow start that fails, and
  none longer than a tick. A role whose start and whose rollback both failed keeps
  the Lease while the backoff stops renewing it. A start that hangs blocks
  standing down; an API call that hangs never counts as failed.
* Schedules. RunsOnce fails when a one-time task is moved while its fire is
  active or late, or when a hold meets a failed ensure or an overlapping
  reconcile: the commit does not check the row (`scheduler-runner.ts:337`). For
  the same reason OutcomeIsTrue fails when a fire outlasts its window: it commits
  after the reconcile has called the task missed, and the row says so of an event
  that is then delivered. The one-time scenarios of the run are not moved.
  NoneSkipped names the ways past an armed occurrence, and they are the code's.
  An owner's edit or toggle arms the schedule from now and removes the pending
  jobs (`:594`), also for an edit of the text alone: an occurrence that is due
  and has not begun is then never run, and DueFires holds of it because it is no
  longer armed. A late fire arms from now too, and so stands for every occurrence
  that came due before it ended. After the recurrence was replaced, a fire still
  at work re-arms from the one it had read (`:573`, read at `:485`), over what the
  owner's sync armed, and its job, at a moment the schedule no longer has, can in
  turn pass over a due one; a reconcile that read the old recurrence does the
  same, or writes no next occurrence at all until its next round. DueFires holds
  through all of this: what is armed is handled, and its fire reads the new one.
  OnceResolves fails when the lifecycle listener fails: it is logged and never
  called again, and the task stays *delivering* (`event-lifecycle.ts:23`, against
  `docs/architecture/schedules.md:84`); only a recurring scenario loses a notice.
  A one-time task that comes due while its agent is disabled is recorded missed at
  once (`:413`), as `schedules.md:57` has it and contrary to `:96`, where it
  "waits out the enable inside its delivery window".
* Satellites. The open poll of a draining worker clears `draining`
  (`worker-ops.ts:92`). A crash between the claim of an outcome and its turn,
  or between a request's claim and its answer, leaves it claimed, which the hourly
  retry does not undo and the retention deletes untold (`agent-ops.ts:108`),
  contrary to `docs/architecture/satellites.md:166`: "never retired by the TTL".
  A server that dies within a revocation leaves the queued jobs of the agent to be dispatched. A wait may return an
  outcome a delivery announces too. A start under way inserts after the
  revocation stopped the dispatch. Two processes of one name can take each
  other's cancellations, which the documentation calls a case to avoid. A draining
  worker neither polls nor reconnects, so cancellations do not reach it. A machine
  busy with a swept job is sent a new one, which waits. `markSeen`,
  `releaseOutcomes` and `markWoken` name no registration, so an old request can
  mark the successor's job, and a delivery that outlived the removal can give it
  back after it was told; OneTurn fails then (TLC finds it with a removal, two
  deliveries and a failing write). The scenario with a removal has no waits and
  no failing write.

## 4. Fairness

*Delivery*: weak fairness of each worker slot (BullMQ runs its jobs), of the
sweep's tick with a definite answer (cron), of `BecomeReady` and `Boot` (the
controller restarts the machine and reports it), of hello (retried without end,
`compose.ts:428`) and of the runtime's own steps (promises are resolved).
Nothing is assumed of faults, edits, posted events or `LateBump`: a handler may
die before its bump.

*Approvals* and *Satellites*: weak fairness of `Goes`, the disjunction of what
goes on by itself (handlers, timers, frames, sweeps, retries, a worker's loop).
One disjunction is enough because a scenario runs out of steps. Nobody has to
call, decide, cancel or stop, and a tool that is not cancelled may run for ever.

*LeaderLease*: weak fairness of `Goes` and of `Boot`. Calls, stops and the exit
of a process take less than a tick, which the code's timeouts intend; a slow
start is a disturbance.

*Schedules*: weak fairness of the fires, the desks, the reconcile, the saga and
the delivery; strong fairness of `Tick`, since time passes though each moment
may find somebody at work.

Budgets make faults finite, which is the assumption that they stop in the end.

## 5. Proofs

Every result is for all values of the constants: any number of kinds, events,
calls, replicas, workers, moments, attempts and disturbances. The assumptions on
constants are named in the module that declares them and evaluated by TLC in
every run: null values lie outside the sets they are added to, bounds are
positive, kinds of ids are disjoint, budgets are naturals. Three say more.
`EventIdAssumption`: an event's id is its key and its fire time (`splitEventId`).
`CapAssumption`: capabilities name known kinds. `LeaseAssumption`: the Lease lasts
at least three ticks, since the period of the campaign is a third of it.

A theorem with a hypothesis on the initial state or the images says what the
code needs for the property; each such hypothesis was found by TLC, which breaks
the property without it, and is one of the disagreements of section 3.

| theorem | property | needs | invariant |
|---|---|---|---|
| CursorsAreOrdered, CursorsAreMonotone | CursorsOrdered, CursorsMonotone | | `IInv` |
| AppliedIsOnTheDisk | AppliedIsOnDisk | | `IInv` |
| GapIsRecorded | GapRecorded | | `IInv` |
| RefiresOnlyAfterALostRun | RefireOnlyAcrossCrash | | `EInv` |
| MutationsChargedInTurn | ChargedOnlyWhenTried | | `EInv` |
| NewerIsNeverUndone | OlderNeverAfterNewer | | `EInv` |
| NothingOvertakesAMutation | HeldBehindMutation | | `EInv` |
| HelloCatchesDrift | HelloLeavesNoDrift | | `EInv` |
| SettledIsOnRecord | | | `SettledOnRecord` |
| SettledStandsForWork | SettledMeansRan | every image binds every kind of event | `RecordsTrue` |
| DeliveryKeepsTheJournal | JournalKept | | `EInv`, `SettledOnRecord` |
| HeldCallsGranted, SettledForGoodHasRule | AllowIsGranted, PermanentHasRule | | `EgressSafe` |
| ReportedEndIsFinal | EndIsFinal | | `EndSafe` |
| DecidedStaysDecided | DecidedOnce | | both |
| RolesAllOrNone | AllOrNone | | `LeaseSafe` |
| LeaseReleasedWhenStopped | ReleasedWhenStopped | no slow start | `OrderKept` |
| OneServerAtATime | OneServer, its `Safety` | no slow start, no failing stop | `Elected` |
| NoBacklogAlways | NoBacklog | | `QueueKept` |
| CallsRunAtMostOnce | NeverRetried | | `QueueKept` |
| OutcomesStayWithTheirCall | OwnOutcome | | `QueueKept` |
| SettledForGood | SettledStays | | `QueueKept` |
| ToldOnce | OneTurn | the satellite is not removed | `Turns` |
| NothingPurgedUntold | UntoldIsKept | the same | `Turns` |
| RowTellsTheTruth | OutcomeIsTrue | the task is not moved and meets no limit, and no fire outlasts a moment | `Honest` |

The type theorems (TypeCorrect, ApprovalsType, LeaseType, SatellitesType,
SchedulesType) are stated next to their invariants.

**The proofs' layout.** Each module first says what the statements it builds on
leave of the tables, then what each action keeps of each part of the invariant,
then joins the actions; where there are many, they are first reduced to the few
kinds of step the invariant sees (`StepKinds` in delivery, `Handled`, `Desked`,
`Restores` and `Recorded` in schedules).

**Delivery: cursors and disk.** None of the four goals is inductive. `IInv` is
TypeOK, `HandlerActive` (a worker in a phase belongs to an active job) and
`Safe`, which adds: a live request is the one its worker sent, in one place
(`Linked`); versions under way are positive (`VersionsIssued`); a clean answer is
for the version sent (`AnswersHonest`); a stopped machine holds no request; how
far the apply in progress has come (`ApplyShape`); the recorded hash describes
the disk (`DiskTruth`); and the heart of it, what carries the desired version
carries the desired contents (`PayloadsCurrent`). The last one holds because the
row is read before the capabilities and the capabilities before the contents,
and every change of either comes with a bump: a payload that misses a change
carries a version that is no longer the desired one.

**Delivery: events.** `EInv` adds to `IInv` that a payload leaves out no waiting
workspace mutation older than what it carries (`PayloadsComplete`: the payload is
built from one read of all pending rows); that work done is on record, counted
as lost, or just being recorded (`RunsBooked`); that the loop has passed a
mutation only if it ran or expired (`LoopInOrder`); and that a hello reports a
version that was issued. Overtaking is then impossible wherever requests linger.
`SettledOnRecord` follows a settled directive from the loop into the answer and
from the answer into its row: in each place it is on the agent's record, or had
expired. `RecordsTrue` adds that a fire time on record belongs to work done; an
image without a handler records one without work, hence the hypothesis.

**Delivery: the journal.** `JournalStep` takes the actions one kind at a time.
Most leave the journal alone (`SameJournal`). Posting is `Post`: a
bump gives the new row a version above all others. Every other edit of a row
closes it (`Closes`: owed to ended, the rest as it was), but for the record of an
answer, which may write done, and `SettledOnRecord` says that rightly, even over a
row given up meanwhile (`RecordSettles`), and the report of a thrown handler, which
takes back a done that is not on record (`ThrowSettles`). `InvokeEvent` is `Run`: `RunsBooked` gives
that earlier work was lost, `PayloadsComplete` and `LoopInOrder` that nothing holds
it (`HeldAtInvocation`). A failing write of the record, or a stop before it, is
`Lose`, and a boot with another image `Rebind`, which needs that a stopped machine
runs nothing.

**Approvals.** `EgressSafe`: a hold waits on a row of its own shape
(`HoldsMatch`), and the verbs write the rule before they settle the row
(`RuleWritten`), so that whoever finds a granted row finds a rule or a verdict.
`EndSafe` follows a request's end through its report, which may overtake the
record.

**Leader lease.** `LeaseSafe` keeps a replica's books (`running`, `held`)
against the roles really at work in each phase of a transition. One server needs
more: in `OrderKept` a campaign begins only when what the last one chained is
done, which a slow start breaks; in `OneLeader` who leads has renewed recently
enough that the Lease cannot have expired for another, and gives up in time.
Failed calls, lost answers, crashes, shutdowns and failed starts are all in.

**Satellites.** `QueueKept`: numbers are given out once per registration; what
anybody outside the database says of a row is about the call in it if its
registration is the current one (`Mentions`), which is what the registration in
each statement is for; a call is handed over once (`RunsOnce`).
`Turns` is about the announcement: a delivery about to write has claimed the rows
of its turn, and none of them was told before (`TurnsClaimed`); at most one
delivery announces a call; an outcome still owed was not told; one no longer owed
was told, is being told, or was left claimed by a delivery or a request that died
(`ClaimedIsAccounted`), and a request that has claimed it is one of those telling
it until its answer; a request returns the outcome of its own row. Most steps
are `Calm`: they neither claim, give back nor write. Removal is excluded because
a claim is given back by its number alone (section 3).

**Schedules.** `Base` relates handlers and jobs. `Steady`, a step of the proof:
whoever arms a one-time task arms it for its own moment, so that the job's id,
which stays taken, stops a second fire. `Honest`: who is about to send has the window open
and nothing sent, who is about to call it missed knows nothing was sent.

**Only model-checked**: the liveness properties and `Served`, which are out of
the prover's reach; NoneSkipped of Schedules; RunsOnce, which says something of
a task with several moments only, where it needs more than the code guarantees
(section 3); OneTurn and UntoldIsKept in the one scenario with a
removal.

## 6. What is not modelled

*Delivery*: agent deletion (`deleteForAgent`, also while a worker holds the
row); more than one agent (rows, jobs
and machines of two agents share nothing); references in events that resolve to
nothing and malformed ids; snapshot merges, emitted hints and metrics; reads of
one build as separate statements, and the three statements of the second half of
hello; a store write kept in memory on a full disk (`document-store.ts:66`); a
sweep tick that fails half
way; the death of a home as a whole. Fire times of one key are assumed to grow,
which `session-defaults-publisher.ts:53` enforces for its kind and the clock for
the others. A hello call whose machine has stopped is dropped.

*Approvals*: questions about spend limits; the checks before the rules
(identity, platform hosts, dot segments); agent deletion; the age limit of stale
rows; the limit on proposals, counted before the insertion.

*Leader lease*: overlapping claims of one replica; a write that takes effect
after its process crashed; the periodic jobs, which need no leader.

*Schedules*: one schedule at a time; `runNow`, session resets, the machine's
precheck verdicts, the pruning of old rows, profile choices; a second stall of a
job; the expiry of recurring events; two requests of the owner writing over each
other's spec.

*Satellites*: file-transfer tokens; limits per tool; calls of old workers that
name no registration; the spill of logs; restarts of the worker's own MCP server;
agent deletion; a second poll the server still holds after a broken connection.
Reports on their way when a worker exits may still arrive.

The components `PROJECT.json` lists as not_modelled.

## 7. Plan

1. Done: the five parts, with the refinements of SingleServer and
   DirectiveJournal; the safety properties of the runs as theorems, but for
   NoneSkipped and RunsOnce.
2. Proofs: RunsOnce with holds, where the queue keeps a held task's moments
   apart; OneTurn through a removal while no delivery is under way.
3. An abstract specification of the contributions, beside the directives' one:
   a register the agent follows.
4. Invocations (outcome, reap, cascade); the prompt scheduler of the ACP relay;
   admission in the controller.
