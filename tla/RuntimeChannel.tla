--------------------------- MODULE RuntimeChannel ---------------------------
(***************************************************************************)
(* The agent-runtime side: the runtime-state file, the disk the drivers    *)
(* write, the serialized applyState handler of service.ts, the dispatcher  *)
(* and the event loop.  Every await inside the handler is a step boundary, *)
(* so the machine can stop between any two of them.                        *)
(***************************************************************************)
EXTENDS RuntimeOutbox

CONSTANTS
  NoApply,        \* no applyState is being processed
  NoEvent         \* no handler has returned without being recorded

VARIABLES
  up,        \* the agent-runtime process is alive
  bound,     \* the kinds the image's manifest binds and hello advertises
  local,     \* runtime-state: the applied version and hash
  runs,      \* runtime-state: eventRuns, the last fire time run per key
  disk,      \* what the drivers have written, per contribution kind
  net,       \* applyState requests on their way or queued behind `cur`
  cur,       \* the applyState being processed
  torn,      \* history: the disk was dispatched to and the record of it not
             \* written, the dispatch being under way, cut off or failed
  effects,   \* history: how often each event's handler has done its work
  lostRuns   \* history: how often an event's work was done and its run not
             \* recorded, by a stop or by a failing write

chanVars == <<up, bound, local, runs, disk, net, cur, torn, effects,
              lostRuns>>

Slots == {"plain", "boot"}

(* abandoned = 0 while the sender still waits; otherwise a distinct tag. *)
Requests == [slot : Slots, abandoned : Nat, version : Nat,
             snap : Snapshots, events : SUBSET Events]

Applies == [req     : Requests,
            mode    : {"stale", "dispatch", "skip"},
            phase   : {"drivers", "events"},
            todo    : SUBSET Kinds,              \* drivers still to invoke
            failed  : SUBSET Kinds,
            evtodo  : SUBSET Events,             \* events still to consider
            late    : SUBSET Events,             \* expired as the loop began
            running : Events \cup {NoEvent},
            settled : SUBSET Events]

ASSUME ChannelAssumption == NoApply \notin Applies /\ NoEvent \notin Events

ChanInit ==
  /\ up = FALSE
  /\ bound \in CapSets
  /\ local = [version |-> 0, hash |-> NoSnap]
  /\ runs = [k \in Keys |-> 0]
  /\ disk = [k \in Kinds |-> Empty]
  /\ net = {}
  /\ cur = NoApply
  /\ torn = FALSE
  /\ effects = [e \in Events |-> 0]
  /\ lostRuns = [e \in Events |-> 0]

---------------------------------------------------------------------------
(* apply: a payload older than the applied version runs its events only;  *)
(* an unchanged hash skips the dispatch.                                  *)
ReceiveApply(r, late) ==
  /\ up /\ cur = NoApply /\ r \in net
  /\ LET mode == IF r.version < local.version THEN "stale"
                 ELSE IF r.snap # local.hash THEN "dispatch" ELSE "skip"
     IN  /\ cur' = [req |-> r, mode |-> mode,
                    phase |-> IF mode = "dispatch" THEN "drivers" ELSE "events",
                    todo |-> IF mode = "dispatch" THEN bound \cap Kinds ELSE {},
                    failed |-> {}, evtodo |-> r.events, late |-> late,
                    running |-> NoEvent, settled |-> {}]
         /\ torn' = (torn \/ mode = "dispatch")
  /\ net' = net \ {r}
  /\ UNCHANGED <<up, bound, local, runs, disk, effects, lostRuns>>

(* dispatcher.apply: one bound kind's driver reconciles its slice. *)
RunDriver(k) ==
  /\ up /\ cur # NoApply /\ k \in cur.todo
  /\ disk' = [disk EXCEPT ![k] = cur.req.snap[k]]
  /\ cur' = [cur EXCEPT !.todo = @ \ {k}]
  /\ UNCHANGED <<up, bound, local, runs, net, torn, effects, lostRuns>>

(* dispatcher.apply: a driver throws, having written its slice or not;    *)
(* the other kinds still run.                                             *)
DriverFails(k) ==
  /\ up /\ cur # NoApply /\ k \in cur.todo
  /\ disk' \in {disk, [disk EXCEPT ![k] = cur.req.snap[k]]}
  /\ cur' = [cur EXCEPT !.todo = @ \ {k}, !.failed = @ \cup {k}]
  /\ UNCHANGED <<up, bound, local, runs, net, torn, effects, lostRuns>>

(* processEvents begins, sampling the clock once for the whole loop. *)
BeginEvents(late) ==
  /\ up /\ cur # NoApply /\ cur.phase = "drivers" /\ cur.todo = {}
  /\ cur' = [cur EXCEPT !.phase = "events", !.late = late]
  /\ UNCHANGED <<up, bound, local, runs, disk, net, torn, effects, lostRuns>>

AtEvent(e) ==
  /\ up /\ cur # NoApply /\ cur.phase = "events" /\ cur.running = NoEvent
  /\ e \in cur.evtodo

(* Mutants: the fire time compared strictly, or for equality only. *)
RunLater(e) == EvTs[e] < runs[EvKey[e]]
RunExactly(e) == EvTs[e] = runs[EvKey[e]]

AlreadyRun(e) == EvTs[e] <= runs[EvKey[e]]

SettleHere(e) == [cur EXCEPT !.evtodo = @ \ {e}, !.running = NoEvent,
                             !.settled = @ \cup {e}]

(* An event whose key already ran at its fire time or later, or that had  *)
(* expired, settles without running.                                      *)
SkipEvent(e) ==
  /\ AtEvent(e)
  /\ AlreadyRun(e) \/ e \in cur.late
  /\ cur' = SettleHere(e)
  /\ UNCHANGED <<up, bound, local, runs, disk, net, torn, effects, lostRuns>>

(* The handler does its work and returns; a kind without a handler        *)
(* returns at once, having done nothing.                                  *)
InvokeEvent(e) ==
  /\ AtEvent(e)
  /\ ~AlreadyRun(e) /\ e \notin cur.late
  /\ effects' = IF EvKind[e] \in bound
                THEN [effects EXCEPT ![e] = @ + 1] ELSE effects
  /\ cur' = [cur EXCEPT !.running = e]
  /\ UNCHANGED <<up, bound, local, runs, disk, net, torn, lostRuns>>

(* The run is written to the state store and the event settles. *)
RecordEvent(e) ==
  /\ up /\ cur # NoApply /\ cur.running = e
  /\ runs' = [runs EXCEPT ![EvKey[e]] = EvTs[e]]
  /\ cur' = SettleHere(e)
  /\ UNCHANGED <<up, bound, local, disk, net, torn, effects, lostRuns>>

(* Mutants: the loop goes on behind a failed mutation; a failed event is  *)
(* reported as settled.                                                   *)
FailEventGoesOn(e) ==
  /\ AtEvent(e)
  /\ ~AlreadyRun(e) /\ e \notin cur.late /\ EvKind[e] \in bound
  /\ cur' = [cur EXCEPT !.evtodo = @ \ {e}]
  /\ UNCHANGED <<up, bound, local, runs, disk, net, torn, effects, lostRuns>>

FailEventSettles(e) ==
  /\ AtEvent(e)
  /\ ~AlreadyRun(e) /\ e \notin cur.late /\ EvKind[e] \in bound
  /\ cur' = SettleHere(e)
  /\ UNCHANGED <<up, bound, local, runs, disk, net, torn, effects, lostRuns>>

(* The handler throws: a workspace mutation holds the events behind it,   *)
(* any other kind lets the loop go on.                                    *)
FailEvent(e) ==
  /\ AtEvent(e)
  /\ ~AlreadyRun(e) /\ e \notin cur.late /\ EvKind[e] \in bound
  /\ cur' = [cur EXCEPT !.evtodo = IF IsWorkspaceMutation(e) THEN {}
                                   ELSE @ \ {e}]
  /\ UNCHANGED <<up, bound, local, runs, disk, net, torn, effects, lostRuns>>

(* The handler has returned and the write of its run throws: the loop     *)
(* takes it for a failure of the event.                                   *)
FailRecord(e) ==
  /\ up /\ cur # NoApply /\ cur.running = e
  /\ cur' = [cur EXCEPT !.running = NoEvent,
                        !.evtodo = IF IsWorkspaceMutation(e) THEN {}
                                   ELSE @ \ {e}]
  /\ lostRuns' = IF EvKind[e] \in bound
                 THEN [lostRuns EXCEPT ![e] = @ + 1] ELSE lostRuns
  /\ UNCHANGED <<up, bound, local, runs, disk, net, torn, effects>>

ReportsFailure(e) == EvKind[e] \in {"workspace", "harness-config"}

ReadyToAnswer ==
  /\ up /\ cur # NoApply /\ cur.phase = "events"
  /\ cur.evtodo = {} /\ cur.running = NoEvent

(* Mutant: a stale reply passes on the version the agent is at. *)
AnswerOwnVersion ==
  [version  |-> IF cur.failed = {} /\ cur.mode # "stale"
                THEN cur.req.version ELSE local.version,
   hash     |-> IF cur.failed = {} THEN cur.req.snap ELSE local.hash,
   failures |-> cur.failed,
   events   |-> cur.settled]

(* The reply, already in the form the worker hands to recordOutcome: a    *)
(* stale answer settles the version that was sent.                        *)
Answer ==
  [version  |-> IF cur.failed = {} THEN cur.req.version ELSE local.version,
   hash     |-> IF cur.failed = {} THEN cur.req.snap ELSE local.hash,
   failures |-> cur.failed,
   events   |-> cur.settled]

(* The handler ends: only a payload without driver failures moves the     *)
(* recorded version and hash.                                             *)
FinishApply ==
  /\ ReadyToAnswer
  /\ local' = IF cur.mode = "stale" \/ cur.failed # {} THEN local
              ELSE [version |-> cur.req.version, hash |-> cur.req.snap]
  /\ torn' = (torn /\ ~(cur.mode = "dispatch" /\ cur.failed = {}))
  /\ cur' = NoApply
  /\ UNCHANGED <<up, bound, runs, disk, net, effects, lostRuns>>

(* The handler throws outside the drivers and the events: in the hook     *)
(* after the dispatch, reading the harness configuration, or writing the  *)
(* state store.  Nothing is recorded.                                     *)
AbortApply ==
  /\ up /\ cur # NoApply
  /\ cur.todo = {} /\ cur.running = NoEvent
  /\ cur.evtodo = cur.req.events \/ cur.evtodo = {}
  /\ cur' = NoApply
  /\ UNCHANGED <<up, bound, local, runs, disk, net, torn, effects, lostRuns>>

---------------------------------------------------------------------------
(* The machine stops: hibernation or a crash.  Requests die with it. *)
StopMachine ==
  /\ up
  /\ up' = FALSE /\ net' = {} /\ cur' = NoApply
  /\ lostRuns' = [e \in Events |->
       IF cur # NoApply /\ cur.running = e /\ EvKind[e] \in bound
       THEN lostRuns[e] + 1 ELSE lostRuns[e]]
  /\ UNCHANGED <<bound, local, runs, disk, torn, effects>>

(* bindingsFingerprint, over the contribution drivers only. *)
Rebound(b) == b \cap Kinds # bound \cap Kinds

(* Mutant: a home that lost its env file keeps its record. *)
BootTrustingRecord(b, envMissing) ==
  /\ ~up
  /\ up' = TRUE /\ bound' = b
  /\ local' = IF local.version # 0 /\ Rebound(b)
              THEN [version |-> 0, hash |-> NoSnap] ELSE local
  /\ disk' \in IF Rebound(b) \/ envMissing
               THEN {disk, [k \in Kinds |-> Empty]} ELSE {disk}
  /\ UNCHANGED <<runs, net, cur, torn, effects, lostRuns>>

(* createStateStore on boot: other bindings, or a home whose env file is  *)
(* missing or stale, make the runtime forget what it applied (never the   *)
(* event runs).  A driver of the same kind bound elsewhere has the effect *)
(* of a missing env file.                                                 *)
BootMachine(b, envMissing) ==
  /\ ~up
  /\ up' = TRUE /\ bound' = b
  /\ LET forget == local.version # 0 /\ (Rebound(b) \/ envMissing)
     IN  /\ local' = IF forget THEN [version |-> 0, hash |-> NoSnap]
                     ELSE local
         /\ disk' \in IF forget THEN {disk, [k \in Kinds |-> Empty]}
                      ELSE {disk}
  /\ UNCHANGED <<runs, net, cur, torn, effects, lostRuns>>
=============================================================================
