--------------------------- MODULE RuntimeOutbox ---------------------------
(***************************************************************************)
(* The Postgres side of runtime delivery for one agent: the row of         *)
(* runtime_state_outbox, the rows of runtime_events and the statements of  *)
(* outbox-repo.ts over them.  Each statement (or transaction) is one       *)
(* operator from the old row to the new one.                               *)
(*                                                                         *)
(* Data abstraction.  The contributions of one kind are one value, Empty   *)
(* when there is none; a snapshot gives every kind its value; the hash of  *)
(* a snapshot is the snapshot itself.                                      *)
(***************************************************************************)
EXTENDS Naturals

CONSTANTS
  Kinds,          \* contribution kinds an agent's disk can hold
  Values,         \* contents of one kind
  Empty,          \* the content of a kind without contributions
  NoSnap,         \* a null hash
  NoCaps,         \* runtime_capabilities before the first hello
  Events,         \* the events that can be posted, one per event id
  EvKey,          \* [Events -> key]: the event id up to its last colon
  EvTs,           \* [Events -> Nat]: the fire time after the last colon
  EvKind,         \* [Events -> EventKinds]
  CapSets,        \* the sets of kinds that an image can advertise
  MaxAttempts     \* MAX_APPLY_ATTEMPTS

(* The event kinds the delivery code tells apart; "message" stands for    *)
(* every kind without a rule of its own.                                  *)
EventKinds == {"workspace", "harness-config", "session-defaults", "message"}

(* workspaceMutationEventKinds *)
IsWorkspaceMutation(e) == EvKind[e] = "workspace"

Keys == {EvKey[e] : e \in Events}

Snapshots == [Kinds -> Values]

ASSUME ContentAssumption ==
  /\ Empty \in Values
  /\ NoSnap \notin Snapshots
  /\ NoCaps \notin CapSets

ASSUME EventAssumption ==
  /\ EvTs \in [Events -> Nat \ {0}]
  /\ EvKind \in [Events -> EventKinds]

(* An event's id is its key and its fire time (splitEventId), and rows    *)
(* are unique by id.                                                      *)
ASSUME EventIdAssumption ==
  \A e, f \in Events : EvKey[e] = EvKey[f] /\ EvTs[e] = EvTs[f] => e = f

ASSUME CapAssumption == CapSets \subseteq SUBSET (Kinds \cup EventKinds)

ASSUME AttemptsAssumption == MaxAttempts \in Nat \ {0}

---------------------------------------------------------------------------
(* runtime_state_outbox: version 0 stands for the absent row.             *)

Rows == [version  : Nat,            \* the desired version
         settled  : Nat,            \* last_settled_version
         applied  : Nat,            \* last_applied_version
         hash     : Snapshots \cup {NoSnap},
         failures : SUBSET Kinds,   \* apply_failures
         attempts : Nat,            \* apply_attempts
         dropped  : SUBSET Kinds]   \* dropped_contribution_kinds

NoRow == [version |-> 0, settled |-> 0, applied |-> 0, hash |-> NoSnap,
          failures |-> {}, attempts |-> 0, dropped |-> {}]

BumpVersion(r, resetContributionErrors) ==
  [r EXCEPT !.version = @ + 1,
            !.attempts = IF resetContributionErrors THEN 0 ELSE @,
            !.failures = IF resetContributionErrors THEN {} ELSE @]

(* What a delivery reports: the agent's cursor and hash, the kinds whose  *)
(* driver failed, the settled events, the events it attempted, and the    *)
(* kinds the capability filter dropped.                                   *)
Clean(res) == res.failures = {} /\ res.hash # NoSnap

(* Mutant: an answer overtaken by a newer one is recorded all the same. *)
RecordRowUnguarded(r, settledVersion, res) ==
  IF r.version = 0 THEN r
  ELSE IF Clean(res)
    THEN [r EXCEPT !.settled = settledVersion, !.applied = res.version,
                   !.hash = res.hash, !.failures = {}, !.attempts = 0,
                   !.dropped = res.dropped]
    ELSE [r EXCEPT !.settled = settledVersion, !.failures = res.failures,
                   !.attempts = @ + 1, !.dropped = res.dropped]

(* recordOutcome, the outbox row: an answer for a version older than the  *)
(* last answered one changes nothing.                                     *)
RecordRow(r, settledVersion, res) ==
  IF r.version = 0 \/ r.settled > settledVersion THEN r
  ELSE IF Clean(res)
    THEN [r EXCEPT !.settled = settledVersion, !.applied = res.version,
                   !.hash = res.hash, !.failures = {}, !.attempts = 0,
                   !.dropped = res.dropped]
    ELSE [r EXCEPT !.settled = settledVersion, !.failures = res.failures,
                   !.attempts = @ + 1, !.dropped = res.dropped]

(* progressOf *)
IsSettled(r) == r.settled >= r.version
IsApplied(r) == r.applied >= r.version

---------------------------------------------------------------------------
(* runtime_events *)

EventRows == [st       : {"absent", "pending", "dispatched", "deleted"},
              version  : Nat,
              attempts : Nat,
              error    : {"none", "reported", "gave up", "undeliverable",
                          "superseded"},
              reported : BOOLEAN,
              expired  : BOOLEAN]   \* expires_at has passed

NoEventRow == [st |-> "absent", version |-> 0, attempts |-> 0,
               error |-> "none", reported |-> FALSE, expired |-> FALSE]

Undispatched(ev) == {e \in Events : ev[e].st = "pending"}

PendingEvents(ev) == {e \in Undispatched(ev) : ~ev[e].expired}

InsertEvent(ev, e, version) ==
  [ev EXCEPT ![e] = [NoEventRow EXCEPT !.st = "pending",
                                       !.version = version]]

(* Stamps a set of rows dispatched with an error. *)
StampWithError(ev, S, error) ==
  [e \in Events |-> IF e \in S
     THEN [ev[e] EXCEPT !.st = "dispatched", !.error = error] ELSE ev[e]]

SupersedePending(ev, kind) ==
  StampWithError(ev, {e \in Undispatched(ev) : EvKind[e] = kind},
                 "superseded")

(* Mutant: events the runtime cannot take just stay. *)
LeaveUndeliverable(ev, kinds) == ev

MarkEventsUndeliverable(ev, kinds) ==
  StampWithError(ev, {e \in Undispatched(ev) : EvKind[e] \in kinds},
                 "undeliverable")

ClaimEventReport(ev, e) ==
  IF ev[e].st \in {"pending", "dispatched"} /\ ~ev[e].reported
  THEN [ev EXCEPT ![e].error = "reported", ![e].reported = TRUE] ELSE ev

DeleteExpiredEvents(ev) ==
  [e \in Events |-> IF ev[e].st = "pending" /\ ev[e].expired
                    THEN [ev[e] EXCEPT !.st = "deleted"] ELSE ev[e]]

(* recordOutcome, one event the agent settled: stamped if it was not, and *)
(* a workspace mutation loses its error.                                  *)
SettleEvent(row, e) ==
  IF row.st \notin {"pending", "dispatched"} THEN row
  ELSE [row EXCEPT !.st = "dispatched",
                   !.error = IF IsWorkspaceMutation(e) THEN "none" ELSE @]

(* recordOutcome, one attempted event the agent did not settle: only a    *)
(* workspace mutation is charged, and the budget's last attempt stamps it.*)
ChargeEvent(row, e) ==
  IF ~IsWorkspaceMutation(e) \/ row.st # "pending" THEN row
  ELSE LET charged == [row EXCEPT !.attempts = @ + 1]
       IN  IF charged.attempts >= MaxAttempts
           THEN [charged EXCEPT !.st = "dispatched", !.error = "gave up"]
           ELSE charged

RecordEvents(ev, r, res) ==
  IF r.version = 0 THEN ev
  ELSE [e \in Events |->
          IF e \in res.events THEN SettleEvent(ev[e], e)
          ELSE IF e \in res.attempted THEN ChargeEvent(ev[e], e)
          ELSE ev[e]]

(* Mutant: only failures and events are retried. *)
ListFailed(r, ev) ==
  /\ r.version > 0
  /\ \/ r.failures # {} /\ r.attempts < MaxAttempts
     \/ PendingEvents(ev) # {}

ListRetryable(r, ev) ==
  /\ r.version > 0
  /\ \/ r.settled < r.version
     \/ r.failures # {} /\ r.attempts < MaxAttempts
     \/ PendingEvents(ev) # {}

(* preparingWorkspaceAgentIds: chat waits while this holds. *)
PreparingWorkspace(ev) == \E e \in PendingEvents(ev) : IsWorkspaceMutation(e)
=============================================================================
