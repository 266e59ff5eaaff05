-------------------------- MODULE DirectiveJournal --------------------------
(***************************************************************************)
(* What runtime delivery promises of the directives posted to an agent,    *)
(* with no outbox, queue, worker, request or answer in sight: a journal of *)
(* what was posted and what became of it, and an agent that does the work. *)
(* A run is worked once unless its record is lost, the runs of one key go  *)
(* forward in time, nothing overtakes a directive that holds what is       *)
(* behind it, and "done" is written of what is on the agent's record.      *)
(***************************************************************************)
EXTENDS Naturals

CONSTANTS
  Directives,
  Key,            \* [Directives -> key]: what a newer directive replaces
  Ts,             \* [Directives -> Nat]: the fire time within the key
  Holding,        \* the directives that hold back what is posted after them
  None            \* no directive is being run

VARIABLES
  st,        \* "absent", "owed", "done", or "ended" in any other way
  order,     \* the place in the order of posting
  expired,   \* the directives whose time has passed
  record,    \* per key, the fire time of the last run on the agent's record
  able,      \* the directives the agent's image has a handler for
  running,   \* the directive run and not yet put on record
  work,      \* how often each has been worked
  lost       \* how often its work was left out of the record

vars == <<st, order, expired, record, able, running, work, lost>>

OnRecord(d) == Ts[d] <= record[Key[d]]

Init ==
  /\ st = [d \in Directives |-> "absent"]
  /\ order = [d \in Directives |-> 0]
  /\ expired = {}
  /\ record = [k \in {Key[d] : d \in Directives} |-> 0]
  /\ able \in SUBSET Directives
  /\ running = None
  /\ work = [d \in Directives |-> 0]
  /\ lost = [d \in Directives |-> 0]

(* A directive is posted behind all others and may replace what is owed. *)
Post(d) ==
  /\ st[d] = "absent" /\ st'[d] = "owed"
  /\ \A f \in Directives \ {d} :
       st'[f] = st[f] \/ (st[f] = "owed" /\ st'[f] = "ended")
  /\ \A f \in Directives : /\ order[f] < order'[d]
                           /\ f # d => order'[f] = order[f]
                           /\ Key[f] = Key[d] /\ Ts[f] < Ts[d] => st[f] # "absent"
  /\ UNCHANGED <<expired, record, able, running, work, lost>>

Expire(d) ==
  /\ st[d] = "owed"
  /\ expired' = expired \cup {d}
  /\ UNCHANGED <<st, order, record, able, running, work, lost>>

(* The books are brought up to date.  Done is what is on record, or was   *)
(* passed over because its time had passed; what is on record and done    *)
(* stays done; nothing that was closed is owed again.                     *)
Settle ==
  /\ \A d \in Directives :
       \/ st'[d] = st[d]
       \/ /\ st[d] \in {"owed", "ended"} /\ st'[d] = "done"
          /\ OnRecord(d) \/ d \in expired
       \/ st[d] = "owed" /\ st'[d] = "ended"
       \/ st[d] = "done" /\ st'[d] = "ended" /\ ~OnRecord(d)
  /\ UNCHANGED <<order, expired, record, able, running, work, lost>>

(* The agent runs a directive that is not on record, nor a newer one of   *)
(* its key, when no earlier one holds it; whatever it worked of it before *)
(* was lost.                                                              *)
Run(d) ==
  /\ running = None /\ running' = d
  /\ st[d] # "absent" /\ ~OnRecord(d) /\ work[d] = lost[d]
  /\ \A h \in Holding : order[h] < order[d] =>
       st[h] # "owed" \/ h \in expired \/ OnRecord(h)
  /\ work' = IF d \in able THEN [work EXCEPT ![d] = @ + 1] ELSE work
  /\ UNCHANGED <<st, order, expired, record, able, lost>>

PutOnRecord(d) ==
  /\ running = d /\ running' = None
  /\ record' = [record EXCEPT ![Key[d]] = Ts[d]]
  /\ UNCHANGED <<st, order, expired, able, work, lost>>

(* The record is not written, and the run may be reported as failed. *)
Lose(d) ==
  /\ running = d /\ running' = None
  /\ lost' = IF d \in able THEN [lost EXCEPT ![d] = @ + 1] ELSE lost
  /\ st' = st \/ (st[d] = "done" /\ st' = [st EXCEPT ![d] = "ended"])
  /\ UNCHANGED <<order, expired, record, able, work>>

(* The agent is restarted with another image. *)
Rebind ==
  /\ running = None
  /\ able' \in SUBSET Directives
  /\ UNCHANGED <<st, order, expired, record, running, work, lost>>

Next ==
  \/ \E d \in Directives :
       Post(d) \/ Expire(d) \/ Run(d) \/ PutOnRecord(d) \/ Lose(d)
  \/ Settle
  \/ Rebind

Spec == Init /\ [][Next]_vars
=============================================================================
