---------------------------- MODULE SatelliteJobs ---------------------------
(***************************************************************************)
(* One satellite of one owner, as the database knows it: its registration  *)
(* and its jobs, and the statements of satellites-repository.ts on them.   *)
(* A name that is removed and registered again is another registration,    *)
(* whose sequence starts over.                                             *)
(*                                                                         *)
(* Clocks: a lease, a wait lease, the stamp of a sent cancellation and the *)
(* retention of a row are fresh until a step of time makes them old.       *)
(***************************************************************************)
EXTENDS Naturals, FiniteSets

CONSTANTS
  MaxSeq,         \* jobs of one registration
  MaxCalls,       \* calls admitted in all
  Limit,          \* max_concurrent of the satellite
  Workers,        \* worker processes, each started at most once
  Agents,         \* tool calls of the agent that can be open at once
  Owners,         \* requests of the owner that can be open at once
  Deliveries,     \* outcome deliveries that can be under way at once
  Scenarios       \* what takes part, and the disturbances it meets

ASSUME BoundsAssumption ==
  /\ MaxSeq \in Nat \ {0} /\ MaxCalls \in Nat \ {0} /\ Limit \in Nat \ {0}
  /\ Agents \cap Owners = {}

Seqs == 1 .. MaxSeq
Calls == 1 .. MaxCalls
NoCall == 0
NoReg == 0

(* "call": the agent calls a tool; "again": it waits for or reads a job    *)
(* later; "cancel": somebody cancels one; "net": a call or its answer is   *)
(* lost; "kill": a worker dies; "stop": one is interrupted; "late": a      *)
(* renewal is late; "hour": the retry meets a delivery under way; "week":  *)
(* the retention of a settled job ends; "die": a server process dies in a  *)
(* handler; "fail": the outcome's turn is not written or the agent does    *)
(* not wake; "remove", "revoke" and "grant": the owner's.                  *)
Disturbances == {"call", "again", "cancel", "net", "kill", "stop", "second", "late",
                 "hour", "week", "die", "fail", "remove", "revoke", "grant"}

ASSUME ScenariosAssumption ==
  \A s \in Scenarios : s.faults \in [Disturbances -> Nat]

VARIABLES
  sat,        \* the satellite's row and the agent's grant
  regs,       \* registrations made so far
  jobs,       \* the job rows by sequence
  deliver,    \* the outcome deliveries under way
  hist,       \* what really happened to each call (history)
  scene, left \* who takes part, and the disturbances still to come

Statuses == {"absent", "queued", "running", "done", "interrupted", "cancelled"}

Job == [status : Statuses,
        call : Calls \cup {NoCall},     \* history: which call the row is for
        of : Calls \cup {NoCall},       \* history: whose result it records
        unstarted : BOOLEAN,            \* settled as never started
        lease : {"none", "live", "lapsed"},
        cancel : BOOLEAN, sent : {"no", "fresh", "old"},
        awaited : {"no", "live", "lapsed"},
        delivered : BOOLEAN, woke : BOOLEAN,
        expired : BOOLEAN]

NoJob == [status |-> "absent", call |-> NoCall, of |-> NoCall,
          unstarted |-> FALSE, lease |-> "none", cancel |-> FALSE,
          sent |-> "no", awaited |-> "no", delivered |-> FALSE,
          woke |-> FALSE, expired |-> FALSE]

NoSatellite == [reg |-> NoReg, next |-> 1, draining |-> FALSE,
                online |-> FALSE, granted |-> FALSE]

Present(js) == {j \in Seqs : js[j].status # "absent"}
InStatus(js, st) == {j \in Seqs : js[j].status = st}
NonTerminal(js) == InStatus(js, "queued") \cup InStatus(js, "running")
Terminal(js) == Present(js) \ NonTerminal(js)

Room(js) == Cardinality(NonTerminal(js)) < Limit

SameRegistration(inc) == sat.reg = inc

Spend(d) == left[d] > 0 /\ left' = [left EXCEPT ![d] = @ - 1]

---------------------------------------------------------------------------
(* The statements, as functions of the rows *)

Oldest(S, n) == {j \in S : Cardinality({i \in S : i < j}) < n}

Updated(js, S, Row(_)) == [j \in Seqs |-> IF j \in S THEN Row(js[j]) ELSE js[j]]

Inserted(js, seq, call) ==
  [js EXCEPT ![seq] = [NoJob EXCEPT !.status = "queued", !.call = call]]

(* Mutant: a job whose worker fell silent is handed out again *)
ClaimableAgain(js, capacity) ==
  Oldest(InStatus(js, "queued")
           \cup {j \in InStatus(js, "running") : js[j].lease = "lapsed"}, capacity)

Claimable(js, capacity) == Oldest(InStatus(js, "queued"), capacity)

Claimed(js, S) ==
  LET Row(r) == [r EXCEPT !.status = "running", !.lease = "live"]
  IN  Updated(js, S, Row)

(* Mutant: a cancellation is handed over once *)
CancellationsOnce(js) ==
  {j \in InStatus(js, "running") : js[j].cancel /\ js[j].sent = "no"}

Cancellations(js) ==
  {j \in InStatus(js, "running") : js[j].cancel /\ js[j].sent # "fresh"}

CancelSent(js, S) ==
  LET Row(r) == [r EXCEPT !.sent = "fresh"] IN Updated(js, S, Row)

(* Mutant: whatever state the row is in *)
SettleableAny(js, S, expect) == S \cap Present(js)

(* settle: the rows of S that are in the status expected.  A result says   *)
(* which call it is the result of.                                         *)
Settleable(js, S, expect) == S \cap InStatus(js, expect)

Settled(js, S, status, of) ==
  LET Row(r) == [r EXCEPT !.status = status, !.lease = "none", !.of = of]
  IN  Updated(js, S, Row)

Unstarted(js, S) ==
  LET Row(r) == [r EXCEPT !.status = "cancelled", !.lease = "none",
                          !.unstarted = TRUE]
  IN  Updated(js, S, Row)

(* stopDispatch: what has not reached a machine is settled, for a time     *)
(* that starts now.                                                        *)
Stoppable(js) == InStatus(js, "queued")

Stopped(js, S) ==
  LET Row(r) == [r EXCEPT !.expired = FALSE]
  IN  Updated(Unstarted(js, S), S, Row)

MarkedAwaited(js, j) ==
  IF js[j].status # "absent" /\ ~js[j].delivered
  THEN [js EXCEPT ![j].awaited = "live"] ELSE js

MarkedSeen(js, j) == [js EXCEPT ![j].delivered = TRUE, ![j].woke = TRUE]

(* Mutant: a wait that ended withholds the outcome for good *)
NeverAwaited(js) == {j \in Terminal(js) : ~js[j].delivered /\ js[j].awaited = "no"}

Undelivered(js) ==
  {j \in Terminal(js) : ~js[j].delivered /\ js[j].awaited # "live"}

(* Mutant: the choice is not looked at again *)
StillPresent(js, S) == S \cap Present(js)

(* The update behind the choice: what was delivered meanwhile is not taken *)
(* again.                                                                  *)
StillUndelivered(js, S) == {j \in S \cap Present(js) : ~js[j].delivered}

Delivered(js, S, flag) ==
  LET Row(r) == [r EXCEPT !.delivered = flag] IN Updated(js, S \cap Present(js), Row)

Unwoken(js) == {j \in Terminal(js) : js[j].delivered /\ ~js[j].woke}

Woken(js, S) ==
  LET Row(r) == [r EXCEPT !.woke = TRUE] IN Updated(js, S \cap Present(js), Row)

(* Mutant: by age alone *)
PurgeableByAge(js) == {j \in Terminal(js) : js[j].expired}

Purgeable(js) ==
  {j \in Present(js) : /\ js[j].expired /\ js[j].status # "running"
                       /\ js[j].delivered /\ js[j].woke}

---------------------------------------------------------------------------
(* deliverOutcome: whoever settles a job starts a delivery for its agent. *)

Deliver == [phase : {"idle", "select", "claim", "write", "wake"},
            retry : BOOLEAN,           \* the hourly retry, or a settlement's
            seqs : SUBSET Seqs,        \* the rows chosen, then claimed
            told : SUBSET (Seqs \X Calls)]   \* what the turn is about

NoDelivery == [phase |-> "idle", retry |-> FALSE, seqs |-> {}, told |-> {}]

Begins(d, retry) ==
  /\ d \in scene /\ deliver[d].phase = "idle"
  /\ deliver' = [deliver EXCEPT ![d] = [NoDelivery EXCEPT !.phase = "select",
                                                          !.retry = retry]]

DeliverOutcome == \E d \in Deliveries : Begins(d, FALSE)

(* A statement that settled no row announces nothing. *)
AnnounceIf(any) == IF any THEN DeliverOutcome ELSE UNCHANGED deliver
=============================================================================
