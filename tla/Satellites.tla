----------------------------- MODULE Satellites -----------------------------
(***************************************************************************)
(* Satellites end to end: the machine's side and the agent's and owner's   *)
(* side over one set of rows, with the sweep that settles what nobody      *)
(* looks after any more, and time.                                         *)
(***************************************************************************)
EXTENDS SatelliteWorker, SatelliteAgents

vars == <<sat, regs, jobs, deliver, hist, scene, left, workerVars, agentVars>>

NoHistory == [calls |-> 0, ran |-> [n \in Calls |-> 0],
              turns |-> [n \in Calls |-> 0], seen |-> {}, orphaned |-> {}]

(* A machine serves the name and the owner has granted it to the agent. *)
Init ==
  /\ sat = [NoSatellite EXCEPT !.reg = 1, !.granted = TRUE, !.online = TRUE]
  /\ regs = 1
  /\ jobs = [j \in Seqs |-> NoJob]
  /\ deliver = [d \in Deliveries |-> NoDelivery]
  /\ hist = NoHistory
  /\ \E s \in Scenarios : scene = s.scene /\ left = s.faults
  /\ WorkerInit
  /\ AgentInit

---------------------------------------------------------------------------
(* The lease sweep, once a minute: three statements, the first two with a  *)
(* delivery for what they settle.                                          *)

StaleQueued == {j \in Stoppable(jobs) : jobs[j].expired}

SweepUnstarted ==
  /\ StaleQueued # {}
  /\ jobs' = Stopped(jobs, StaleQueued)
  /\ DeliverOutcome
  /\ UNCHANGED <<sat, regs, hist, left, workerVars, agentVars>>

(* Mutant: nobody looks for lost workers *)
NoLeaseSweep == {}

(* The settlement looks at the lease again, so a heartbeat since the list  *)
(* was read saves the job.                                                 *)
ExpiredLeases == {j \in InStatus(jobs, "running") : jobs[j].lease = "lapsed"}

SweepLease(j) ==
  /\ j \in ExpiredLeases
  /\ jobs' = Settled(jobs, {j}, "interrupted", NoCall)
  /\ DeliverOutcome
  /\ UNCHANGED <<sat, regs, hist, left, workerVars, agentVars>>

PurgeExpired ==
  /\ Purgeable(jobs) # {}
  /\ jobs' = [j \in Seqs |-> IF j \in Purgeable(jobs) THEN NoJob ELSE jobs[j]]
  /\ UNCHANGED <<sat, regs, deliver, hist, left, workerVars, agentVars>>

---------------------------------------------------------------------------
(* Time *)

RowAges(j, row) ==
  /\ jobs' = [jobs EXCEPT ![j] = row]
  /\ UNCHANGED <<sat, regs, deliver, hist, workerVars, agentVars>>

(* A lease lapses a minute after the last heartbeat. *)
LeaseLapses(j) ==
  /\ jobs[j].lease = "live"
  /\ Renewed(j) => left["late"] > 0
  /\ left' = IF Renewed(j) THEN [left EXCEPT !["late"] = @ - 1] ELSE left
  /\ RowAges(j, [jobs[j] EXCEPT !.lease = "lapsed"])

Awaiting(j) ==
  \E o \in Agents : op[o].seq = j /\ op[o].waits /\ op[o].phase # "idle"

AwaitLapses(j) ==
  /\ jobs[j].awaited = "live"
  /\ Awaiting(j) => left["late"] > 0
  /\ left' = IF Awaiting(j) THEN [left EXCEPT !["late"] = @ - 1] ELSE left
  /\ RowAges(j, [jobs[j] EXCEPT !.awaited = "lapsed"])

(* A cancellation is sent again to a worker that runs the job and did not  *)
(* act on it for the length of a lease.                                    *)
CancelAges(j) ==
  /\ jobs[j].sent = "fresh" /\ Renewed(j)
  /\ \A w \in Workers : j \notin worker[w].asked
  /\ \A w \in Workers, k \in Polls : j \notin claim[w][k].cancels
  /\ UNCHANGED left
  /\ RowAges(j, [jobs[j] EXCEPT !.sent = "old"])

(* A week is longer than any request or delivery takes, and than a worker  *)
(* with capacity left leaves a job waiting.  One whose every slot is taken *)
(* by tools that do not end, as after a sweep of what it still runs, may   *)
(* leave it that long.                                                     *)
JobExpires(j) ==
  /\ jobs[j].status \notin {"absent", "running"} /\ ~jobs[j].expired
  /\ \A o \in Agents \cup Owners : op[o].seq # j
  /\ \A d \in Deliveries : deliver[d].phase = "idle"
  /\ jobs[j].status = "queued" =>
       \A w \in Workers : /\ claim[w]["work"].phase = "none"
                          /\ Serving(w) /\ SameRegistration(worker[w].inc)
                               => Capacity(w) = 0
  /\ IF jobs[j].status = "queued" THEN UNCHANGED left ELSE Spend("week")
  /\ RowAges(j, [jobs[j] EXCEPT !.expired = TRUE])

GoesOffline ==
  /\ sat.online
  /\ \A w \in Workers :
       SameRegistration(worker[w].inc) =>
         /\ ~(Alive(w) /\ worker[w].connected)
         /\ \A k \in Polls : claim[w][k].phase # "open"
  /\ sat' = [sat EXCEPT !.online = FALSE]
  /\ UNCHANGED <<regs, jobs, deliver, hist, left, workerVars, agentVars>>

ServerGoes ==
  \/ SweepUnstarted \/ PurgeExpired \/ GoesOffline
  \/ \E j \in Seqs : \/ SweepLease(j) \/ LeaseLapses(j) \/ AwaitLapses(j)
                     \/ CancelAges(j) \/ JobExpires(j)

---------------------------------------------------------------------------
Next ==
  \/ WorkerNext /\ UNCHANGED <<scene, agentVars>>
  \/ AgentNext /\ UNCHANGED <<scene, workerVars>>
  \/ ServerGoes /\ UNCHANGED scene

(* Handlers, timers, sweeps, retries and the loop of a worker go on by     *)
(* themselves.  Nobody has to call, cancel or stop anything, and a tool    *)
(* that is not cancelled may run for ever.                                 *)
Goes ==
  \/ WorkerGoes /\ UNCHANGED <<scene, agentVars>>
  \/ AgentGoes /\ UNCHANGED <<scene, workerVars>>
  \/ ServerGoes /\ UNCHANGED scene

Spec == Init /\ [][Next]_vars

(* Every behaviour of a scenario runs out of steps, so it is enough that   *)
(* some step that can be taken is taken.                                   *)
FairSpec == Spec /\ WF_vars(Goes)

---------------------------------------------------------------------------
(* Rows, polls, reports and deliveries keep their shape, and a worker      *)
(* keeps no more unsent reports than it has room for.                      *)
TypeOK ==
  /\ sat \in [reg : 0 .. regs, next : 1 .. MaxSeq + 1, draining : BOOLEAN,
              online : BOOLEAN, granted : BOOLEAN]
  /\ regs \in Nat
  /\ jobs \in [Seqs -> Job]
  /\ deliver \in [Deliveries -> Deliver]
  /\ left \in [Disturbances -> Nat]
  /\ claim \in [Workers -> [Polls -> Claim]]
  /\ reports \subseteq Report
  /\ drains \subseteq Workers
  /\ op \in [Agents \cup Owners -> Op]
  /\ removing \in {"no", "yes"} \cup Deliveries
  /\ \A w \in Workers :
       /\ worker[w].phase \in {"off", "up", "draining", "gone"}
       /\ worker[w].connected \in BOOLEAN /\ worker[w].inc \in 0 .. regs
       /\ worker[w].held \in [Seqs -> Calls \cup {NoCall}]
       /\ worker[w].asked \subseteq Running(w)
       /\ worker[w].unsent \in Seq(Report) /\ Len(worker[w].unsent) <= MaxUnsent

(* There is no backlog: two calls that both saw room cannot both land. *)
NoBacklog == Cardinality(NonTerminal(jobs)) <= Limit

(* A call runs on a machine at most once, whatever answers were lost, and  *)
(* not at all when its row says it never started.                          *)
NeverRetried ==
  /\ \A n \in Calls : hist.ran[n] <= 1
  /\ \A j \in Present(jobs) : jobs[j].unstarted => hist.ran[jobs[j].call] = 0

(* A result stands in the row of the call it is the result of, although    *)
(* sequence numbers come back with the next registration of the name.      *)
OwnOutcome ==
  \A j \in Seqs : jobs[j].of # NoCall => jobs[j].of = jobs[j].call

(* One job owes one turn: two deliveries, a wait that took the outcome and *)
(* the hourly retry do not announce it twice.                              *)
OneTurn == \A n \in Calls : hist.turns[n] <= 1

(* A settled job stays as it was settled until its row is deleted: a late  *)
(* report, a sweep, a cancellation and a removal do not write over it.     *)
SettledStays ==
  [][\A j \in Terminal(jobs) :
       jobs'[j].status = "absent"
         \/ (jobs'[j].status = jobs[j].status /\ jobs'[j].of = jobs[j].of)]_vars

Told(n) == hist.turns[n] > 0 \/ n \in hist.seen

BeingTold(n) ==
  \/ \E d \in Deliveries : \E t \in deliver[d].told : t[2] = n
  \/ \E o \in Agents \cup Owners : op[o].phase = "claimed" /\ op[o].saw = n

(* The retention takes no outcome the agent was not told or is not being   *)
(* told, unless the delivery or the request that claimed it died before it *)
(* wrote the turn or returned the outcome.                                 *)
UntoldIsKept ==
  [][\A j \in Terminal(jobs) :
       jobs'[j].status = "absent" /\ sat'.reg = sat.reg =>
         \/ Told(jobs[j].call) \/ BeingTold(jobs[j].call)
         \/ jobs[j].call \in hist.orphaned]_vars

Unsettled == \E j \in NonTerminal(jobs) : ~Renewed(j)

(* A job that no worker looks after does not stay open: it is claimed,     *)
(* swept or expires.                                                       *)
JobsSettle == Unsettled ~> ~Unsettled

CancelPending ==
  \E w \in Workers, j \in Seqs :
    /\ Serving(w) /\ SameRegistration(worker[w].inc) /\ worker[w].held[j] # NoCall
    /\ jobs[j].status = "running" /\ jobs[j].cancel

(* A cancellation reaches the worker that runs the job, although the first *)
(* answer that carries it may be lost or go to a poll it does not hear.    *)
CancelReaches == CancelPending ~> ~CancelPending

Untold ==
  \E j \in Terminal(jobs) : /\ ~Told(jobs[j].call)
                            /\ jobs[j].call \notin hist.orphaned

(* What a job came to reaches its agent, by the call it waits in or by a   *)
(* turn, although deliveries fail, waits die before they have claimed it   *)
(* and the agent does not wake.  One whose claimant died is excepted.      *)
OutcomeReaches == Untold ~> ~Untold
=============================================================================
