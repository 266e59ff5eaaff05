--------------------------- MODULE SatelliteWorker --------------------------
(***************************************************************************)
(* The machine's side: the processes of `dam satellite` and the calls by   *)
(* which they reach the queue.  A process registers the name, keeps a      *)
(* claim open, runs what it is given, renews the leases of what it runs    *)
(* and reports how each job ended, again if the report was lost.           *)
(*                                                                         *)
(* A claim is a long poll: the server goes round until there is something  *)
(* to hand over, whether or not the worker still listens.  A worker with   *)
(* no capacity left polls for cancellations only.                          *)
(***************************************************************************)
EXTENDS SatelliteJobs, Sequences

CONSTANTS
  MaxUnsent,      \* outcomes a worker keeps for a later attempt
  First           \* the process that serves at the start

ASSUME WorkerAssumption == MaxUnsent \in Nat \ {0} /\ First \in Workers

VARIABLES
  worker,     \* the processes
  claim,      \* each process's open claims, as the server sees them
  reports,    \* reports on their way
  drains      \* processes whose drain call is on its way

workerVars == <<worker, claim, reports, drains>>

Polls == {"work", "cancel"}

Report == [from : Workers, seq : Seqs, call : Calls, inc : Nat,
           outcome : {"done", "interrupted", "cancelled"}]

Claim == [phase : {"none", "open", "answer"}, capacity : 0 .. Limit,
          calls : SUBSET (Seqs \X Calls), cancels : SUBSET Seqs,
          removed : BOOLEAN]

NoClaim == [phase |-> "none", capacity |-> 0, calls |-> {}, cancels |-> {},
            removed |-> FALSE]

NoWorker == [phase |-> "off", connected |-> FALSE, inc |-> NoReg,
             held |-> [j \in Seqs |-> NoCall], asked |-> {}, unsent |-> <<>>]

(* One process serves the registration there is, unless it has just gone. *)
WorkerInit ==
  /\ worker = [w \in Workers |-> IF w = First /\ w \in scene
                 THEN [NoWorker EXCEPT !.phase = "up", !.connected = TRUE,
                                       !.inc = sat.reg]
                 ELSE NoWorker]
  /\ claim = [w \in Workers |-> [k \in Polls |-> NoClaim]]
  /\ reports = {}
  /\ drains = {}

Alive(w) == worker[w].phase \in {"up", "draining"}
Serving(w) == worker[w].phase = "up" /\ worker[w].connected
Running(w) == {j \in Seqs : worker[w].held[j] # NoCall}
Capacity(w) == IF Cardinality(Running(w)) >= Limit THEN 0
               ELSE Limit - Cardinality(Running(w))

(* The job in row j is run by a process that renews its lease. *)
Renewed(j) ==
  \E w \in Workers : /\ Alive(w) /\ worker[w].connected
                     /\ SameRegistration(worker[w].inc)
                     /\ worker[w].held[j] # NoCall

---------------------------------------------------------------------------
(* Registration *)

StartProcess(w) ==
  /\ w \in scene /\ worker[w].phase = "off"
  /\ IF sat.reg = NoReg THEN UNCHANGED left ELSE Spend("second")
  /\ worker' = [worker EXCEPT ![w].phase = "up"]
  /\ UNCHANGED <<sat, regs, jobs, deliver, hist, claim, reports, drains>>

(* A first connect takes the name, or serves the registration that has it; *)
(* a later one only renews the registration the worker served.  A claim,   *)
(* not a connect, says that the machine serves again.                      *)
Upsert ==
  IF sat.reg = NoReg
  THEN /\ regs' = regs + 1
       /\ sat' = [NoSatellite EXCEPT !.reg = regs', !.online = TRUE]
  ELSE sat' = [sat EXCEPT !.online = TRUE] /\ UNCHANGED regs

ConnectFails(w) ==
  /\ Alive(w) /\ ~worker[w].connected /\ worker[w].inc = NoReg
  /\ Spend("net")
  /\ Upsert
  /\ UNCHANGED <<jobs, deliver, hist, worker, claim, reports, drains>>

Connect(w) ==
  /\ Alive(w) /\ ~worker[w].connected
  /\ worker[w].phase = "draining" => Running(w) # {}
  /\ \/ /\ worker[w].inc = NoReg
        /\ Upsert
        /\ worker' = [worker EXCEPT ![w].connected = TRUE, ![w].inc = sat'.reg]
     \/ /\ worker[w].inc # NoReg /\ SameRegistration(worker[w].inc)
        /\ sat' = [sat EXCEPT !.online = TRUE]
        /\ worker' = [worker EXCEPT ![w].connected = TRUE]
        /\ UNCHANGED regs
     \/ /\ worker[w].phase = "up"
        /\ worker[w].inc # NoReg /\ ~SameRegistration(worker[w].inc)
        /\ worker' = [worker EXCEPT ![w].phase = "draining"]
        /\ UNCHANGED <<sat, regs>>
  /\ UNCHANGED <<jobs, deliver, hist, left, claim, reports, drains>>

---------------------------------------------------------------------------
(* Claims *)

(* A poll for cancellations that can find none to hand over and that its   *)
(* worker will be there to answer for changes nothing.                     *)
PollMatters(w) ==
  \/ Cancellations(jobs) # {} \/ ~SameRegistration(worker[w].inc)
  \/ left["stop"] + left["kill"] > 0

(* Outcomes kept for later are sent first; whether that works or not, the  *)
(* worker goes on to claim.                                                *)
OpenClaim(w, k) ==
  /\ Serving(w)
  /\ claim[w][k].phase = "none"
  /\ (k = "cancel") <=> (Capacity(w) = 0)
  /\ k = "cancel" => PollMatters(w)
  /\ claim' = [claim EXCEPT ![w][k] = [NoClaim EXCEPT !.phase = "open",
                                                      !.capacity = Capacity(w)]]
  /\ UNCHANGED <<sat, regs, jobs, deliver, hist, left, worker, reports, drains>>

(* What a registered worker's poll does to the satellite's row. *)
Touched == [sat EXCEPT !.draining = FALSE, !.online = TRUE]

(* One round of the server's loop that changes something or ends it. *)
ClaimRound(w, k) ==
  LET c == claim[w][k]
      cancels == Cancellations(jobs)
      queued == Claimable(jobs, c.capacity)
      items == {<<j, jobs[j].call>> : j \in queued}
  IN /\ c.phase = "open"
     /\ IF ~SameRegistration(worker[w].inc)
        THEN /\ claim' = [claim EXCEPT ![w][k].phase = "answer",
                                       ![w][k].removed = TRUE]
             /\ UNCHANGED <<sat, jobs>>
        ELSE /\ cancels # {} \/ queued # {} \/ Touched # sat
             /\ sat' = Touched
             /\ jobs' = Claimed(CancelSent(jobs, cancels), queued)
             /\ claim' = [claim EXCEPT
                  ![w][k].phase = IF cancels # {} \/ queued # {}
                                  THEN "answer" ELSE "open",
                  ![w][k].calls = items, ![w][k].cancels = cancels]
     /\ UNCHANGED <<regs, deliver, hist, left, worker, reports, drains>>

(* The poll's time runs out with nothing to hand over.  A serving worker   *)
(* asks again at once, so this is a step only of a poll it will not renew. *)
ClaimEnds(w, k) ==
  /\ claim[w][k].phase = "open"
  /\ ~Serving(w) \/ (k = "cancel" /\ Capacity(w) > 0)
  /\ claim' = [claim EXCEPT ![w][k] = NoClaim]
  /\ UNCHANGED <<sat, regs, jobs, deliver, hist, left, worker, reports, drains>>

(* startJob and backend.cancel for what came back *)
Started(w, items) ==
  [worker[w] EXCEPT !.held = [j \in Seqs |->
     IF \E i \in items : i[1] = j THEN (CHOOSE i \in items : i[1] = j)[2] ELSE @[j]]]

Asked(w, cancels) == [worker[w] EXCEPT !.asked = @ \cup (cancels \cap Running(w))]

(* The worker takes the answer: a draining one starts nothing, one that is *)
(* gone hears nothing, and one whose registration is gone drains.          *)
ClaimAnswered(w, k) ==
  LET c == claim[w][k]
      runs == {i[2] : i \in c.calls}
      hears == Alive(w) /\ ~(k = "work" /\ worker[w].phase = "draining")
  IN /\ c.phase = "answer"
     /\ claim' = [claim EXCEPT ![w][k] = NoClaim]
     /\ \/ ~hears /\ UNCHANGED <<worker, hist>>
        \/ /\ hears /\ c.removed
           /\ worker' = [worker EXCEPT ![w].phase = "draining"]
           /\ UNCHANGED hist
        \/ /\ hears /\ ~c.removed /\ k = "cancel"
           /\ worker' = [worker EXCEPT ![w] = Asked(w, c.cancels)]
           /\ UNCHANGED hist
        \/ /\ hears /\ ~c.removed /\ k = "work"
           /\ worker' = [worker EXCEPT ![w] =
                [Started(w, c.calls) EXCEPT !.asked = Asked(w, c.cancels).asked]]
           /\ hist' = [hist EXCEPT !.ran =
                [n \in Calls |-> IF n \in runs THEN @[n] + 1 ELSE @[n]]]
     /\ UNCHANGED <<sat, regs, jobs, deliver, left, reports, drains>>

(* The answer is lost, and with it the jobs it handed over.  A worker that *)
(* drains does not connect again for it.                                   *)
ClaimLost(w, k) ==
  /\ claim[w][k].phase = "answer" /\ Alive(w)
  /\ Spend("net")
  /\ claim' = [claim EXCEPT ![w][k] = NoClaim]
  /\ worker' = [worker EXCEPT ![w].connected = FALSE]
  /\ UNCHANGED <<sat, regs, jobs, deliver, hist, reports, drains>>

---------------------------------------------------------------------------
(* Running and reporting *)

(* How a job can end: a cancelled one may have finished first, and any     *)
(* call may break off.                                                     *)
OutcomesOf(w, j) ==
  {"done", "interrupted"} \cup (IF j \in worker[w].asked THEN {"cancelled"} ELSE {})

ReportOf(w, j, outcome) ==
  [from |-> w, seq |-> j, call |-> worker[w].held[j], inc |-> worker[w].inc,
   outcome |-> outcome]

Finish(w, j) ==
  /\ Alive(w) /\ worker[w].held[j] # NoCall
  /\ \E outcome \in OutcomesOf(w, j) :
       reports' = reports \cup {ReportOf(w, j, outcome)}
  /\ worker' = [worker EXCEPT ![w].held[j] = NoCall, ![w].asked = @ \ {j}]
  /\ UNCHANGED <<sat, regs, jobs, deliver, hist, left, claim, drains>>

(* Mutant: whoever holds the number now *)
ReportRowsByNumber(r) == Settleable(jobs, {r.seq}, "running")

(* report(): the job settles if it still runs, under the registration the  *)
(* worker claimed it with, and its agent is told.                          *)
ReportRows(r) ==
  IF SameRegistration(r.inc) THEN Settleable(jobs, {r.seq}, "running") ELSE {}

SettleReport(r) ==
  /\ jobs' = Settled(jobs, ReportRows(r), r.outcome, r.call)
  /\ AnnounceIf(ReportRows(r) # {})

ReportArrives(r) ==
  /\ r \in reports
  /\ SettleReport(r)
  /\ reports' = reports \ {r}
  /\ UNCHANGED <<sat, regs, hist, left, worker, claim, drains>>

(* Keeping the newest when there are too many *)
Kept(w, r) ==
  LET u == worker[w].unsent
  IN  Append(IF Len(u) >= MaxUnsent THEN Tail(u) ELSE u, r)

(* The call fails before or after the server acted on it; a worker that    *)
(* goes on keeps the outcome.                                              *)
ReportLost(r) ==
  /\ r \in reports
  /\ Spend("net")
  /\ SettleReport(r) \/ UNCHANGED <<jobs, deliver>>
  /\ reports' = reports \ {r}
  /\ worker' = IF Alive(r.from)
               THEN [worker EXCEPT ![r.from].unsent = Kept(r.from, r)]
               ELSE worker
  /\ UNCHANGED <<sat, regs, hist, claim, drains>>

(* flushUnsent: on a connect, before a claim and at the end of a drain *)
FlushUnsent(w) ==
  /\ Alive(w) /\ worker[w].connected /\ worker[w].unsent # <<>>
  /\ reports' = reports \cup {Head(worker[w].unsent)}
  /\ worker' = [worker EXCEPT ![w].unsent = Tail(@)]
  /\ UNCHANGED <<sat, regs, jobs, deliver, hist, left, claim, drains>>

Lapsed(w) ==
  {j \in Running(w) : jobs[j].status = "running" /\ jobs[j].lease = "lapsed"}

(* heartbeat, when it has something to renew *)
Heartbeat(w) ==
  LET Row(r) == [r EXCEPT !.lease = "live"]
  IN /\ Alive(w) /\ worker[w].connected /\ SameRegistration(worker[w].inc)
     /\ Lapsed(w) # {} \/ ~sat.online
     /\ sat' = [sat EXCEPT !.online = TRUE]
     /\ jobs' = Updated(jobs, Lapsed(w), Row)
     /\ UNCHANGED <<regs, deliver, hist, left, workerVars>>

---------------------------------------------------------------------------
(* The end of a process *)

(* The first interrupt: no more claims, and the platform is told. *)
Drain(w) ==
  /\ worker[w].phase = "up"
  /\ Spend("stop")
  /\ worker' = [worker EXCEPT ![w].phase = "draining"]
  /\ drains' = drains \cup {w}
  /\ UNCHANGED <<sat, regs, jobs, deliver, hist, claim, reports>>

(* A worker that never connected names no registration. *)
DrainArrives(w) ==
  /\ w \in drains
  /\ drains' = drains \ {w}
  /\ sat' = IF sat.reg # NoReg /\ worker[w].inc \in {NoReg, sat.reg}
            THEN [sat EXCEPT !.draining = TRUE, !.online = TRUE] ELSE sat
  /\ UNCHANGED <<regs, jobs, deliver, hist, left, worker, claim, reports>>

DrainLost(w) ==
  /\ w \in drains
  /\ Spend("net")
  /\ drains' = drains \ {w}
  /\ UNCHANGED <<sat, regs, jobs, deliver, hist, worker, claim, reports>>

(* Nothing runs.  A stop does not wait for the platform: calls that are    *)
(* under way are left behind, of the outcomes kept the first may still be  *)
(* sent, and the others are lost.                                          *)
Gone(w) == [worker EXCEPT ![w] = [NoWorker EXCEPT !.phase = "gone",
                                                  !.inc = worker[w].inc]]

LastReport(w) ==
  IF worker[w].connected /\ worker[w].unsent # <<>>
  THEN {Head(worker[w].unsent)} ELSE {}

Exit(w) ==
  /\ worker[w].phase = "draining" /\ Running(w) = {}
  /\ reports' = reports \cup LastReport(w)
  /\ worker' = Gone(w)
  /\ UNCHANGED <<sat, regs, jobs, deliver, hist, left, claim, drains>>

(* The second interrupt kills what runs and says so once. *)
ForceStop(w) ==
  /\ worker[w].phase = "draining"
  /\ Spend("stop")
  /\ reports' = reports \cup {ReportOf(w, j, "interrupted") : j \in Running(w)}
  /\ worker' = Gone(w)
  /\ UNCHANGED <<sat, regs, jobs, deliver, hist, claim, drains>>

Kill(w) ==
  /\ Alive(w)
  /\ Spend("kill")
  /\ worker' = Gone(w)
  /\ UNCHANGED <<sat, regs, jobs, deliver, hist, claim, reports, drains>>

(* What a process and the calls it made do without being disturbed.  A     *)
(* tool call may run for ever unless it is cancelled.                      *)
WorkerGoes ==
  \/ \E w \in Workers :
       \/ StartProcess(w) \/ FlushUnsent(w) \/ Heartbeat(w)
       \/ worker[w].phase = "up" /\ Connect(w)
       \/ DrainArrives(w) \/ Exit(w)
       \/ \E j \in worker[w].asked : Finish(w, j)
       \/ \E k \in Polls : \/ OpenClaim(w, k) \/ ClaimRound(w, k)
                           \/ ClaimEnds(w, k) \/ ClaimAnswered(w, k)
  \/ \E r \in reports : ReportArrives(r)

WorkerNext ==
  \/ WorkerGoes
  \/ \E w \in Workers :
       \/ ConnectFails(w) \/ Connect(w) \/ Drain(w) \/ DrainLost(w)
       \/ ForceStop(w) \/ Kill(w)
       \/ \E j \in Seqs : Finish(w, j)
       \/ \E k \in Polls : ClaimLost(w, k)
  \/ \E r \in reports : ReportLost(r)
=============================================================================
