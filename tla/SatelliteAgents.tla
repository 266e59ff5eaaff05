--------------------------- MODULE SatelliteAgents --------------------------
(***************************************************************************)
(* The agent's and the owner's side: starting, waiting for, reading and    *)
(* cancelling a job, granting, revoking and removing, and the delivery of  *)
(* an outcome nobody waits for as a turn of the agent.                     *)
(***************************************************************************)
EXTENDS SatelliteJobs

VARIABLES
  op,         \* the requests under way, of the agent and of the owner
  removing    \* the owner's removal between its statements: "no", "yes",
              \* or the delivery it waits for

agentVars == <<op, removing>>

(* reg and seq are what the request has read so far; saw is the call whose *)
(* outcome it is about to return.                                          *)
Op == [phase : {"idle", "insert", "mark", "read", "poll", "see", "claimed",
                "release", "answer", "cancel", "request", "settle", "stop"},
       waits : BOOLEAN, reg : Nat, seq : Seqs \cup {0},
       saw : Calls \cup {NoCall}]

NoOp == [phase |-> "idle", waits |-> FALSE, reg |-> NoReg, seq |-> 0,
         saw |-> NoCall]

AgentInit ==
  /\ op = [o \in Agents \cup Owners |-> NoOp]
  /\ removing = "no"

To(o, phase) == op' = [op EXCEPT ![o].phase = phase]
Returns(o) == op' = [op EXCEPT ![o] = NoOp]

(* resolve(): the agent reaches the satellite through its grant. *)
Resolves == sat.reg # NoReg /\ sat.granted

---------------------------------------------------------------------------
(* start *)

Admitted == Resolves /\ sat.online /\ ~sat.draining /\ Room(jobs)

Start(o) ==
  /\ o \in scene \cap Agents /\ op[o].phase = "idle"
  /\ Admitted
  /\ Spend("call")
  /\ op' = [op EXCEPT ![o] = [NoOp EXCEPT !.phase = "insert", !.reg = sat.reg]]
  /\ UNCHANGED <<sat, regs, jobs, deliver, hist, removing>>

(* Mutant: the count of the admission is relied on *)
RoomWasSeen == TRUE

(* insertJob's own count, under the lock of the satellite's row *)
StillRoom == Room(jobs)

(* The call goes on to wait for its job.  Where the scenario has no waits, *)
(* the process that serves the call dies when the job is in.               *)
InsertJob(o) ==
  /\ op[o].phase = "insert"
  /\ IF SameRegistration(op[o].reg) /\ StillRoom
     THEN /\ sat.next \in Seqs /\ hist.calls < MaxCalls
          /\ jobs' = Inserted(jobs, sat.next, hist.calls + 1)
          /\ sat' = [sat EXCEPT !.next = @ + 1]
          /\ hist' = [hist EXCEPT !.calls = @ + 1]
          /\ IF "wait" \in scene
             THEN op' = [op EXCEPT ![o].phase = "mark", ![o].waits = TRUE,
                                   ![o].seq = sat.next]
             ELSE Returns(o)
     ELSE Returns(o) /\ UNCHANGED <<sat, jobs, hist>>
  /\ UNCHANGED <<regs, deliver, left, removing>>

---------------------------------------------------------------------------
(* wait and get *)

Again(o, j) ==
  /\ o \in scene \cap Agents /\ op[o].phase = "idle" /\ jobs[j].status # "absent"
  /\ Spend("again")
  /\ \E waits \in BOOLEAN :
       op' = [op EXCEPT ![o] = [NoOp EXCEPT !.seq = j, !.waits = waits,
                                  !.phase = IF waits THEN "mark" ELSE "read"]]
  /\ UNCHANGED <<sat, regs, jobs, deliver, hist, removing>>

(* The wait's lease is taken before anything is read. *)
MarkAwaited(o) ==
  /\ op[o].phase = "mark"
  /\ jobs' = MarkedAwaited(jobs, op[o].seq)
  /\ To(o, "read")
  /\ UNCHANGED <<sat, regs, deliver, hist, left, removing>>

Readable(j) == Resolves /\ jobs[j].status # "absent"

Read(o) ==
  LET j == op[o].seq
  IN /\ op[o].phase = "read"
     /\ CASE ~Readable(j) -> Returns(o)
          [] Readable(j) /\ j \in Terminal(jobs) ->
               op' = [op EXCEPT ![o].phase = "see", ![o].saw = jobs[j].call]
          [] Readable(j) /\ j \in NonTerminal(jobs) ->
               IF op[o].waits THEN To(o, "poll") ELSE Returns(o)
     /\ UNCHANGED <<sat, regs, jobs, deliver, hist, left, removing>>

(* The wait goes round while its lease is renewed.  A round that would     *)
(* find the same is not a step; the deadline may end it.                   *)
Poll(o) ==
  /\ op[o].phase = "poll"
  /\ \/ /\ ~Readable(op[o].seq) \/ op[o].seq \in Terminal(jobs)
           \/ jobs[op[o].seq].awaited = "lapsed"
        /\ To(o, "mark")
     \/ Returns(o)
  /\ UNCHANGED <<sat, regs, jobs, deliver, hist, left, removing>>

(* markSeen claims the outcome for this call: its row counts as told and  *)
(* woken from here on.  One that a delivery claimed first is returned all  *)
(* the same.                                                               *)
SeeRows(j) == {j} \cap Present(jobs)

MarkSeen(o) ==
  LET j == op[o].seq
  IN /\ op[o].phase = "see"
     /\ IF StillUndelivered(jobs, SeeRows(j)) # {}
        THEN jobs' = MarkedSeen(jobs, j) /\ To(o, "claimed")
        ELSE jobs' = jobs /\ To(o, IF op[o].waits THEN "release" ELSE "answer")
     /\ UNCHANGED <<sat, regs, deliver, hist, left, removing>>

(* A wait that did not claim the outcome gives its lease back. *)
ReleaseAwaited(o) ==
  LET j == op[o].seq
  IN /\ op[o].phase = "release"
     /\ jobs' = IF j \in Present(jobs) THEN [jobs EXCEPT ![j].awaited = "no"]
                ELSE jobs
     /\ To(o, "answer")
     /\ UNCHANGED <<sat, regs, deliver, hist, left, removing>>

(* The outcome is put together and returned: now the agent knows it. *)
Answer(o) ==
  /\ op[o].phase \in {"claimed", "answer"}
  /\ hist' = [hist EXCEPT !.seen = @ \cup {op[o].saw}]
  /\ Returns(o)
  /\ UNCHANGED <<sat, regs, jobs, deliver, left, removing>>

(* The server process that holds the request dies; an outcome the request  *)
(* had claimed and not returned stays claimed.                             *)
OpDies(o) ==
  /\ op[o].phase # "idle"
  /\ Spend("die")
  /\ hist' = [hist EXCEPT !.orphaned =
       IF op[o].phase = "claimed" THEN @ \cup {op[o].saw} ELSE @]
  /\ Returns(o)
  /\ UNCHANGED <<sat, regs, jobs, deliver, removing>>

---------------------------------------------------------------------------
(* cancel, by the agent or by its owner *)

Cancel(o, j) ==
  /\ o \in scene /\ op[o].phase = "idle" /\ jobs[j].status # "absent"
  /\ sat.reg # NoReg /\ (o \in Agents => Resolves)
  /\ Spend("cancel")
  /\ op' = [op EXCEPT ![o] = [NoOp EXCEPT !.phase = "cancel", !.seq = j,
                                          !.reg = sat.reg]]
  /\ UNCHANGED <<sat, regs, jobs, deliver, hist, removing>>

CancelRead(o) ==
  LET j == op[o].seq
      st == jobs[j].status
      Turns(phase) == op' = [op EXCEPT ![o].phase = phase,
                              ![o].reg = IF o \in Owners THEN sat.reg ELSE @]
  IN /\ op[o].phase = "cancel"
     /\ CASE st = "queued" -> Turns("settle")
          [] st = "running" -> Turns("request")
          [] st \in {"done", "interrupted", "cancelled"} /\ o \in Agents ->
               op' = [op EXCEPT ![o].phase = "see", ![o].saw = jobs[j].call]
          [] OTHER -> Returns(o)
     /\ UNCHANGED <<sat, regs, jobs, deliver, hist, left, removing>>

RequestCancel(o) ==
  /\ op[o].phase = "request"
  /\ jobs' = IF SameRegistration(op[o].reg) /\ op[o].seq \in Present(jobs)
             THEN [jobs EXCEPT ![op[o].seq].cancel = TRUE] ELSE jobs
  /\ Returns(o)
  /\ UNCHANGED <<sat, regs, deliver, hist, left, removing>>

(* A job that was claimed meanwhile is looked at again, a bounded number   *)
(* of times.  The agent has the outcome; for the owner it is delivered.    *)
CancelRows(o) ==
  IF SameRegistration(op[o].reg) THEN Settleable(jobs, {op[o].seq}, "queued")
  ELSE {}

CancelSettle(o) ==
  LET S == CancelRows(o)
  IN /\ op[o].phase = "settle"
     /\ jobs' = Unstarted(jobs, S)
     /\ IF S = {} THEN To(o, "cancel") \/ Returns(o)
        ELSE IF o \in Agents
             THEN op' = [op EXCEPT ![o].phase = "see",
                                   ![o].saw = jobs[op[o].seq].call]
             ELSE Returns(o)
     /\ AnnounceIf(S # {} /\ o \in Owners)
     /\ UNCHANGED <<sat, regs, hist, left, removing>>

---------------------------------------------------------------------------
(* grant, revoke, remove *)

StopDispatch ==
  /\ jobs' = Stopped(jobs, Stoppable(jobs))
  /\ AnnounceIf(Stoppable(jobs) # {})

Grant ==
  /\ sat.reg # NoReg /\ ~sat.granted
  /\ Spend("grant")
  /\ sat' = [sat EXCEPT !.granted = TRUE]
  /\ UNCHANGED <<regs, jobs, deliver, hist, agentVars>>

(* The grant goes first; what it had queued is stopped after it. *)
Revoke(o) ==
  /\ o \in scene \cap Owners /\ op[o].phase = "idle" /\ Resolves
  /\ Spend("revoke")
  /\ sat' = [sat EXCEPT !.granted = FALSE]
  /\ To(o, "stop")
  /\ UNCHANGED <<regs, jobs, deliver, hist, removing>>

RevokeStops(o) ==
  /\ op[o].phase = "stop"
  /\ StopDispatch
  /\ Returns(o)
  /\ UNCHANGED <<sat, regs, hist, left, removing>>

RemoveStops ==
  /\ sat.reg # NoReg /\ removing = "no"
  /\ Spend("remove")
  /\ jobs' = Stopped(jobs, Stoppable(jobs))
  /\ IF Stoppable(jobs) = {} THEN removing' = "yes" /\ UNCHANGED deliver
     ELSE \E d \in Deliveries : Begins(d, FALSE) /\ removing' = d
  /\ UNCHANGED <<sat, regs, hist, op>>

(* Once the agent has been told, the rows go with the satellite, and the   *)
(* record of them too.                                                     *)
RemoveDeletes ==
  /\ removing # "no"
  /\ removing \in Deliveries => deliver[removing].phase = "idle"
  /\ removing' = "no"
  /\ sat' = NoSatellite
  /\ jobs' = [j \in Seqs |-> NoJob]
  /\ UNCHANGED <<regs, deliver, hist, left, op>>

---------------------------------------------------------------------------
(* Outcome delivery *)

(* The hourly retry, when there is something for it to do.  That the hour  *)
(* falls on a delivery under way is a disturbance.                         *)
WakeRetry(d) ==
  /\ Undelivered(jobs) # {} \/ Unwoken(jobs) # {}
  /\ IF \A e \in Deliveries : deliver[e].phase = "idle" THEN UNCHANGED left
     ELSE Spend("hour")
  /\ Begins(d, TRUE)
  /\ UNCHANGED <<sat, regs, jobs, hist, agentVars>>

(* What a delivery with nothing to announce does: the retry wakes the      *)
(* agent for what has been announced, any other one returns.               *)
NothingToTell(d, js) ==
  deliver' = [deliver EXCEPT ![d] =
    IF deliver[d].retry /\ Unwoken(js) # {}
    THEN [NoDelivery EXCEPT !.phase = "wake", !.seqs = Unwoken(js)]
    ELSE NoDelivery]

SelectOutcomes(d) ==
  /\ deliver[d].phase = "select"
  /\ IF Undelivered(jobs) = {} THEN NothingToTell(d, jobs)
     ELSE deliver' = [deliver EXCEPT ![d].phase = "claim",
                                     ![d].seqs = Undelivered(jobs)]
  /\ UNCHANGED <<sat, regs, jobs, hist, left, agentVars>>

ClaimOutcomes(d) ==
  LET S == StillUndelivered(jobs, deliver[d].seqs)
  IN /\ deliver[d].phase = "claim"
     /\ jobs' = Delivered(jobs, S, TRUE)
     /\ IF S = {} THEN NothingToTell(d, jobs)
        ELSE deliver' = [deliver EXCEPT ![d].phase = "write", ![d].seqs = S,
                           ![d].told = {<<j, jobs[j].call>> : j \in S}]
     /\ UNCHANGED <<sat, regs, hist, left, agentVars>>

(* A turn that was not written, or has no room for it, is owed again. *)
Release(js, S) == Delivered(js, S, FALSE)

(* composeOutcomeTurn: not all of it fits, in whatever order it came. *)
TrimTurn(d) ==
  /\ deliver[d].phase = "write"
  /\ \E fits \in SUBSET deliver[d].seqs \ {{}, deliver[d].seqs} :
       /\ jobs' = Release(jobs, deliver[d].seqs \ fits)
       /\ deliver' = [deliver EXCEPT ![d].seqs = fits,
                        ![d].told = {t \in @ : t[1] \in fits}]
  /\ UNCHANGED <<sat, regs, hist, left, agentVars>>

(* bump: the turn is in the outbox, and the agent is woken for it. *)
WriteTurn(d) ==
  /\ deliver[d].phase = "write"
  /\ hist' = [hist EXCEPT !.turns = [n \in Calls |->
       IF \E t \in deliver[d].told : t[2] = n THEN @[n] + 1 ELSE @[n]]]
  /\ deliver' = [deliver EXCEPT ![d].phase = "wake"]
  /\ UNCHANGED <<sat, regs, jobs, left, agentVars>>

WriteFails(d) ==
  /\ deliver[d].phase = "write"
  /\ Spend("fail")
  /\ jobs' = Release(jobs, deliver[d].seqs)
  /\ NothingToTell(d, jobs')
  /\ UNCHANGED <<sat, regs, hist, agentVars>>

WakeAgent(d) ==
  /\ deliver[d].phase = "wake"
  /\ jobs' = Woken(jobs, deliver[d].seqs)
  /\ deliver' = [deliver EXCEPT ![d] = NoDelivery]
  /\ UNCHANGED <<sat, regs, hist, left, agentVars>>

WakeFails(d) ==
  /\ deliver[d].phase = "wake"
  /\ Spend("fail")
  /\ deliver' = [deliver EXCEPT ![d] = NoDelivery]
  /\ UNCHANGED <<sat, regs, jobs, hist, agentVars>>

(* The process dies; what it had claimed and not announced stays claimed. *)
DeliveryDies(d) ==
  /\ deliver[d].phase # "idle"
  /\ Spend("die")
  /\ hist' = [hist EXCEPT !.orphaned =
       IF deliver[d].phase = "write"
       THEN @ \cup {t[2] : t \in deliver[d].told} ELSE @]
  /\ deliver' = [deliver EXCEPT ![d] = NoDelivery]
  /\ UNCHANGED <<sat, regs, jobs, agentVars>>

OpStep(o) ==
  \/ InsertJob(o) \/ MarkAwaited(o) \/ Read(o) \/ Poll(o) \/ MarkSeen(o)
  \/ ReleaseAwaited(o) \/ Answer(o)
  \/ CancelRead(o) \/ RequestCancel(o) \/ CancelSettle(o) \/ RevokeStops(o)

DeliveryStep(d) ==
  \/ WakeRetry(d) \/ SelectOutcomes(d) \/ ClaimOutcomes(d)
  \/ TrimTurn(d) \/ WriteTurn(d) \/ WakeAgent(d)

AgentGoes ==
  \/ \E o \in Agents \cup Owners : OpStep(o)
  \/ \E d \in Deliveries : DeliveryStep(d)
  \/ RemoveDeletes

AgentNext ==
  \/ AgentGoes
  \/ \E o \in Agents \cup Owners :
       \/ Start(o) \/ OpDies(o) \/ Revoke(o)
       \/ \E j \in Seqs : Again(o, j) \/ Cancel(o, j)
  \/ \E d \in Deliveries : WriteFails(d) \/ WakeFails(d) \/ DeliveryDies(d)
  \/ Grant \/ RemoveStops
=============================================================================
