---------------------------- MODULE ScheduleFires ---------------------------
(***************************************************************************)
(* The handler of a due job (scheduler-runner.ts, fire and fireOnce), and  *)
(* what it asks of the rest: the agent's state, the spend limit, and the   *)
(* outbox that takes the trigger event.  Every await is a step.            *)
(***************************************************************************)
EXTENDS ScheduleQueue

VARIABLES
  fire,     (* the handler of the job of a moment *)
  agent,    (* "ready", "onboarding" or "disabled" *)
  limited   (* the payer is at a spend limit *)

scheduleVars == <<now, row, jobs, events, left>>

NoFire == [pc |-> "idle", spec |-> {}, result |-> None, next |-> None,
           end |-> "done"]

Goto(m, pc) == fire' = [fire EXCEPT ![m].pc = pc]
Ends(m, how) == fire' = [fire EXCEPT ![m] = NoFire] 
                /\ jobs' = [jobs EXCEPT ![m] = Ended(@, how)]

FireBegins(m) ==
  /\ jobs[m].st = "pending" /\ m <= now
  /\ jobs' = [jobs EXCEPT ![m] = Started(@)]
  /\ Goto(m, "read")
  /\ UNCHANGED <<now, row, events, left, agent, limited>>

(* Mutant: what is committed is committed again. *)
OnceFireActionForgetful ==
  CASE row.result \notin {None, "delivering"} -> "drop"
    [] row.result = None /\ OnceExpiry(row.spec) <= now -> "missed"
    [] OTHER -> "disabled"

(* Mutant: the window is looked at before what became of the task. *)
OnceFireActionExpiryFirst ==
  CASE row.result \notin {None, "delivering"} -> "drop"
    [] OnceExpiry(row.spec) <= now -> "missed"
    [] row.result = "delivering" -> "poke"
    [] OTHER -> "disabled"

(* onceFireAction: what is on its way is poked again, what has an outcome  *)
(* is left alone, and the rest goes out unless its window has passed.      *)
OnceFireAction ==
  CASE row.result = "delivering" -> "poke"
    [] row.result \notin {None, "delivering"} -> "drop"
    [] row.result = None /\ OnceExpiry(row.spec) <= now -> "missed"
    [] OTHER -> "disabled"

(* The schedule is read once, and its spec kept for all that follows. *)
FireRead(m) ==
  /\ fire[m].pc = "read"
  /\ \/ /\ ~row.there \/ ~row.enabled
        /\ Ends(m, "done")
     \/ /\ row.there /\ row.enabled /\ row.kind = "once"
        /\ IF OnceFireAction = "drop" THEN Ends(m, "done")
           ELSE /\ fire' = [fire EXCEPT ![m].pc = OnceFireAction,
                                        ![m].spec = row.spec]
                /\ UNCHANGED jobs
     \/ /\ row.there /\ row.enabled /\ row.kind = "cron"
        /\ fire' = [fire EXCEPT ![m].pc = "onboarding", ![m].spec = row.spec]
        /\ UNCHANGED jobs
  /\ UNCHANGED <<now, row, events, left, agent, limited>>

(* Then it is asked of the agent whether its onboarding is pending, and    *)
(* whether it is disabled.  A hold records why and arms the next           *)
(* occurrence; a one-time task asks the second only, and is missed.        *)
FireAsksOnboarding(m) ==
  /\ fire[m].pc = "onboarding"
  /\ fire' = [fire EXCEPT
       ![m].pc = IF agent = "onboarding" THEN "write" ELSE "disabled",
       ![m].result = IF agent = "onboarding" THEN "held" ELSE @]
  /\ UNCHANGED <<scheduleVars, agent, limited>>

FireAsksDisabled(m) ==
  /\ fire[m].pc = "disabled"
  /\ fire' = [fire EXCEPT
       ![m].pc = IF agent # "disabled" THEN "payload"
                 ELSE IF row.kind = "once" THEN "missed" ELSE "write",
       ![m].result = IF agent = "disabled" /\ row.kind = "cron"
                     THEN "held" ELSE @]
  /\ UNCHANGED <<scheduleVars, agent, limited>>

FireMisses(m) ==
  /\ fire[m].pc = "missed"
  /\ Write(Missed)
  /\ Ends(m, "done")
  /\ UNCHANGED <<now, events, left, agent, limited>>

(* The payload is built, and a fire at a spend limit held: a recurring one *)
(* skips to its next occurrence, a one-time one waits for the limit.       *)
FirePayload(m) ==
  /\ fire[m].pc = "payload"
  /\ fire' = [fire EXCEPT
       ![m].pc = IF ~limited THEN "commit"
                 ELSE IF row.kind = "once" THEN "wait" ELSE "write",
       ![m].result = IF limited /\ row.kind = "cron" THEN "limit" ELSE @,
       ![m].next = IF limited /\ row.kind = "once"
                   THEN Min({NextMidnight(now), OnceExpiry(fire[m].spec)})
                   ELSE @]
  /\ UNCHANGED <<scheduleVars, agent, limited>>

FireWaits(m) ==
  /\ fire[m].pc = "wait"
  /\ Write(WithNext(fire[m].next))
  /\ Goto(m, "ensure")
  /\ UNCHANGED <<now, jobs, events, left, agent, limited>>

FireEnsures(m) ==
  LET until == fire[m].next
  IN  /\ fire[m].pc = "ensure"
      /\ fire' = [fire EXCEPT ![m] = NoFire]
      /\ jobs' = [j \in Moments |->
           IF j = m THEN Ended(jobs[m], "done")
           ELSE IF j = until /\ jobs[j].st \in {"none", "failed"}
                THEN [jobs[j] EXCEPT !.st = "pending"]
           ELSE jobs[j]]
      /\ UNCHANGED <<now, row, events, left, agent, limited>>

(* commitTrigger: the event's id names the moment, so it goes in once.  A  *)
(* one-time task is marked in the same transaction.                        *)
Committed(m) ==
  IF events[m].st = "none"
  THEN [events EXCEPT ![m] =
         [st |-> "sent", exp |-> IF row.kind = "once"
                                 THEN OnceExpiry(fire[m].spec) ELSE None]]
  ELSE events

Delivering ==
  [row EXCEPT !.fired = TRUE, !.result = "delivering", !.nextRun = None]

FireCommits(m) ==
  /\ fire[m].pc = "commit"
  /\ events' = Committed(m)
  /\ IF row.kind = "once" THEN Write(Delivering) ELSE UNCHANGED row
  /\ Goto(m, "poke")
  /\ UNCHANGED <<now, jobs, left, agent, limited>>

FirePokes(m) ==
  /\ fire[m].pc = "poke"
  /\ IF row.kind = "once" THEN Ends(m, "done")
     ELSE /\ fire' = [fire EXCEPT ![m].pc = "write", ![m].result = "success"]
          /\ UNCHANGED jobs
  /\ UNCHANGED <<now, row, events, left, agent, limited>>

(* What a failed fire leaves behind: the last attempt, or a refusal no     *)
(* retry can help, gives up on the moment.                                 *)
Fails(m, refused) ==
  LET final == LastAttempt(m) \/ refused
      end == IF LastAttempt(m) THEN "throw" ELSE "done"
  IN  \/ /\ row.kind = "once" /\ (fire[m].pc = "poke" \/ ~final)
         /\ Ends(m, "throw")
      \/ /\ \/ row.kind = "once" /\ fire[m].pc # "poke" /\ final
            \/ row.kind = "cron"
         /\ fire' = [fire EXCEPT ![m].pc = "write", ![m].result = "failed",
              ![m].next = IF row.kind = "cron" /\ ~final THEN m ELSE None,
              ![m].end = IF final THEN end ELSE "throw"]
         /\ UNCHANGED jobs

FireFails(m) ==
  /\ fire[m].pc \in {"payload", "wait", "ensure", "commit", "poke"}
  /\ Spend("fail")
  /\ \E refused \in BOOLEAN : /\ refused => fire[m].pc = "payload"
                              /\ Fails(m, refused)
  /\ UNCHANGED <<now, row, events, agent, limited>>

(* Before the payload nothing is noted of a failure. *)
FireReadFails(m) ==
  /\ fire[m].pc \in {"read", "onboarding", "disabled", "missed"}
  /\ Spend("fail")
  /\ Ends(m, "throw")
  /\ UNCHANGED <<now, row, events, agent, limited>>

Rearms(m) == row.kind = "cron" /\ fire[m].next # m

(* Mutant: the next occurrence is the one after the stored one. *)
NextAfterStored(m) ==
  IF Rearms(m) /\ row.nextRun # None THEN NextFireAt(fire[m].spec, row.nextRun)
  ELSE fire[m].next

NextAfter(m) == IF Rearms(m) THEN NextFireAt(fire[m].spec, now) ELSE fire[m].next

StatusWritten(m) ==
  LET f == fire[m]
  IN  [row EXCEPT !.result = f.result,
                  !.fired = IF f.result = "success" \/ row.kind = "once"
                            THEN TRUE ELSE @,
                  !.nextRun = NextAfter(m)]

AfterWrite(m) ==
  IF Rearms(m) /\ NextAfter(m) # None
  THEN /\ fire' = [fire EXCEPT ![m].pc = "remove", ![m].next = NextAfter(m)]
       /\ UNCHANGED jobs
  ELSE Ends(m, fire[m].end)

FireWrites(m) ==
  /\ fire[m].pc = "write"
  /\ Write(StatusWritten(m))
  /\ AfterWrite(m)
  /\ UNCHANGED <<now, events, left, agent, limited>>

(* Only a fire that went well minds that its status was not written. *)
FireWriteFails(m) ==
  /\ fire[m].pc = "write" /\ Spend("fail")
  /\ IF fire[m].result = "success" THEN Ends(m, "throw") ELSE AfterWrite(m)
  /\ UNCHANGED <<now, row, events, agent, limited>>

FireRemoves(m) ==
  /\ fire[m].pc = "remove"
  /\ RemovePending
  /\ Goto(m, "add")
  /\ UNCHANGED <<now, row, events, left, agent, limited>>

FireAdds(m) ==
  LET next == fire[m].next
  IN  /\ fire[m].pc = "add"
      /\ fire' = [fire EXCEPT ![m] = NoFire]
      /\ jobs' = [j \in Moments |->
           IF j = m THEN Ended(jobs[m], fire[m].end)
           ELSE IF j = next /\ jobs[j].st = "none"
                THEN [jobs[j] EXCEPT !.st = "pending"]
           ELSE jobs[j]]
      /\ UNCHANGED <<now, row, events, left, agent, limited>>

(* A hold at the spend limit is inside the try that notes a failure. *)
FireQueueFails(m) ==
  /\ fire[m].pc \in {"remove", "add"} /\ Spend("fail")
  /\ IF fire[m].result = "limit" THEN Fails(m, FALSE) ELSE Ends(m, "throw")
  /\ UNCHANGED <<now, row, events, agent, limited>>

FireDies(m) ==
  /\ fire[m].pc # "idle" /\ Spend("die")
  /\ Ends(m, "stall")
  /\ UNCHANGED <<now, row, events, agent, limited>>

---------------------------------------------------------------------------
(* The agent is taken out of service and brought back, the limit reached. *)
AgentChanges ==
  /\ Spend("agent")
  /\ agent' \in {"ready", "onboarding", "disabled"} \ {agent}
  /\ UNCHANGED <<now, row, jobs, events, fire, limited>>

LimitReached ==
  /\ ~limited /\ Spend("limit")
  /\ limited' = TRUE
  /\ UNCHANGED <<now, row, jobs, events, fire, agent>>

FireInit ==
  /\ fire = [m \in Moments |-> NoFire]
  /\ agent = "ready" /\ limited = FALSE

FireStep(m) ==
  \/ FireBegins(m) \/ FireRead(m) \/ FireAsksOnboarding(m)
  \/ FireAsksDisabled(m) \/ FireMisses(m) \/ FirePayload(m)
  \/ FireWaits(m) \/ FireEnsures(m) \/ FireCommits(m) \/ FirePokes(m)
  \/ FireWrites(m) \/ FireRemoves(m) \/ FireAdds(m)

FireDisturbed(m) ==
  \/ FireReadFails(m) \/ FireFails(m) \/ FireWriteFails(m)
  \/ FireQueueFails(m) \/ FireDies(m)

FireNext ==
  \/ \E m \in Moments : FireStep(m) \/ FireDisturbed(m)
  \/ \E m \in Moments : JobLost(m) /\ UNCHANGED <<fire, agent, limited>>
  \/ AgentChanges \/ LimitReached
=============================================================================
