--------------------------- MODULE SchedulesProofs --------------------------
(***************************************************************************)
(* The schedules, proved for every schedule, window, number of attempts    *)
(* and of owner requests at once, and any number of disturbances: their    *)
(* shape, and that what the row of a one-time task which keeps its moment  *)
(* says became of it is true.                                              *)
(***************************************************************************)
EXTENDS Schedules, NaturalsInduction, WellFoundedInduction, TLAPS

Times == Nat \cup {None}
Specs == (SUBSET Moments) \ {{}}

Rows == [there : BOOLEAN, kind : {"cron", "once"}, enabled : BOOLEAN,
         spec : Specs, nextRun : Times, result : Results, fired : BOOLEAN]

Jobs == [st : {"none", "pending", "active", "done", "failed"},
         starts : 0..Attempts, made : 0..Attempts]

Sent == [st : {"none", "sent", "settled", "expired"}, exp : Times]

FireResults == {None, "held", "limit", "success", "failed"}

FireSteps == {"idle", "read", "onboarding", "disabled", "missed", "payload", "wait",
              "ensure", "commit", "poke", "write", "remove", "add"}

RecurringSteps == {"onboarding", "disabled", "payload", "commit", "write", "remove"}

Fires == [pc : FireSteps, spec : SUBSET Moments, result : FireResults,
          next : Times, end : {"done", "throw"}]

Requests == [pc : {"idle", "spec", "sync", "write", "remove", "add", "cancel",
                   "clear", "delete"},
             op : {None, "create", "edit", "toggle", "delete"},
             spec : SUBSET Moments, enabled : BOOLEAN, next : Times]

Typed ==
  /\ now \in Moments /\ row \in Rows /\ jobs \in [Moments -> Jobs]
  /\ events \in [Moments -> Sent] /\ left \in [Disturbances -> Nat]
  /\ fire \in [Moments -> Fires] /\ agent \in {"ready", "onboarding", "disabled"}
  /\ limited \in BOOLEAN /\ edits \subseteq Specs /\ desk \in [Desks -> Requests]
  /\ rec \in [pc : {"idle", "missed", "write", "ensure"}, next : Times]
  /\ saga \in {"idle", "claim", "remove", "add"}
  /\ notices \subseteq [at : Moments, as : {"success", "missed"}]

(* A spec that is held on to is one of the schedule. *)
SpecsKept ==
  /\ \A m \in Moments : fire[m].pc \notin {"idle", "read"} => fire[m].spec \in Specs
  /\ \A o \in Desks : desk[o].pc = "spec" => desk[o].spec \in Specs

(* A job is active while its handler runs, and handlers do what their     *)
(* kind of schedule asks of them.                                         *)
FiresKept ==
  /\ \A m \in Moments : fire[m].pc # "idle" <=> jobs[m].st = "active"
  /\ row.kind = "cron" =>
       /\ row.result \notin {"missed", "delivering"} /\ rec.pc # "missed"
       /\ \A m \in Moments : fire[m].pc \notin {"missed", "wait", "ensure"}
  /\ row.kind = "once" =>
       /\ row.result \notin {"held", "limit"}
       /\ \A m \in Moments :
            /\ fire[m].pc \notin {"onboarding", "remove", "add"}
            /\ fire[m].result \in {None, "failed"}
            /\ fire[m].pc = "write" => fire[m].result = "failed"

---------------------------------------------------------------------------
(* The operators *)

LEMMA MinIsLeast ==
  ASSUME NEW S \in SUBSET Nat, S # {}
  PROVE  Min(S) \in S /\ \A x \in S : Min(S) <= x
<1> DEFINE R == {ss \in Nat \X Nat : ss[1] < ss[2]}
<1>0. IsWellFoundedOn(R, Nat)
  BY NatLessThanWellFounded, Zenon DEF OpToRel
<1> HIDE DEF R
<1>1. \E x \in S : \A y \in S : ~(<<y, x>> \in R)
  BY <1>0, WFMin
<1>2. PICK x \in S : \A y \in S : ~(<<y, x>> \in R)
  BY <1>1
<1>3. ASSUME NEW y \in S PROVE x <= y
  <2>1. <<y, x>> \in Nat \X Nat /\ <<y, x>>[1] = y /\ <<y, x>>[2] = x
    OBVIOUS
  <2>2. ~(<<y, x>>[1] < <<y, x>>[2])
    BY <1>2, <2>1, Zenon DEF R
  <2>3. ~(y < x)
    BY <2>1, <2>2
  <2> QED BY <2>3
<1> QED BY <1>3 DEF Min

LEMMA MomentsAreNumbers ==
  Moments \subseteq Nat /\ \A S \in Specs : S \in SUBSET Nat /\ S # {}
<1>1. Moments \subseteq Nat
  BY ScheduleAssumption DEF Moments
<1>2. \A S \in Specs : S \subseteq Moments /\ S # {}
  BY DEF Specs
<1> QED BY <1>1, <1>2

LEMMA AtIsAMoment ==
  ASSUME NEW S \in Specs
  PROVE  At(S) \in S /\ At(S) \in Moments /\ At(S) \in Nat /\ OnceExpiry(S) \in Nat
<1>1. At(S) \in S
  BY MinIsLeast, MomentsAreNumbers DEF At
<1>2. At(S) \in Moments
  BY <1>1 DEF Specs
<1> QED BY <1>1, <1>2, MomentsAreNumbers, ScheduleAssumption DEF OnceExpiry

LEMMA NextFireType ==
  ASSUME NEW S \in SUBSET Moments, NEW t
  PROVE  NextFireAt(S, t) \in Times
<1>1. CASE {m \in S : m > t} = {}
  BY <1>1 DEF NextFireAt, Times
<1>2. CASE {m \in S : m > t} # {}
  <2>1. Min({m \in S : m > t}) \in {m \in S : m > t}
    BY <1>2, MinIsLeast, MomentsAreNumbers
  <2> QED BY <1>2, <2>1, MomentsAreNumbers DEF NextFireAt, Times
<1> QED BY <1>1, <1>2

LEMMA DueTypes ==
  ASSUME Typed
  PROVE  /\ OnceFireAt(row) \in {None, At(row.spec)} /\ OnceFireAt(row) \in Times
         /\ Upcoming(row) \in Times /\ RestoreAt(row) \in Times
<1>0. row \in Rows /\ row.spec \in Specs /\ row.nextRun \in Times
  BY DEF Typed, Rows
<1>1. At(row.spec) \in Times /\ None \in Times
  BY <1>0, AtIsAMoment DEF Times
<1>2. OnceFireAt(row) \in {None, At(row.spec)}
  BY DEF OnceFireAt
<1>3. NextFireAt(row.spec, now) \in Times
  BY <1>0, NextFireType DEF Specs
<1> QED BY <1>0, <1>1, <1>2, <1>3 DEF Upcoming, RestoreAt

LEMMA MidnightType ==
  ASSUME NEW t \in Nat
  PROVE  NextMidnight(t) \in Nat
<1>1. Day \in Nat /\ Day > 0
  BY ScheduleAssumption
<1>2. t \div Day \in Nat
  BY <1>1
<1>3. PICK x \in Nat : x = t \div Day + 1
  BY <1>2
<1>4. Day * x \in Nat
  BY <1>1
<1> QED BY <1>3, <1>4 DEF NextMidnight

LEMMA WaitType ==
  ASSUME NEW S \in Specs, now \in Moments
  PROVE  Min({NextMidnight(now), OnceExpiry(S)}) \in Times
<1>1. NextMidnight(now) \in Nat /\ OnceExpiry(S) \in Nat
  BY MidnightType, AtIsAMoment, MomentsAreNumbers
<1>2. Min({NextMidnight(now), OnceExpiry(S)}) \in {NextMidnight(now), OnceExpiry(S)}
  BY <1>1, MinIsLeast
<1> QED BY <1>1, <1>2 DEF Times

---------------------------------------------------------------------------
(* The jobs *)

LEMMA EndedFacts ==
  ASSUME NEW j \in Jobs, NEW how \in {"done", "stall", "throw"}
  PROVE  Ended(j, how) \in Jobs /\ Ended(j, how).st \in {"done", "pending", "failed"}
<1>0. Attempts \in Nat /\ Attempts > 0 /\ j.made \in 0..Attempts
  BY ScheduleAssumption DEF Jobs
<1>1. CASE how = "done"
  BY <1>1 DEF Ended, Jobs
<1>2. CASE how = "stall"
  BY <1>2 DEF Ended, Jobs
<1>3. CASE how = "throw"
  <2>1. CASE j.made + 1 >= Attempts
    <3>1. Ended(j, how) = [j EXCEPT !.st = "failed", !.made = Attempts]
      BY <1>3, <2>1 DEF Ended
    <3>2. Attempts \in 0..Attempts
      BY <1>0
    <3> QED BY <3>1, <3>2 DEF Jobs
  <2>2. CASE ~(j.made + 1 >= Attempts)
    <3>1. PICK n \in 0..Attempts : n = j.made + 1
      BY <1>0, <2>2
    <3>2. Ended(j, how) = [j EXCEPT !.st = "pending", !.made = n]
      BY <1>3, <2>2, <3>1 DEF Ended
    <3> QED BY <3>2 DEF Jobs
  <2> QED BY <2>1, <2>2
<1> QED BY <1>1, <1>2, <1>3

LEMMA StartedFacts ==
  ASSUME NEW j \in Jobs
  PROVE  Started(j) \in Jobs /\ Started(j).st = "active"
<1>0. Attempts \in Nat /\ j.starts \in 0..Attempts
  BY ScheduleAssumption DEF Jobs
<1>1. PICK n \in 0..Attempts : n = IF j.starts < Attempts THEN j.starts + 1 ELSE Attempts
  BY <1>0
<1>2. Started(j) = [j EXCEPT !.st = "active", !.starts = n]
  BY <1>1 DEF Started
<1> QED BY <1>2 DEF Jobs

LEMMA NoJobType == NoJob \in Jobs /\ NoJob.st = "none"
BY ScheduleAssumption DEF NoJob, Jobs

LEMMA PendingType ==
  ASSUME NEW j \in Jobs
  PROVE  [j EXCEPT !.st = "pending"] \in Jobs /\ [j EXCEPT !.st = "pending"].st = "pending"
BY DEF Jobs

---------------------------------------------------------------------------
(* The row *)

(* The row becomes one with these parts, if it is still there. *)
Becomes(q, spec, next, result) ==
  /\ q \in Rows /\ q.kind = row.kind /\ q.spec = spec /\ q.nextRun = next
  /\ q.result = result /\ (q.there => row.there) /\ (row.fired => q.fired)

RowTo(spec, next, result) == row' = row \/ Becomes(row', spec, next, result)

LEMMA RowParts ==
  ASSUME Typed
  PROVE  /\ row \in Rows /\ row.kind \in {"cron", "once"} /\ row.spec \in Specs
         /\ row.nextRun \in Times /\ row.result \in Results
         /\ Becomes(row, row.spec, row.nextRun, row.result)
BY DEF Typed, Rows, Becomes

LEMMA RowEdits ==
  ASSUME Typed, NEW spec \in Specs, NEW next \in Times, NEW result \in Results,
         NEW e \in BOOLEAN
  PROVE  /\ Becomes([row EXCEPT !.nextRun = next], row.spec, next, row.result)
         /\ Becomes([row EXCEPT !.spec = spec, !.enabled = e], spec, row.nextRun, row.result)
         /\ Becomes([row EXCEPT !.fired = TRUE, !.result = result, !.nextRun = next],
                    row.spec, next, result)
         /\ [row EXCEPT !.fired = TRUE, !.result = result, !.nextRun = next].fired
         /\ Becomes([row EXCEPT !.result = result], row.spec, row.nextRun, result)
         /\ Becomes([row EXCEPT !.result = result, !.nextRun = next], row.spec, next, result)
         /\ Becomes([row EXCEPT !.there = FALSE], row.spec, row.nextRun, row.result)
         /\ ~[row EXCEPT !.there = FALSE].there
<1>0. row \in Rows
  BY DEF Typed
<1>1. Becomes([row EXCEPT !.nextRun = next], row.spec, next, row.result)
  BY <1>0 DEF Becomes, Rows
<1>2. Becomes([row EXCEPT !.spec = spec, !.enabled = e], spec, row.nextRun, row.result)
  BY <1>0 DEF Becomes, Rows
<1>3. Becomes([row EXCEPT !.fired = TRUE, !.result = result, !.nextRun = next],
              row.spec, next, result)
      /\ [row EXCEPT !.fired = TRUE, !.result = result, !.nextRun = next].fired
  BY <1>0 DEF Becomes, Rows
<1>4. Becomes([row EXCEPT !.result = result], row.spec, row.nextRun, result)
  BY <1>0 DEF Becomes, Rows
<1>5. Becomes([row EXCEPT !.result = result, !.nextRun = next], row.spec, next, result)
  BY <1>0 DEF Becomes, Rows
<1>6. Becomes([row EXCEPT !.there = FALSE], row.spec, row.nextRun, row.result)
      /\ ~[row EXCEPT !.there = FALSE].there
  BY <1>0 DEF Becomes, Rows
<1> QED BY <1>1, <1>2, <1>3, <1>4, <1>5, <1>6

LEMMA WriteNext ==
  ASSUME Typed, NEW next \in Times, Write(WithNext(next))
  PROVE  RowTo(row.spec, next, row.result)
<1>1. Becomes([row EXCEPT !.nextRun = next], row.spec, next, row.result)
  BY RowEdits, RowParts, Zenon
<1> QED BY <1>1 DEF Write, WithNext, RowTo

LEMMA WriteSpec ==
  ASSUME Typed, NEW spec \in Specs, NEW e \in BOOLEAN,
         Write([row EXCEPT !.spec = spec, !.enabled = e])
  PROVE  RowTo(spec, row.nextRun, row.result)
<1>1. Becomes([row EXCEPT !.spec = spec, !.enabled = e], spec, row.nextRun, row.result)
  BY RowEdits, RowParts, Zenon
<1> QED BY <1>1 DEF Write, RowTo

LEMMA WriteMissed ==
  ASSUME Typed, Write(Missed)
  PROVE  RowTo(row.spec, None, "missed")
<1>1. None \in Times /\ "missed" \in Results
  BY DEF Times, Results
<1>2. Becomes([row EXCEPT !.fired = TRUE, !.result = "missed", !.nextRun = None],
              row.spec, None, "missed")
  BY <1>1, RowEdits, RowParts, Zenon
<1> QED BY <1>2 DEF Write, Missed, RowTo

LEMMA WriteDelivering ==
  ASSUME Typed, Write(Delivering)
  PROVE  /\ RowTo(row.spec, None, "delivering")
         /\ row'.there => row'.fired /\ row'.result = "delivering"
<1>1. None \in Times /\ "delivering" \in Results
  BY DEF Times, Results
<1>2. Becomes([row EXCEPT !.fired = TRUE, !.result = "delivering", !.nextRun = None],
              row.spec, None, "delivering")
      /\ [row EXCEPT !.fired = TRUE, !.result = "delivering", !.nextRun = None].fired
  BY <1>1, RowEdits, RowParts, Zenon
<1>3. (row' = row /\ ~row.there) \/ row' = Delivering
  BY DEF Write
<1>4. CASE row' = row /\ ~row.there
  BY <1>4 DEF RowTo
<1>5. CASE row' = Delivering
  BY <1>2, <1>5 DEF Delivering, RowTo, Becomes
<1> QED BY <1>3, <1>4, <1>5

LEMMA WriteResult ==
  ASSUME Typed, NEW result \in Results, Write(ReplaceResult(row, result))
  PROVE  RowTo(row.spec, row.nextRun, IF row.result = "delivering" THEN result ELSE row.result)
<1>1. Becomes([row EXCEPT !.result = result], row.spec, row.nextRun, result)
  BY RowEdits, RowParts, Zenon
<1>2. CASE row.result = "delivering"
  BY <1>1, <1>2 DEF Write, ReplaceResult, RowTo
<1>3. CASE row.result # "delivering"
  BY <1>3 DEF Write, ReplaceResult, RowTo
<1> QED BY <1>2, <1>3

LEMMA WriteFailed ==
  ASSUME Typed, Write([row EXCEPT !.result = "failed", !.nextRun = None])
  PROVE  RowTo(row.spec, None, "failed")
<1>1. None \in Times /\ "failed" \in Results
  BY DEF Times, Results
<1>2. Becomes([row EXCEPT !.result = "failed", !.nextRun = None], row.spec, None, "failed")
  BY <1>1, RowEdits, RowParts, Zenon
<1> QED BY <1>2 DEF Write, RowTo

LEMMA FireParts ==
  ASSUME Typed, NEW m \in Moments
  PROVE  /\ fire[m] \in Fires /\ fire[m].pc \in FireSteps /\ fire[m].spec \in SUBSET Moments
         /\ fire[m].result \in FireResults /\ fire[m].result \in Results
         /\ fire[m].next \in Times /\ fire[m].end \in {"done", "throw"}
         /\ jobs[m] \in Jobs
<1>1. fire[m] \in Fires /\ jobs[m] \in Jobs
  BY DEF Typed
<1>2. /\ fire[m].pc \in FireSteps /\ fire[m].spec \in SUBSET Moments
      /\ fire[m].result \in FireResults /\ fire[m].next \in Times
      /\ fire[m].end \in {"done", "throw"}
  BY <1>1 DEF Fires
<1>3. fire[m].result \in Results
  BY <1>2 DEF FireResults, Results
<1> QED BY <1>1, <1>2, <1>3

LEMMA NextAfterType ==
  ASSUME Typed, NEW m \in Moments
  PROVE  NextAfter(m) \in Times
<1>1. NextFireAt(fire[m].spec, now) \in Times
  BY FireParts, NextFireType
<1> QED BY <1>1, FireParts DEF NextAfter

LEMMA WriteStatus ==
  ASSUME Typed, NEW m \in Moments, Write(StatusWritten(m))
  PROVE  RowTo(row.spec, NextAfter(m), fire[m].result)
<1>0. row \in Rows /\ fire[m].result \in Results /\ NextAfter(m) \in Times
  BY RowParts, FireParts, NextAfterType
<1>1. PICK r, x : r = fire[m].result /\ x = NextAfter(m)
  OBVIOUS
<1>2. CASE r = "success" \/ row.kind = "once"
  <2>1. StatusWritten(m) = [row EXCEPT !.fired = TRUE, !.result = r, !.nextRun = x]
    BY <1>0, <1>1, <1>2 DEF StatusWritten, Rows
  <2>2. Becomes([row EXCEPT !.fired = TRUE, !.result = r, !.nextRun = x], row.spec, x, r)
    BY <1>0, <1>1, RowEdits, RowParts, Zenon
  <2> QED BY <1>1, <2>1, <2>2 DEF Write, RowTo
<1>3. CASE ~(r = "success" \/ row.kind = "once")
  <2>1. StatusWritten(m) = [row EXCEPT !.result = r, !.nextRun = x]
    BY <1>0, <1>1, <1>3 DEF StatusWritten, Rows
  <2>2. Becomes([row EXCEPT !.result = r, !.nextRun = x], row.spec, x, r)
    BY <1>0, <1>1, RowEdits, RowParts, Zenon
  <2> QED BY <1>1, <2>1, <2>2 DEF Write, RowTo
<1> QED BY <1>2, <1>3

---------------------------------------------------------------------------
(* The handlers *)

LeftFalls == left' \in [Disturbances -> Nat] /\ \A d \in Disturbances : left'[d] <= left[d]

LEMMA LeftSpent ==
  ASSUME Typed
  PROVE  /\ UNCHANGED left => LeftFalls
         /\ \A d \in Disturbances : Spend(d) => LeftFalls /\ left[d] > 0
<1>1. left \in [Disturbances -> Nat]
  BY DEF Typed
<1>2. UNCHANGED left => LeftFalls
  BY <1>1 DEF LeftFalls
<1>3. ASSUME NEW d \in Disturbances, Spend(d)
      PROVE  LeftFalls /\ left[d] > 0
  BY <1>1, <1>3 DEF Spend, LeftFalls
<1> QED BY <1>2, <1>3

(* F is what the handlers become when the one of m gets these parts. *)
FireAt(F, m, pc, spec, result, next) ==
  /\ F \in [Moments -> Fires] /\ \A j \in Moments \ {m} : F[j] = fire[j]
  /\ F[m].pc = pc /\ F[m].spec = spec /\ F[m].result = result /\ F[m].next = next

LEMMA FireEdits ==
  ASSUME Typed, NEW m \in Moments, NEW pc \in FireSteps, NEW spec \in SUBSET Moments,
         NEW result \in FireResults, NEW next \in Times, NEW end \in {"done", "throw"}
  PROVE  /\ FireAt([fire EXCEPT ![m].pc = pc], m, pc, fire[m].spec, fire[m].result, fire[m].next)
         /\ FireAt([fire EXCEPT ![m].pc = pc, ![m].spec = spec], m, pc, spec, fire[m].result,
                   fire[m].next)
         /\ FireAt([fire EXCEPT ![m].spec = spec, ![m].pc = pc, ![m].result = result], m, pc, spec,
                   result, fire[m].next)
         /\ FireAt([fire EXCEPT ![m].pc = pc, ![m].result = result], m, pc, fire[m].spec, result,
                   fire[m].next)
         /\ FireAt([fire EXCEPT ![m].pc = pc, ![m].next = next], m, pc, fire[m].spec,
                   fire[m].result, next)
         /\ FireAt([fire EXCEPT ![m].pc = pc, ![m].result = result, ![m].next = next], m, pc,
                   fire[m].spec, result, next)
         /\ FireAt([fire EXCEPT ![m].pc = pc, ![m].result = result, ![m].next = next,
                                ![m].end = end], m, pc, fire[m].spec, result, next)
         /\ FireAt([fire EXCEPT ![m] = NoFire], m, "idle", {}, None, None)
<1>0. fire \in [Moments -> Fires] /\ fire[m] \in Fires
  BY DEF Typed
<1>1. FireAt([fire EXCEPT ![m].pc = pc], m, pc, fire[m].spec, fire[m].result, fire[m].next)
  BY <1>0 DEF FireAt, Fires
<1>2. FireAt([fire EXCEPT ![m].pc = pc, ![m].spec = spec], m, pc, spec, fire[m].result,
             fire[m].next)
  BY <1>0 DEF FireAt, Fires
<1>3. FireAt([fire EXCEPT ![m].spec = spec, ![m].pc = pc, ![m].result = result], m, pc, spec,
             result, fire[m].next)
  BY <1>0 DEF FireAt, Fires
<1>4. FireAt([fire EXCEPT ![m].pc = pc, ![m].result = result], m, pc, fire[m].spec, result,
             fire[m].next)
  BY <1>0 DEF FireAt, Fires
<1>5. FireAt([fire EXCEPT ![m].pc = pc, ![m].next = next], m, pc, fire[m].spec,
             fire[m].result, next)
  BY <1>0 DEF FireAt, Fires
<1>6. FireAt([fire EXCEPT ![m].pc = pc, ![m].result = result, ![m].next = next], m, pc,
             fire[m].spec, result, next)
  BY <1>0 DEF FireAt, Fires
<1>7. FireAt([fire EXCEPT ![m].pc = pc, ![m].result = result, ![m].next = next,
                          ![m].end = end], m, pc, fire[m].spec, result, next)
  BY <1>0 DEF FireAt, Fires
<1>8. NoFire \in Fires /\ NoFire.pc = "idle" /\ NoFire.spec = {} /\ NoFire.result = None
      /\ NoFire.next = None
  BY DEF NoFire, Fires, FireSteps, FireResults, Times
<1>9. FireAt([fire EXCEPT ![m] = NoFire], m, "idle", {}, None, None)
  BY <1>0, <1>8 DEF FireAt
<1> QED BY <1>1, <1>2, <1>3, <1>4, <1>5, <1>6, <1>7, <1>9

(* The job of m comes to one of these states. *)
JobAt(J, m, S) ==
  /\ J \in [Moments -> Jobs] /\ (\A j \in Moments \ {m} : J[j] = jobs[j]) /\ J[m].st \in S

Over == {"done", "pending", "failed"}

FEnds(m) ==
  fire[m].pc # "idle" /\ FireAt(fire', m, "idle", {}, None, None) /\ JobAt(jobs', m, Over)

FGoes(m, pc, spec, result, next) ==
  /\ fire[m].pc # "idle" /\ pc # "idle"
  /\ FireAt(fire', m, pc, spec, result, next) /\ jobs' = jobs

LEMMA EndsFacts ==
  ASSUME Typed, NEW m \in Moments, NEW how \in {"done", "stall", "throw"}, Ends(m, how),
         fire[m].pc # "idle"
  PROVE  FEnds(m)
<1>1. fire' = [fire EXCEPT ![m] = NoFire] /\ jobs' = [jobs EXCEPT ![m] = Ended(@, how)]
  BY DEF Ends
<1>2. FireAt(fire', m, "idle", {}, None, None)
  <2>1. "idle" \in FireSteps /\ {} \in SUBSET Moments /\ None \in FireResults /\ None \in Times
        /\ "done" \in {"done", "throw"}
    BY DEF FireSteps, FireResults, Times
  <2> QED BY <1>1, <2>1, FireEdits, Zenon
<1>3. jobs \in [Moments -> Jobs] /\ jobs[m] \in Jobs
  BY DEF Typed
<1>4. PICK j \in Jobs : j = Ended(jobs[m], how) /\ j.st \in Over
  BY <1>3, EndedFacts DEF Over
<1>5. jobs' = [jobs EXCEPT ![m] = j]
  BY <1>1, <1>4
<1>6. JobAt(jobs', m, Over)
  BY <1>3, <1>4, <1>5 DEF JobAt
<1> QED BY <1>2, <1>6 DEF FEnds

(* What a step of the handler of m does, by what it comes to. *)
Begins(m) ==
  /\ jobs[m].st = "pending" /\ m <= now /\ JobAt(jobs', m, {"active"})
  /\ FireAt(fire', m, "read", fire[m].spec, fire[m].result, fire[m].next)
  /\ UNCHANGED <<row, events>>

Stops(m) == FEnds(m) /\ UNCHANGED <<row, events>>

Notes(m) ==
  /\ FEnds(m) /\ UNCHANGED events
  /\ \/ fire[m].pc = "missed" /\ RowTo(row.spec, None, "missed")
     \/ fire[m].pc = "write" /\ RowTo(row.spec, NextAfter(m), fire[m].result)

LooksAt(m) ==
  /\ row.kind = "once" /\ row.there /\ fire[m].pc = "read" /\ OnceFireAction # "drop"
  /\ FGoes(m, OnceFireAction, row.spec, fire[m].result, fire[m].next)
  /\ UNCHANGED <<row, events>>

Proceeds(m) ==
  /\ row.kind = "once" /\ fire[m].pc = "payload"
  /\ UNCHANGED <<row, events>>
  /\ \/ FGoes(m, "commit", fire[m].spec, fire[m].result, fire[m].next)
     \/ limited /\ \E next \in Times :
                     FGoes(m, "wait", fire[m].spec, fire[m].result, next)

(* A one-time task looks whether its agent is disabled. *)
Asks(m) ==
  /\ row.kind = "once" /\ fire[m].pc = "disabled"
  /\ UNCHANGED <<row, events>>
  /\ \E pc \in {"missed", "payload"} :
       FGoes(m, pc, fire[m].spec, fire[m].result, fire[m].next)

GivesUp(m) ==
  /\ \E next \in Times : /\ row.kind = "once" => next = None
                         /\ FGoes(m, "write", fire[m].spec, "failed", next)
  /\ fire[m].pc \in {"payload", "wait", "ensure", "commit", "poke", "remove", "add"}
  /\ UNCHANGED <<row, events>>

Recurs(m) ==
  /\ row.kind = "cron"
  /\ \E pc \in RecurringSteps, spec \in Specs,
        result \in FireResults, next \in Times : FGoes(m, pc, spec, result, next)
  /\ UNCHANGED events
  /\ \/ UNCHANGED row
     \/ RowTo(row.spec, NextAfter(m), fire[m].result) /\ fire[m].pc = "write"

Commits(m) ==
  /\ fire[m].pc = "commit" /\ events' = Committed(m)
  /\ FGoes(m, "poke", fire[m].spec, fire[m].result, fire[m].next)
  /\ IF row.kind = "once" THEN Write(Delivering) ELSE UNCHANGED row

Waits(m) ==
  /\ fire[m].pc = "wait" /\ RowTo(row.spec, fire[m].next, row.result)
  /\ FGoes(m, "ensure", fire[m].spec, fire[m].result, fire[m].next)
  /\ UNCHANGED events

Arms(m) ==
  /\ fire[m].pc \in {"ensure", "add"} /\ FireAt(fire', m, "idle", {}, None, None)
  /\ jobs' \in [Moments -> Jobs] /\ jobs'[m].st \in Over
  /\ \A j \in Moments \ {m} : jobs'[j].st = "active" <=> jobs[j].st = "active"
  /\ UNCHANGED <<row, events>>

Clears(m) ==
  /\ fire[m].pc = "remove"
  /\ FireAt(fire', m, "add", fire[m].spec, fire[m].result, fire[m].next)
  /\ jobs' \in [Moments -> Jobs]
  /\ \A j \in Moments : jobs'[j].st = "active" <=> jobs[j].st = "active"
  /\ UNCHANGED <<row, events>>

Handled(m) ==
  /\ \/ Begins(m) \/ Stops(m) \/ Notes(m) \/ LooksAt(m) \/ Asks(m) \/ Proceeds(m)
     \/ GivesUp(m) \/ Recurs(m) \/ Commits(m) \/ Waits(m) \/ Arms(m) \/ Clears(m)
  /\ LeftFalls /\ UNCHANGED <<now, agent, limited>>

(* The handler of m takes on this shape, and its job stays. *)
LEMMA FGoesFrom ==
  ASSUME Typed, NEW m \in Moments, fire[m].pc # "idle", NEW pc \in FireSteps \ {"idle"},
         NEW spec, NEW result, NEW next, UNCHANGED jobs,
         FireAt(fire', m, pc, spec, result, next)
  PROVE  FGoes(m, pc, spec, result, next)
BY DEF FGoes

LEMMA FireReadKinds ==
  ASSUME Typed, FiresKept, NEW m \in Moments, FireRead(m)
  PROVE  Handled(m)
<1>0. fire[m].pc = "read" /\ fire[m].pc # "idle" /\ UNCHANGED <<now, row, events, left, agent, limited>>
  BY DEF FireRead
<1>1. LeftFalls
  BY <1>0, LeftSpent
<1>2. row.spec \in Specs /\ row.spec \in SUBSET Moments
  BY RowParts DEF Specs
<1>3. ASSUME Ends(m, "done") PROVE Handled(m)
  <2>1. FEnds(m)
    BY <1>0, <1>3, EndsFacts
  <2> QED BY <1>0, <1>1, <2>1 DEF Handled, Stops
<1>4. CASE /\ row.there /\ row.enabled /\ row.kind = "once" /\ OnceFireAction # "drop"
           /\ fire' = [fire EXCEPT ![m].pc = OnceFireAction, ![m].spec = row.spec]
           /\ UNCHANGED jobs
  <2>1. OnceFireAction \in FireSteps \ {"idle"}
    BY <1>4 DEF OnceFireAction, FireSteps
  <2>2. FireAt(fire', m, OnceFireAction, row.spec, fire[m].result, fire[m].next)
    BY <1>2, <1>4, <2>1, FireEdits, FireParts, ZenonT(60)
  <2>3. FGoes(m, OnceFireAction, row.spec, fire[m].result, fire[m].next)
    BY <1>0, <1>4, <2>1, <2>2, FGoesFrom
  <2>4. LooksAt(m)
    BY <1>0, <1>4, <2>3 DEF LooksAt
  <2> QED BY <1>0, <1>1, <2>4 DEF Handled
<1>5. CASE /\ row.there /\ row.enabled /\ row.kind = "cron"
           /\ fire' = [fire EXCEPT ![m].pc = "onboarding", ![m].spec = row.spec]
           /\ UNCHANGED jobs
  <2>1. "onboarding" \in FireSteps \ {"idle"} /\ "onboarding" \in RecurringSteps
    BY DEF FireSteps, RecurringSteps
  <2>2. FireAt(fire', m, "onboarding", row.spec, fire[m].result, fire[m].next)
    BY <1>2, <1>5, <2>1, FireEdits, FireParts, ZenonT(60)
  <2>3. FGoes(m, "onboarding", row.spec, fire[m].result, fire[m].next)
    BY <1>0, <1>5, <2>1, <2>2, FGoesFrom
  <2>4. Recurs(m)
    BY <1>0, <1>2, <1>5, <2>1, <2>3, FireParts, Zenon DEF Recurs
  <2> QED BY <1>0, <1>1, <2>4 DEF Handled
<1> QED BY <1>3, <1>4, <1>5 DEF FireRead

LEMMA FireAsksOnboardingKinds ==
  ASSUME Typed, FiresKept, SpecsKept, NEW m \in Moments, FireAsksOnboarding(m)
  PROVE  Handled(m)
<1>0. /\ fire[m].pc = "onboarding" /\ fire[m].pc # "idle" /\ row.kind = "cron"
      /\ UNCHANGED <<now, row, jobs, events, left, agent, limited>>
  BY RowParts DEF FireAsksOnboarding, FiresKept, scheduleVars
<1>1. LeftFalls
  BY <1>0, LeftSpent
<1>2. fire[m].spec \in Specs
  BY <1>0 DEF SpecsKept
<1>3. PICK pc : pc = IF agent = "onboarding" THEN "write" ELSE "disabled"
  OBVIOUS
<1>4. PICK result : result = IF agent = "onboarding" THEN "held" ELSE fire[m].result
  OBVIOUS
<1>5. pc \in FireSteps \ {"idle"} /\ pc \in RecurringSteps /\ result \in FireResults
  BY <1>3, <1>4, FireParts DEF FireSteps, RecurringSteps, FireResults
<1>6. fire' = [fire EXCEPT ![m].pc = pc, ![m].result = result]
  BY <1>3, <1>4 DEF FireAsksOnboarding, Typed
<1>7. FireAt(fire', m, pc, fire[m].spec, result, fire[m].next)
  BY <1>5, <1>6, FireEdits, FireParts, ZenonT(60)
<1>8. FGoes(m, pc, fire[m].spec, result, fire[m].next)
  BY <1>0, <1>5, <1>7, FGoesFrom
<1>9. Recurs(m)
  BY <1>0, <1>2, <1>5, <1>8, FireParts, Zenon DEF Recurs
<1> QED BY <1>0, <1>1, <1>9 DEF Handled

LEMMA FireAsksDisabledKinds ==
  ASSUME Typed, SpecsKept, NEW m \in Moments, FireAsksDisabled(m)
  PROVE  Handled(m)
<1>0. /\ fire[m].pc = "disabled" /\ fire[m].pc # "idle" /\ row.kind \in {"cron", "once"}
      /\ UNCHANGED <<now, row, jobs, events, left, agent, limited>>
  BY RowParts DEF FireAsksDisabled, scheduleVars
<1>1. LeftFalls
  BY <1>0, LeftSpent
<1>2. fire[m].spec \in Specs
  BY <1>0 DEF SpecsKept
<1>3. PICK pc : pc = IF agent # "disabled" THEN "payload"
                     ELSE IF row.kind = "once" THEN "missed" ELSE "write"
  OBVIOUS
<1>4. PICK result : result = IF agent = "disabled" /\ row.kind = "cron" THEN "held"
                             ELSE fire[m].result
  OBVIOUS
<1>5. pc \in FireSteps \ {"idle"} /\ result \in FireResults
  BY <1>3, <1>4, FireParts DEF FireSteps, FireResults
<1>6. fire' = [fire EXCEPT ![m].pc = pc, ![m].result = result]
  BY <1>3, <1>4 DEF FireAsksDisabled, Typed
<1>7. FireAt(fire', m, pc, fire[m].spec, result, fire[m].next)
  BY <1>5, <1>6, FireEdits, FireParts, ZenonT(60)
<1>8. FGoes(m, pc, fire[m].spec, result, fire[m].next)
  BY <1>0, <1>5, <1>7, FGoesFrom
<1>9. CASE row.kind = "once"
  <2>1. pc \in {"missed", "payload"} /\ result = fire[m].result
    BY <1>3, <1>4, <1>9
  <2>2. Asks(m)
    BY <1>0, <1>8, <1>9, <2>1, Zenon DEF Asks
  <2> QED BY <1>0, <1>1, <2>2 DEF Handled
<1>10. CASE row.kind = "cron"
  <2>1. pc \in RecurringSteps
    BY <1>3, <1>10 DEF RecurringSteps
  <2>2. Recurs(m)
    BY <1>0, <1>2, <1>5, <1>8, <1>10, <2>1, FireParts, Zenon DEF Recurs
  <2> QED BY <1>0, <1>1, <2>2 DEF Handled
<1> QED BY <1>0, <1>9, <1>10

LEMMA FireBeginsKinds ==
  ASSUME Typed, FiresKept, NEW m \in Moments, FireBegins(m)
  PROVE  Handled(m)
<1>0. jobs[m].st = "pending" /\ m <= now /\ UNCHANGED <<now, row, events, left, agent, limited>>
      /\ jobs' = [jobs EXCEPT ![m] = Started(@)] /\ fire' = [fire EXCEPT ![m].pc = "read"]
  BY DEF FireBegins, Goto
<1>1. LeftFalls
  BY <1>0, LeftSpent
<1>2. jobs \in [Moments -> Jobs] /\ jobs[m] \in Jobs
  BY DEF Typed
<1>3. PICK j \in Jobs : j = Started(jobs[m]) /\ j.st = "active"
  BY <1>2, StartedFacts
<1>4. JobAt(jobs', m, {"active"})
  BY <1>0, <1>2, <1>3 DEF JobAt
<1>5. "read" \in FireSteps
  BY DEF FireSteps
<1>6. FireAt(fire', m, "read", fire[m].spec, fire[m].result, fire[m].next)
  BY <1>0, <1>5, FireEdits, FireParts, ZenonT(60)
<1>7. Begins(m)
  BY <1>0, <1>4, <1>6 DEF Begins
<1> QED BY <1>0, <1>1, <1>7 DEF Handled

LEMMA FireMissesKinds ==
  ASSUME Typed, FiresKept, NEW m \in Moments, FireMisses(m)
  PROVE  Handled(m)
<1>0. /\ fire[m].pc = "missed" /\ fire[m].pc # "idle" /\ UNCHANGED <<now, events, left, agent, limited>>
      /\ Ends(m, "done") /\ Write(Missed)
  BY DEF FireMisses
<1>1. LeftFalls
  BY <1>0, LeftSpent
<1>2. FEnds(m)
  BY <1>0, EndsFacts
<1>3. RowTo(row.spec, None, "missed")
  BY <1>0, WriteMissed
<1>4. Notes(m)
  BY <1>0, <1>2, <1>3 DEF Notes
<1> QED BY <1>0, <1>1, <1>4 DEF Handled

LEMMA FirePayloadKinds ==
  ASSUME Typed, SpecsKept, NEW m \in Moments, FirePayload(m)
  PROVE  Handled(m)
<1>0. /\ fire[m].pc = "payload" /\ fire[m].pc # "idle"
      /\ UNCHANGED <<now, row, jobs, events, left, agent, limited>>
  BY DEF FirePayload, scheduleVars
<1>1. LeftFalls
  BY <1>0, LeftSpent
<1>2. fire[m].spec \in Specs /\ fire[m].spec \in SUBSET Moments
  BY <1>0 DEF SpecsKept, Specs
<1>3. row.kind \in {"cron", "once"}
  BY RowParts
<1>4. PICK pc : pc = IF ~limited THEN "commit" ELSE IF row.kind = "once" THEN "wait" ELSE "write"
  OBVIOUS
<1>5. PICK result :
        result = IF limited /\ row.kind = "cron" THEN "limit" ELSE fire[m].result
  OBVIOUS
<1>6. PICK next : next = IF limited /\ row.kind = "once"
                         THEN Min({NextMidnight(now), OnceExpiry(fire[m].spec)})
                         ELSE fire[m].next
  OBVIOUS
<1>7. pc \in FireSteps \ {"idle"} /\ result \in FireResults /\ next \in Times
  <2>1. now \in Moments
    BY DEF Typed
  <2>2. next \in Times
    BY <1>2, <1>6, <2>1, WaitType, FireParts
  <2>3. result \in FireResults
    BY <1>5, FireParts DEF FireResults
  <2> QED BY <1>4, <2>2, <2>3 DEF FireSteps
<1>8. fire' = [fire EXCEPT ![m].pc = pc, ![m].result = result, ![m].next = next]
  BY <1>4, <1>5, <1>6 DEF FirePayload, Typed
<1>9. FireAt(fire', m, pc, fire[m].spec, result, next)
  BY <1>2, <1>7, <1>8, FireEdits, FireParts, Zenon
<1>10. FGoes(m, pc, fire[m].spec, result, next)
  BY <1>0, <1>7, <1>9, FGoesFrom
<1>11. CASE row.kind = "once"
  <2>1. result = fire[m].result
    BY <1>5, <1>11
  <2>2. CASE limited
    <3>1. pc = "wait"
      BY <1>4, <1>11, <2>2
    <3> QED BY <1>0, <1>1, <1>7, <1>10, <1>11, <2>1, <2>2, <3>1, Zenon DEF Handled, Proceeds
  <2>3. CASE ~limited
    <3>1. pc = "commit" /\ next = fire[m].next
      BY <1>4, <1>6, <2>3
    <3> QED BY <1>0, <1>1, <1>10, <1>11, <2>1, <3>1, Zenon DEF Handled, Proceeds
  <2> QED BY <2>2, <2>3
<1>12. CASE row.kind = "cron"
  <2>1. pc \in RecurringSteps
    BY <1>4, <1>12 DEF RecurringSteps
  <2>2. Recurs(m)
    BY <1>0, <1>2, <1>7, <1>10, <1>12, <2>1, Zenon DEF Recurs
  <2> QED BY <1>0, <1>1, <2>2 DEF Handled
<1> QED BY <1>3, <1>11, <1>12

LEMMA FireWaitsKinds ==
  ASSUME Typed, NEW m \in Moments, FireWaits(m)
  PROVE  Handled(m)
<1>0. /\ fire[m].pc = "wait" /\ fire[m].pc # "idle"
      /\ UNCHANGED <<now, jobs, events, left, agent, limited>>
      /\ fire' = [fire EXCEPT ![m].pc = "ensure"] /\ Write(WithNext(fire[m].next))
  BY DEF FireWaits, Goto
<1>1. LeftFalls
  BY <1>0, LeftSpent
<1>2. RowTo(row.spec, fire[m].next, row.result)
  BY <1>0, WriteNext, FireParts
<1>3. "ensure" \in FireSteps \ {"idle"}
  BY DEF FireSteps
<1>4. FireAt(fire', m, "ensure", fire[m].spec, fire[m].result, fire[m].next)
  BY <1>0, <1>3, FireEdits, FireParts, ZenonT(60)
<1>5. FGoes(m, "ensure", fire[m].spec, fire[m].result, fire[m].next)
  BY <1>0, <1>3, <1>4, FGoesFrom
<1> QED BY <1>0, <1>1, <1>2, <1>5 DEF Handled, Waits

LEMMA FireCommitsKinds ==
  ASSUME Typed, NEW m \in Moments, FireCommits(m)
  PROVE  Handled(m)
<1>0. /\ fire[m].pc = "commit" /\ fire[m].pc # "idle"
      /\ UNCHANGED <<now, jobs, left, agent, limited>> /\ events' = Committed(m)
      /\ fire' = [fire EXCEPT ![m].pc = "poke"]
      /\ IF row.kind = "once" THEN Write(Delivering) ELSE UNCHANGED row
  BY DEF FireCommits, Goto
<1>1. LeftFalls
  BY <1>0, LeftSpent
<1>2. "poke" \in FireSteps \ {"idle"}
  BY DEF FireSteps
<1>3. FireAt(fire', m, "poke", fire[m].spec, fire[m].result, fire[m].next)
  BY <1>0, <1>2, FireEdits, FireParts, ZenonT(60)
<1>4. FGoes(m, "poke", fire[m].spec, fire[m].result, fire[m].next)
  BY <1>0, <1>2, <1>3, FGoesFrom
<1>5. Commits(m)
  BY <1>0, <1>4 DEF Commits
<1> QED BY <1>0, <1>1, <1>5 DEF Handled

LEMMA FirePokesKinds ==
  ASSUME Typed, SpecsKept, NEW m \in Moments, FirePokes(m)
  PROVE  Handled(m)
<1>0. fire[m].pc = "poke" /\ fire[m].pc # "idle" /\ UNCHANGED <<now, row, events, left, agent, limited>>
  BY DEF FirePokes
<1>1. LeftFalls
  BY <1>0, LeftSpent
<1>2. row.kind \in {"cron", "once"}
  BY RowParts
<1>3. CASE row.kind = "once"
  <2>1. FEnds(m)
    BY <1>0, <1>3, EndsFacts DEF FirePokes
  <2> QED BY <1>0, <1>1, <2>1 DEF Handled, Stops
<1>4. CASE row.kind = "cron"
  <2>1. "write" \in FireSteps \ {"idle"} /\ "success" \in FireResults
        /\ "write" \in RecurringSteps
    BY DEF FireSteps, RecurringSteps, FireResults
  <2>2. fire' = [fire EXCEPT ![m].pc = "write", ![m].result = "success"] /\ UNCHANGED jobs
    BY <1>4 DEF FirePokes
  <2>3. FireAt(fire', m, "write", fire[m].spec, "success", fire[m].next)
    BY <2>1, <2>2, FireEdits, FireParts, Zenon
  <2>4. FGoes(m, "write", fire[m].spec, "success", fire[m].next)
    BY <1>0, <2>1, <2>2, <2>3, FGoesFrom
  <2>5. fire[m].spec \in Specs
    BY <1>0 DEF SpecsKept
  <2>6. Recurs(m)
    BY <1>0, <1>4, <2>1, <2>4, <2>5, FireParts, Zenon DEF Recurs
  <2> QED BY <1>0, <1>1, <2>6 DEF Handled
<1> QED BY <1>2, <1>3, <1>4

LEMMA FailsFacts ==
  ASSUME Typed, NEW m \in Moments, NEW refused, Fails(m, refused), fire[m].pc # "idle"
  PROVE  \/ FEnds(m)
         \/ \E next \in Times : /\ row.kind = "once" => next = None
                                /\ FGoes(m, "write", fire[m].spec, "failed", next)
<1>1. CASE Ends(m, "throw")
  BY <1>1, EndsFacts
<1>2. ASSUME NEW next \in Times, NEW end \in {"done", "throw"}, row.kind = "once" => next = None,
             UNCHANGED jobs,
             fire' = [fire EXCEPT ![m].pc = "write", ![m].result = "failed", ![m].next = next,
                                  ![m].end = end]
      PROVE  \E x \in Times : /\ row.kind = "once" => x = None
                              /\ FGoes(m, "write", fire[m].spec, "failed", x)
  <2>1. "write" \in FireSteps \ {"idle"} /\ "failed" \in FireResults
    BY DEF FireSteps, FireResults
  <2>2. FireAt(fire', m, "write", fire[m].spec, "failed", next)
    BY <1>2, <2>1, FireEdits, FireParts, Zenon
  <2>3. FGoes(m, "write", fire[m].spec, "failed", next)
    BY <1>2, <2>1, <2>2, FGoesFrom
  <2> QED BY <1>2, <2>3
<1>3. CASE ~Ends(m, "throw")
  <2>1. PICK final : final = (LastAttempt(m) \/ refused)
    OBVIOUS
  <2>2. PICK next : next = IF row.kind = "cron" /\ ~final THEN m ELSE None
    OBVIOUS
  <2>3. PICK end : end = IF final THEN (IF LastAttempt(m) THEN "throw" ELSE "done") ELSE "throw"
    OBVIOUS
  <2>4. next \in Times /\ end \in {"done", "throw"} /\ (row.kind = "once" => next = None)
    BY <2>2, <2>3, MomentsAreNumbers DEF Times
  <2>5. UNCHANGED jobs /\ fire' = [fire EXCEPT ![m].pc = "write", ![m].result = "failed",
                                      ![m].next = next, ![m].end = end]
    BY <1>3, <2>1, <2>2, <2>3, Zenon DEF Fails
  <2> QED BY <1>2, <2>4, <2>5, Zenon
<1> QED BY <1>1, <1>3

LEMMA AfterWriteFacts ==
  ASSUME Typed, FiresKept, SpecsKept, NEW m \in Moments, AfterWrite(m), fire[m].pc = "write"
  PROVE  \/ FEnds(m)
         \/ /\ row.kind = "cron"
            /\ \E pc \in RecurringSteps, spec \in Specs,
                  result \in FireResults, next \in Times : FGoes(m, pc, spec, result, next)
<1>0. fire[m].pc # "idle"
  OBVIOUS
<1>1. CASE Rearms(m) /\ NextAfter(m) # None
  <2>1. fire' = [fire EXCEPT ![m].pc = "remove", ![m].next = NextAfter(m)] /\ UNCHANGED jobs
    BY <1>1 DEF AfterWrite
  <2>2. NextAfter(m) \in Times
    BY NextAfterType
  <2>3. "remove" \in FireSteps \ {"idle"} /\ "remove" \in RecurringSteps
    BY DEF FireSteps, RecurringSteps
  <2>4. FireAt(fire', m, "remove", fire[m].spec, fire[m].result, NextAfter(m))
    BY <2>1, <2>2, <2>3, FireEdits, FireParts, Zenon
  <2>5. FGoes(m, "remove", fire[m].spec, fire[m].result, NextAfter(m))
    BY <1>0, <2>1, <2>3, <2>4, FGoesFrom
  <2>6. fire[m].spec \in Specs
    BY DEF SpecsKept
  <2>7. row.kind = "cron"
    BY <1>1 DEF Rearms
  <2> QED BY <2>2, <2>3, <2>5, <2>6, <2>7, FireParts, Zenon
<1>2. CASE ~(Rearms(m) /\ NextAfter(m) # None)
  <2>1. Ends(m, fire[m].end)
    BY <1>2 DEF AfterWrite
  <2>2. fire[m].end \in {"done", "stall", "throw"}
    BY FireParts
  <2> QED BY <1>0, <2>1, <2>2, EndsFacts
<1> QED BY <1>1, <1>2

LEMMA FireWritesKinds ==
  ASSUME Typed, FiresKept, SpecsKept, NEW m \in Moments, FireWrites(m)
  PROVE  Handled(m)
<1>0. /\ fire[m].pc = "write" /\ UNCHANGED <<now, events, left, agent, limited>>
      /\ AfterWrite(m) /\ Write(StatusWritten(m))
  BY DEF FireWrites
<1>1. LeftFalls
  BY <1>0, LeftSpent
<1>2. RowTo(row.spec, NextAfter(m), fire[m].result)
  BY <1>0, WriteStatus
<1>3. CASE FEnds(m)
  <2>1. Notes(m)
    BY <1>0, <1>2, <1>3 DEF Notes
  <2> QED BY <1>0, <1>1, <2>1 DEF Handled
<1>4. CASE ~FEnds(m)
  <2>1. /\ row.kind = "cron"
        /\ \E pc \in RecurringSteps, spec \in Specs,
              result \in FireResults, next \in Times : FGoes(m, pc, spec, result, next)
    BY <1>0, <1>4, AfterWriteFacts, Zenon
  <2>2. Recurs(m)
    BY <1>0, <1>2, <2>1, Zenon DEF Recurs
  <2> QED BY <1>0, <1>1, <2>2 DEF Handled
<1> QED BY <1>3, <1>4

LEMMA FireWriteFailsKinds ==
  ASSUME Typed, FiresKept, SpecsKept, NEW m \in Moments, FireWriteFails(m)
  PROVE  Handled(m)
<1>0. /\ fire[m].pc = "write" /\ fire[m].pc # "idle" /\ UNCHANGED <<now, row, events, agent, limited>>
      /\ Spend("fail") /\ (Ends(m, "throw") \/ AfterWrite(m))
  BY DEF FireWriteFails
<1>1. LeftFalls
  BY <1>0, LeftSpent DEF Disturbances
<1>3. CASE FEnds(m)
  BY <1>0, <1>1, <1>3 DEF Handled, Stops
<1>4. CASE ~FEnds(m)
  <2>1. AfterWrite(m)
    BY <1>0, <1>4, EndsFacts
  <2>2. /\ row.kind = "cron"
        /\ \E pc \in RecurringSteps, spec \in Specs,
              result \in FireResults, next \in Times : FGoes(m, pc, spec, result, next)
    BY <1>0, <1>4, <2>1, AfterWriteFacts, Zenon
  <2>3. Recurs(m)
    BY <1>0, <2>2, Zenon DEF Recurs
  <2> QED BY <1>0, <1>1, <2>3 DEF Handled
<1> QED BY <1>3, <1>4

LEMMA FireFailsKinds ==
  ASSUME Typed, NEW m \in Moments,
         FireFails(m) \/ FireReadFails(m) \/ FireQueueFails(m) \/ FireDies(m)
  PROVE  Handled(m)
<1>0. fire[m].pc # "idle" /\ UNCHANGED <<now, row, events, agent, limited>>
  BY DEF FireFails, FireReadFails, FireQueueFails, FireDies
<1>1. LeftFalls
  BY LeftSpent DEF Disturbances, FireFails, FireReadFails, FireQueueFails, FireDies
<1>2. CASE FEnds(m)
  BY <1>0, <1>1, <1>2 DEF Handled, Stops
<1>3. CASE ~FEnds(m)
  <2>1. ~Ends(m, "throw") /\ ~Ends(m, "stall")
    BY <1>0, <1>3, EndsFacts
  <2>2. \E refused : Fails(m, refused)
    BY <2>1 DEF FireFails, FireReadFails, FireQueueFails, FireDies
  <2>3. fire[m].pc \in {"payload", "wait", "ensure", "commit", "poke", "remove", "add"}
    BY <2>1 DEF FireFails, FireReadFails, FireQueueFails, FireDies
  <2>4. \E next \in Times : /\ row.kind = "once" => next = None
                            /\ FGoes(m, "write", fire[m].spec, "failed", next)
    BY <1>0, <1>3, <2>2, FailsFacts, Zenon
  <2>5. GivesUp(m)
    BY <1>0, <2>3, <2>4, Zenon DEF GivesUp
  <2> QED BY <1>0, <1>1, <2>5 DEF Handled
<1> QED BY <1>2, <1>3

LEMMA RemovePendingFacts ==
  ASSUME Typed, RemovePending
  PROVE  /\ jobs' \in [Moments -> Jobs]
         /\ \A j \in Moments : jobs'[j] = jobs[j] \/ (jobs[j].st = "pending" /\ jobs'[j].st = "none")
<1>1. jobs \in [Moments -> Jobs]
  BY DEF Typed
<1>2. jobs' = [m \in Moments |-> IF jobs[m].st = "pending" THEN NoJob ELSE jobs[m]]
  BY DEF RemovePending
<1>3. PICK j \in Jobs : j = NoJob /\ j.st = "none"
  BY NoJobType
<1>4. jobs' = [m \in Moments |-> IF jobs[m].st = "pending" THEN j ELSE jobs[m]]
  BY <1>2, <1>3
<1>5. \A m \in Moments : /\ jobs'[m] \in Jobs
                         /\ jobs'[m] = jobs[m] \/ (jobs[m].st = "pending" /\ jobs'[m] = j)
  BY <1>1, <1>4
<1>6. jobs' \in [Moments -> Jobs]
  BY <1>4, <1>5
<1> QED BY <1>3, <1>5, <1>6

LEMMA FireRemovesKinds ==
  ASSUME Typed, NEW m \in Moments, FireRemoves(m)
  PROVE  Handled(m)
<1>0. /\ fire[m].pc = "remove" /\ UNCHANGED <<now, row, events, left, agent, limited>>
      /\ RemovePending /\ fire' = [fire EXCEPT ![m].pc = "add"]
  BY DEF FireRemoves, Goto
<1>1. LeftFalls
  BY <1>0, LeftSpent
<1>2. "add" \in FireSteps
  BY DEF FireSteps
<1>3. FireAt(fire', m, "add", fire[m].spec, fire[m].result, fire[m].next)
  BY <1>0, <1>2, FireEdits, FireParts, ZenonT(60)
<1>4. jobs' \in [Moments -> Jobs]
      /\ \A j \in Moments : jobs'[j].st = "active" <=> jobs[j].st = "active"
  BY <1>0, RemovePendingFacts
<1>5. Clears(m)
  BY <1>0, <1>3, <1>4 DEF Clears
<1> QED BY <1>0, <1>1, <1>5 DEF Handled

LEMMA FireArmsKinds ==
  ASSUME Typed, NEW m \in Moments, FireEnsures(m) \/ FireAdds(m)
  PROVE  Handled(m)
<1>0. /\ fire[m].pc \in {"ensure", "add"} /\ UNCHANGED <<now, row, events, left, agent, limited>>
      /\ fire' = [fire EXCEPT ![m] = NoFire]
  BY DEF FireEnsures, FireAdds
<1>1. LeftFalls
  BY <1>0, LeftSpent
<1>2. FireAt(fire', m, "idle", {}, None, None)
  <2>1. "idle" \in FireSteps /\ {} \in SUBSET Moments /\ None \in FireResults /\ None \in Times
        /\ "done" \in {"done", "throw"}
    BY DEF FireSteps, FireResults, Times
  <2> QED BY <1>0, <2>1, FireEdits, Zenon
<1>3. PICK how \in {"done", "throw"}, S \in {{"none"}, {"none", "failed"}} :
        jobs' = [j \in Moments |->
           IF j = m THEN Ended(jobs[m], how)
           ELSE IF j = fire[m].next /\ jobs[j].st \in S
                THEN [jobs[j] EXCEPT !.st = "pending"]
           ELSE jobs[j]]
  <2>1. CASE FireEnsures(m)
    <3>1. jobs' = [j \in Moments |->
           IF j = m THEN Ended(jobs[m], "done")
           ELSE IF j = fire[m].next /\ jobs[j].st \in {"none", "failed"}
                THEN [jobs[j] EXCEPT !.st = "pending"]
           ELSE jobs[j]]
      BY <2>1 DEF FireEnsures
    <3> QED BY <3>1, Zenon
  <2>2. CASE FireAdds(m)
    <3>1. jobs' = [j \in Moments |->
           IF j = m THEN Ended(jobs[m], fire[m].end)
           ELSE IF j = fire[m].next /\ jobs[j].st \in {"none"}
                THEN [jobs[j] EXCEPT !.st = "pending"]
           ELSE jobs[j]]
      BY <2>2 DEF FireAdds
    <3>2. fire[m].end \in {"done", "throw"}
      BY FireParts
    <3> QED BY <3>1, <3>2, Zenon
  <2> QED BY <2>1, <2>2
<1>4. \A j \in Moments : jobs[j] \in Jobs
  BY DEF Typed
<1>5. Ended(jobs[m], how) \in Jobs /\ Ended(jobs[m], how).st \in Over
  BY <1>4, EndedFacts DEF Over
<1>6. ASSUME NEW j \in Moments \ {m}
      PROVE  jobs'[j] \in Jobs /\ (jobs'[j].st = "active" <=> jobs[j].st = "active")
  <2>1. CASE j = fire[m].next /\ jobs[j].st \in S
    <3>1. jobs'[j] = [jobs[j] EXCEPT !.st = "pending"]
      BY <1>3, <2>1
    <3>2. jobs'[j] \in Jobs /\ jobs'[j].st = "pending"
      BY <1>4, <3>1, PendingType
    <3> QED BY <2>1, <3>2
  <2>2. CASE ~(j = fire[m].next /\ jobs[j].st \in S)
    BY <1>3, <1>4, <2>2
  <2> QED BY <2>1, <2>2
<1>7. jobs'[m] = Ended(jobs[m], how)
  BY <1>3
<1>8. jobs' \in [Moments -> Jobs]
  <2>1. jobs' = [j \in Moments |-> jobs'[j]]
    BY <1>3
  <2>2. \A j \in Moments : jobs'[j] \in Jobs
    BY <1>5, <1>6, <1>7
  <2> QED BY <2>1, <2>2
<1>9. Arms(m)
  BY <1>0, <1>2, <1>5, <1>6, <1>7, <1>8 DEF Arms
<1> QED BY <1>0, <1>1, <1>9 DEF Handled

(* Every step of a handler is of one of these kinds. *)
LEMMA HandlerKinds ==
  ASSUME Typed, SpecsKept, FiresKept, NEW m \in Moments, FireStep(m) \/ FireDisturbed(m)
  PROVE  Handled(m)
BY FireBeginsKinds, FireReadKinds, FireAsksOnboardingKinds, FireAsksDisabledKinds,
   FireMissesKinds, FirePayloadKinds, FireWaitsKinds, FireArmsKinds, FireCommitsKinds, FirePokesKinds, FireWritesKinds, FireRemovesKinds,
   FireFailsKinds, FireWriteFailsKinds, Zenon DEF FireStep, FireDisturbed

---------------------------------------------------------------------------
(* The shape of the state, step by step *)

Base == Typed /\ SpecsKept /\ FiresKept

RowOK ==
  /\ row' \in Rows /\ row'.kind = row.kind
  /\ row.kind = "cron" => row'.result \notin {"missed", "delivering"}
  /\ row.kind = "once" => row'.result \notin {"held", "limit"}

HandlerOK(f, j) ==
  /\ f.pc # "idle" <=> j.st = "active"
  /\ f.pc \notin {"idle", "read"} => f.spec \in Specs
  /\ row.kind = "cron" => f.pc \notin {"missed", "wait", "ensure"}
  /\ row.kind = "once" => /\ f.pc \notin {"onboarding", "remove", "add"} /\ f.result \in {None, "failed"}
                          /\ f.pc = "write" => f.result = "failed"

FiresOK ==
  /\ fire' \in [Moments -> Fires] /\ jobs' \in [Moments -> Jobs]
  /\ \A m \in Moments : HandlerOK(fire'[m], jobs'[m])

DesksOK ==
  /\ desk' \in [Desks -> Requests]
  /\ \A o \in Desks : desk'[o].pc = "spec" => desk'[o].spec \in Specs

RestOK ==
  /\ now' \in Moments /\ events' \in [Moments -> Sent] /\ left' \in [Disturbances -> Nat]
  /\ agent' \in {"ready", "onboarding", "disabled"} /\ limited' \in BOOLEAN
  /\ edits' \subseteq Specs
  /\ rec' \in [pc : {"idle", "missed", "write", "ensure"}, next : Times]
  /\ saga' \in {"idle", "claim", "remove", "add"}
  /\ notices' \subseteq [at : Moments, as : {"success", "missed"}]
  /\ row.kind = "cron" => rec'.pc # "missed"

LEMMA BaseFromParts ==
  ASSUME RowOK, FiresOK, DesksOK, RestOK, Typed
  PROVE  Base'
<1>1. Typed'
  BY DEF RowOK, FiresOK, DesksOK, RestOK, Typed
<1>2. SpecsKept'
  BY DEF FiresOK, HandlerOK, DesksOK, SpecsKept
<1>3. row'.kind = row.kind
  BY DEF RowOK
<1>4. FiresKept'
  BY <1>3 DEF RowOK, FiresOK, HandlerOK, RestOK, FiresKept
<1> QED BY <1>1, <1>2, <1>4 DEF Base

LEMMA HandlersNow ==
  ASSUME Base
  PROVE  \A m \in Moments : HandlerOK(fire[m], jobs[m])
<1>1. Typed /\ SpecsKept /\ FiresKept
  BY DEF Base
<1> QED BY <1>1 DEF SpecsKept, FiresKept, HandlerOK

LEMMA RestNow ==
  ASSUME Base
  PROVE  /\ UNCHANGED row => RowOK
         /\ UNCHANGED <<fire, jobs>> => FiresOK
         /\ UNCHANGED desk => DesksOK
         /\ UNCHANGED <<now, events, left, agent, limited, edits, rec, saga, notices>> => RestOK
<1>1. Typed /\ SpecsKept /\ FiresKept
  BY DEF Base
<1>2. UNCHANGED row => RowOK
  BY <1>1 DEF RowOK, Typed, FiresKept
<1>3. UNCHANGED <<fire, jobs>> => FiresOK
  BY <1>1, HandlersNow DEF FiresOK, Typed
<1>4. UNCHANGED desk => DesksOK
  BY <1>1 DEF DesksOK, Typed, SpecsKept
<1>5. UNCHANGED <<now, events, left, agent, limited, edits, rec, saga, notices>> => RestOK
  BY <1>1 DEF RestOK, Typed, FiresKept
<1> QED BY <1>2, <1>3, <1>4, <1>5

LEMMA JobsMove ==
  ASSUME Base, UNCHANGED fire, jobs' \in [Moments -> Jobs],
         \A j \in Moments : jobs'[j].st = "active" <=> jobs[j].st = "active"
  PROVE  FiresOK
<1>1. fire' \in [Moments -> Fires]
  BY DEF Base, Typed
<1>2. ASSUME NEW m \in Moments PROVE HandlerOK(fire'[m], jobs'[m])
  <2>1. HandlerOK(fire[m], jobs[m])
    BY HandlersNow
  <2> QED BY <2>1 DEF HandlerOK
<1> QED BY <1>1, <1>2 DEF FiresOK

LEMMA OneHandlerMoves ==
  ASSUME Base, NEW m \in Moments, NEW pc, NEW spec, NEW result, NEW next,
         FireAt(fire', m, pc, spec, result, next), jobs' \in [Moments -> Jobs],
         \A j \in Moments \ {m} : jobs'[j].st = "active" <=> jobs[j].st = "active",
         pc # "idle" <=> jobs'[m].st = "active",
         pc \notin {"idle", "read"} => spec \in Specs,
         row.kind = "cron" => pc \notin {"missed", "wait", "ensure"},
         row.kind = "once" => /\ pc \notin {"onboarding", "remove", "add"} /\ result \in {None, "failed"}
                              /\ pc = "write" => result = "failed"
  PROVE  FiresOK
<1>1. fire' \in [Moments -> Fires]
  BY DEF FireAt
<1>2. ASSUME NEW j \in Moments PROVE HandlerOK(fire'[j], jobs'[j])
  <2>1. CASE j = m
    <3>1. fire'[j].pc = pc /\ fire'[j].spec = spec /\ fire'[j].result = result
      BY <2>1 DEF FireAt
    <3> QED BY <2>1, <3>1 DEF HandlerOK
  <2>2. CASE j # m
    <3>1. fire'[j] = fire[j] /\ HandlerOK(fire[j], jobs[j])
      BY <2>2, HandlersNow DEF FireAt
    <3> QED BY <2>2, <3>1 DEF HandlerOK
  <2> QED BY <2>1, <2>2
<1> QED BY <1>1, <1>2 DEF FiresOK

LEMMA EndsOK ==
  ASSUME Base, NEW m \in Moments, FEnds(m)
  PROVE  FiresOK
<1>1. FireAt(fire', m, "idle", {}, None, None) /\ jobs' \in [Moments -> Jobs]
  BY DEF FEnds, JobAt
<1>2. /\ \A j \in Moments \ {m} : jobs'[j].st = "active" <=> jobs[j].st = "active"
      /\ jobs'[m].st # "active"
  BY DEF FEnds, JobAt, Over
<1> QED BY <1>1, <1>2, OneHandlerMoves

LEMMA GoesOK ==
  ASSUME Base, NEW m \in Moments, NEW pc, NEW spec, NEW result, NEW next,
         FGoes(m, pc, spec, result, next), spec \in Specs,
         row.kind = "cron" => pc \notin {"missed", "wait", "ensure"},
         row.kind = "once" => /\ pc \notin {"onboarding", "remove", "add"} /\ result \in {None, "failed"}
                              /\ pc = "write" => result = "failed"
  PROVE  FiresOK
<1>1. FireAt(fire', m, pc, spec, result, next) /\ jobs' = jobs /\ pc # "idle" /\ fire[m].pc # "idle"
  BY DEF FGoes
<1>2. jobs' \in [Moments -> Jobs] /\ jobs'[m].st = "active"
  <2>1. HandlerOK(fire[m], jobs[m])
    BY HandlersNow
  <2> QED BY <1>1, <2>1 DEF HandlerOK, Base, Typed
<1> QED BY <1>1, <1>2, OneHandlerMoves

LEMMA RowMoves ==
  ASSUME Base, NEW spec, NEW next, NEW result, RowTo(spec, next, result),
         row.kind = "cron" => result \notin {"missed", "delivering"},
         row.kind = "once" => result \notin {"held", "limit"}
  PROVE  RowOK
<1>1. CASE row' = row
  BY <1>1, RestNow
<1>2. CASE Becomes(row', spec, next, result)
  BY <1>2 DEF Becomes, RowOK
<1> QED BY <1>1, <1>2 DEF RowTo

LEMMA CommittedType ==
  ASSUME Base, NEW m \in Moments, fire[m].spec \in Specs
  PROVE  Committed(m) \in [Moments -> Sent]
<1>1. events \in [Moments -> Sent]
  BY DEF Base, Typed
<1>2. PICK x \in Times : x = IF row.kind = "once" THEN OnceExpiry(fire[m].spec) ELSE None
  BY AtIsAMoment DEF Times
<1>3. [st |-> "sent", exp |-> x] \in Sent
  BY <1>2 DEF Sent
<1>4. Committed(m) = events \/ Committed(m) = [events EXCEPT ![m] = [st |-> "sent", exp |-> x]]
  BY <1>2 DEF Committed
<1> QED BY <1>1, <1>3, <1>4

LEMMA HandledFires ==
  ASSUME Base, NEW m \in Moments, Handled(m)
  PROVE  FiresOK
<1>0. Typed /\ HandlerOK(fire[m], jobs[m])
  BY HandlersNow DEF Base
<1>1. /\ fire[m].pc \notin {"idle", "read"} => fire[m].spec \in Specs
      /\ row.kind = "cron" => fire[m].pc \notin {"missed", "wait", "ensure"}
      /\ row.kind = "once" => /\ fire[m].pc \notin {"onboarding", "remove", "add"}
                              /\ fire[m].result \in {None, "failed"}
                              /\ fire[m].pc = "write" => fire[m].result = "failed"
  BY <1>0 DEF HandlerOK
<1>2. CASE Begins(m)
  <2>1. /\ FireAt(fire', m, "read", fire[m].spec, fire[m].result, fire[m].next)
        /\ jobs' \in [Moments -> Jobs] /\ jobs'[m].st = "active"
        /\ \A j \in Moments \ {m} : jobs'[j].st = "active" <=> jobs[j].st = "active"
    BY <1>2 DEF Begins, JobAt
  <2> QED BY <1>1, <2>1, OneHandlerMoves
<1>3. CASE Stops(m) \/ Notes(m)
  BY <1>3, EndsOK DEF Stops, Notes
<1>4. CASE LooksAt(m)
  <2>1. OnceFireAction \in {"poke", "missed", "disabled"}
    BY <1>4 DEF LooksAt, OnceFireAction
  <2>2. row.spec \in Specs
    BY <1>0, RowParts
  <2>3. FGoes(m, OnceFireAction, row.spec, fire[m].result, fire[m].next) /\ row.kind = "once"
    BY <1>4 DEF LooksAt
  <2>4. PICK pc : pc = OnceFireAction
    OBVIOUS
  <2> QED BY <1>1, <2>1, <2>2, <2>3, <2>4, GoesOK
<1>11. CASE Asks(m)
  <2>1. row.kind = "once" /\ fire[m].spec \in Specs
    BY <1>1, <1>11 DEF Asks
  <2>2. PICK pc \in {"missed", "payload"} :
          FGoes(m, pc, fire[m].spec, fire[m].result, fire[m].next)
    BY <1>11 DEF Asks
  <2> QED BY <1>1, <2>1, <2>2, GoesOK
<1>5. CASE Proceeds(m)
  <2>1. row.kind = "once" /\ fire[m].spec \in Specs
    BY <1>1, <1>5 DEF Proceeds
  <2>2. PICK pc \in {"commit", "wait"}, next \in Times :
          FGoes(m, pc, fire[m].spec, fire[m].result, next)
    BY <1>0, <1>5, FireParts, Zenon DEF Proceeds
  <2> QED BY <1>1, <2>1, <2>2, GoesOK
<1>6. CASE GivesUp(m)
  <2>1. fire[m].spec \in Specs
    BY <1>1, <1>6 DEF GivesUp
  <2>2. PICK next \in Times : FGoes(m, "write", fire[m].spec, "failed", next)
    BY <1>6 DEF GivesUp
  <2> QED BY <2>1, <2>2, GoesOK
<1>7. CASE Recurs(m)
  <2>1. PICK pc \in RecurringSteps, spec \in Specs,
             result \in FireResults, next \in Times : FGoes(m, pc, spec, result, next)
    BY <1>7, Zenon DEF Recurs
  <2>2. row.kind = "cron" /\ pc \notin {"missed", "wait", "ensure"}
    BY <1>7 DEF Recurs, RecurringSteps
  <2> QED BY <2>1, <2>2, GoesOK
<1>8. CASE Commits(m) \/ Waits(m)
  <2>1. fire[m].spec \in Specs
    BY <1>1, <1>8 DEF Commits, Waits
  <2>2. PICK pc \in {"poke", "ensure"} : /\ FGoes(m, pc, fire[m].spec, fire[m].result, fire[m].next)
                                         /\ row.kind = "cron" => pc # "ensure"
    BY <1>1, <1>8 DEF Commits, Waits
  <2> QED BY <1>1, <2>1, <2>2, GoesOK
<1>9. CASE Arms(m)
  <2>1. /\ FireAt(fire', m, "idle", {}, None, None) /\ jobs' \in [Moments -> Jobs]
        /\ jobs'[m].st # "active"
        /\ \A j \in Moments \ {m} : jobs'[j].st = "active" <=> jobs[j].st = "active"
    BY <1>9 DEF Arms, Over
  <2> QED BY <2>1, OneHandlerMoves
<1>10. CASE Clears(m)
  <2>1. /\ FireAt(fire', m, "add", fire[m].spec, fire[m].result, fire[m].next)
        /\ jobs' \in [Moments -> Jobs] /\ fire[m].pc = "remove"
        /\ \A j \in Moments : jobs'[j].st = "active" <=> jobs[j].st = "active"
    BY <1>10 DEF Clears
  <2>2. jobs[m].st = "active" /\ row.kind # "once"
    BY <1>0, <1>1, <2>1 DEF HandlerOK
  <2> QED BY <1>1, <2>1, <2>2, OneHandlerMoves
<1> QED BY <1>2, <1>3, <1>4, <1>5, <1>6, <1>7, <1>8, <1>9, <1>10, <1>11 DEF Handled

LEMMA HandledRow ==
  ASSUME Base, NEW m \in Moments, Handled(m)
  PROVE  RowOK
<1>0. Typed /\ FiresKept /\ HandlerOK(fire[m], jobs[m]) /\ row.kind \in {"cron", "once"}
  BY HandlersNow, RowParts DEF Base
<1>1. CASE UNCHANGED row
  BY <1>1, RestNow
<1>2. CASE fire[m].pc = "missed" /\ RowTo(row.spec, None, "missed")
  <2>1. row.kind # "cron"
    BY <1>0, <1>2 DEF HandlerOK
  <2> QED BY <1>2, <2>1, RowMoves
<1>3. CASE fire[m].pc = "write" /\ RowTo(row.spec, NextAfter(m), fire[m].result)
  <2>1. fire[m].result \in FireResults
    BY <1>0, FireParts
  <2>2. /\ row.kind = "cron" => fire[m].result \notin {"missed", "delivering"}
        /\ row.kind = "once" => fire[m].result \notin {"held", "limit"}
    BY <1>0, <1>3, <2>1, ScheduleAssumption DEF HandlerOK, FireResults
  <2>3. PICK next, result : next = NextAfter(m) /\ result = fire[m].result
    OBVIOUS
  <2> QED BY <1>3, <2>2, <2>3, RowMoves
<1>4. CASE Waits(m)
  <2>1. /\ row.kind = "cron" => row.result \notin {"missed", "delivering"}
        /\ row.kind = "once" => row.result \notin {"held", "limit"}
    BY <1>0 DEF FiresKept
  <2> QED BY <1>4, <2>1, RowMoves DEF Waits
<1>5. CASE Commits(m) /\ row.kind = "once"
  <2>1. RowTo(row.spec, None, "delivering")
    BY <1>0, <1>5, WriteDelivering DEF Commits
  <2> QED BY <1>5, <2>1, RowMoves
<1> QED BY <1>0, <1>1, <1>2, <1>3, <1>4, <1>5
        DEF Handled, Begins, Stops, Notes, LooksAt, Asks, Proceeds, GivesUp, Recurs, Commits, Arms, Clears

LEMMA HandledBase ==
  ASSUME Base, NEW m \in Moments, Handled(m), UNCHANGED <<edits, desk, rec, saga, notices>>
  PROVE  Base'
<1>0. Typed /\ HandlerOK(fire[m], jobs[m])
  BY HandlersNow DEF Base
<1>1. events' \in [Moments -> Sent]
  <2>1. CASE UNCHANGED events
    BY <1>0, <2>1 DEF Typed
  <2>2. CASE Commits(m)
    <3>1. fire[m].spec \in Specs
      BY <1>0, <2>2 DEF HandlerOK, Commits
    <3>2. events' = Committed(m)
      BY <2>2 DEF Commits
    <3> QED BY <3>1, <3>2, CommittedType
  <2> QED BY <2>1, <2>2
          DEF Handled, Begins, Stops, Notes, LooksAt, Asks, Proceeds, GivesUp, Recurs, Waits, Arms, Clears
<1>2. left' \in [Disturbances -> Nat] /\ UNCHANGED <<now, agent, limited>>
  BY DEF Handled, LeftFalls
<1>3. RestOK
  BY <1>0, <1>1, <1>2 DEF RestOK, Typed, Base, FiresKept
<1>4. DesksOK
  BY RestNow
<1> QED BY <1>0, <1>3, <1>4, HandledFires, HandledRow, BaseFromParts

---------------------------------------------------------------------------
(* The queue and the desks *)

(* Only jobs that are not active change, and one that is armed is that of x. *)
QueueMoves(x) ==
  /\ jobs' \in [Moments -> Jobs]
  /\ \A j \in Moments :
       \/ jobs'[j] = jobs[j]
       \/ jobs[j].st # "active" /\ jobs'[j].st = "none"
       \/ j = x /\ jobs[j].st \in {"none", "failed"} /\ jobs'[j].st = "pending"

LEMMA QueueFacts ==
  ASSUME Base, NEW x, RemovePending \/ Add(x) \/ Ensure(x) \/ UNCHANGED jobs
  PROVE  QueueMoves(x)
<1>0. jobs \in [Moments -> Jobs] /\ Typed
  BY DEF Base, Typed
<1>1. CASE RemovePending
  BY <1>0, <1>1, RemovePendingFacts DEF QueueMoves
<1>2. CASE UNCHANGED jobs
  BY <1>0, <1>2 DEF QueueMoves
<1>3. CASE ~UNCHANGED jobs /\ (Add(x) \/ Ensure(x))
  <2>1. jobs' = [jobs EXCEPT ![x].st = "pending"] /\ jobs[x].st \in {"none", "failed"}
    BY <1>3 DEF Add, Ensure
  <2>2. x \in Moments
    BY <1>0, <1>3, <2>1
  <2>3. PICK j \in Jobs : j = [jobs[x] EXCEPT !.st = "pending"] /\ j.st = "pending"
    BY <1>0, <2>2, PendingType
  <2>4. jobs' = [jobs EXCEPT ![x] = j]
    BY <1>0, <2>1, <2>2, <2>3
  <2> QED BY <1>0, <2>1, <2>2, <2>3, <2>4 DEF QueueMoves
<1> QED BY <1>1, <1>2, <1>3

LEMMA QueueOK ==
  ASSUME Base, NEW x, QueueMoves(x), UNCHANGED fire
  PROVE  FiresOK
BY JobsMove DEF QueueMoves

(* The request at o takes on these parts. *)
DeskAt(o, pc, spec, next) ==
  /\ desk' \in [Desks -> Requests] /\ \A p \in Desks \ {o} : desk'[p] = desk[p]
  /\ desk'[o].pc = pc /\ desk'[o].spec = spec /\ desk'[o].next = next

LEMMA DeskParts ==
  ASSUME Base, NEW o \in Desks
  PROVE  /\ desk \in [Desks -> Requests] /\ desk[o] \in Requests
         /\ desk[o].spec \in SUBSET Moments /\ desk[o].next \in Times
         /\ desk[o].enabled \in BOOLEAN
         /\ desk[o].pc = "spec" => desk[o].spec \in Specs
BY DEF Base, Typed, SpecsKept, Requests

LEMMA DeskEnds ==
  ASSUME Base, NEW o \in Desks, DeskDone(o)
  PROVE  DeskAt(o, "idle", {}, None)
<1>1. desk \in [Desks -> Requests]
  BY DeskParts
<1>2. NoRequest \in Requests /\ NoRequest.pc = "idle" /\ NoRequest.spec = {} /\ NoRequest.next = None
  BY DEF NoRequest, Requests, Times
<1> QED BY <1>1, <1>2 DEF DeskDone, DeskAt

LEMMA DeskOK ==
  ASSUME Base, NEW o \in Desks, NEW pc, NEW spec, NEW next, DeskAt(o, pc, spec, next),
         pc = "spec" => spec \in Specs
  PROVE  DesksOK
<1>1. ASSUME NEW p \in Desks, desk'[p].pc = "spec" PROVE desk'[p].spec \in Specs
  <2>1. CASE p = o
    BY <1>1, <2>1 DEF DeskAt
  <2>2. CASE p # o
    BY <1>1, <2>2 DEF DeskAt, Base, SpecsKept
  <2> QED BY <2>1, <2>2
<1> QED BY <1>1 DEF DesksOK, DeskAt

(* What a step at the desk o does. *)
Asked(o) ==
  /\ UNCHANGED <<row, jobs>>
  /\ \/ \E spec \in edits : DeskAt(o, "spec", spec, None)
     \/ row.kind = "cron" /\ DeskAt(o, "spec", row.spec, None)
     \/ DeskAt(o, "cancel", {}, None) \/ DeskAt(o, "idle", {}, None)

SpecSaved(o) ==
  /\ desk[o].pc = "spec" /\ RowTo(desk[o].spec, row.nextRun, row.result) /\ UNCHANGED jobs
  /\ \/ DeskAt(o, "idle", {}, None)
     \/ \E pc \in {"sync", "cancel"} : DeskAt(o, pc, desk[o].spec, desk[o].next)

Synced(o) ==
  /\ desk[o].pc = "sync" /\ UNCHANGED <<row, jobs>>
  /\ \/ DeskAt(o, "write", desk[o].spec, Upcoming(row))
     \/ DeskAt(o, "cancel", desk[o].spec, Upcoming(row))

NextSaved(o) ==
  /\ desk[o].pc = "write" /\ RowTo(row.spec, desk[o].next, row.result) /\ UNCHANGED jobs
  /\ DeskAt(o, "remove", desk[o].spec, desk[o].next)

Rearmed(o) ==
  /\ UNCHANGED row
  /\ \/ /\ desk[o].pc = "remove" /\ desk[o].next # None /\ QueueMoves(None)
        /\ DeskAt(o, "add", desk[o].spec, desk[o].next)
     \/ desk[o].pc = "add" /\ DeskAt(o, "idle", {}, None) /\ QueueMoves(desk[o].next)
     \/ DeskAt(o, "idle", {}, None) /\ QueueMoves(None)
     \/ DeskAt(o, "clear", desk[o].spec, desk[o].next) /\ QueueMoves(None)

Cancelled(o) ==
  /\ UNCHANGED jobs
  /\ \/ RowTo(row.spec, None, row.result)
     \/ RowTo(row.spec, row.nextRun, row.result) /\ ~row'.there
  /\ \/ DeskAt(o, "idle", {}, None) \/ DeskAt(o, "delete", desk[o].spec, desk[o].next)

Desked(o) ==
  /\ Asked(o) \/ SpecSaved(o) \/ Synced(o) \/ NextSaved(o) \/ Rearmed(o) \/ Cancelled(o)
  /\ LeftFalls /\ UNCHANGED <<now, events, fireVars, edits, rec, saga, notices>>

LEMMA AsksKinds ==
  ASSUME Base, NEW o \in Desks, NEW op \in {"edit", "toggle", "delete"}, OwnerAsks(o, op)
  PROVE  Desked(o)
<1>0. /\ UNCHANGED <<now, row, jobs, events, fireVars, edits, rec, saga, notices>>
      /\ Spend(op)
  BY Zenon DEF OwnerAsks
<1>1. LeftFalls
  BY <1>0, LeftSpent DEF Base, Disturbances
<1>2. row \in Rows /\ desk \in [Desks -> Requests] /\ edits \subseteq Specs
  BY DEF Base, Typed
<1>3. row.enabled \in BOOLEAN /\ (~row.enabled) \in BOOLEAN /\ row.spec \in Specs
  BY <1>2 DEF Rows
<1>4. NoRequest \in Requests /\ NoRequest.next = None /\ NoRequest.spec = {}
      /\ NoRequest.enabled \in BOOLEAN
  BY DEF NoRequest, Requests, Times
<1>5. ASSUME NEW spec \in Specs, NEW e \in BOOLEAN,
             desk' = [desk EXCEPT ![o] = [NoRequest EXCEPT !.pc = "spec", !.op = op,
                                                           !.spec = spec, !.enabled = e]]
      PROVE  DeskAt(o, "spec", spec, None)
  <2>1. PICK r : r = [NoRequest EXCEPT !.pc = "spec", !.op = op, !.spec = spec, !.enabled = e]
    OBVIOUS
  <2>2. r \in Requests /\ r.pc = "spec" /\ r.spec = spec /\ r.next = None
    BY <1>4, <2>1 DEF Requests, Specs
  <2>3. desk' = [desk EXCEPT ![o] = r]
    BY <1>5, <2>1
  <2> QED BY <1>2, <2>2, <2>3 DEF DeskAt
<1>6. CASE op = "edit"
  <2>1. PICK spec \in edits : desk' = [desk EXCEPT ![o] = [NoRequest EXCEPT !.pc = "spec",
                   !.op = op, !.spec = spec, !.enabled = row.enabled]]
    BY <1>6, Zenon DEF OwnerAsks
  <2>2. DeskAt(o, "spec", spec, None)
    BY <1>2, <1>3, <1>5, <2>1, Zenon
  <2> QED BY <1>0, <1>1, <2>2 DEF Desked, Asked
<1>7. CASE op = "toggle"
  <2>1. row.kind = "cron" /\ desk' = [desk EXCEPT ![o] = [NoRequest EXCEPT !.pc = "spec",
                   !.op = op, !.spec = row.spec, !.enabled = ~row.enabled]]
    BY <1>7 DEF OwnerAsks
  <2>2. DeskAt(o, "spec", row.spec, None)
    BY <1>3, <1>5, <2>1, Zenon
  <2> QED BY <1>0, <1>1, <2>1, <2>2 DEF Desked, Asked
<1>8. CASE op = "delete"
  <2>1. PICK r : r = [NoRequest EXCEPT !.pc = "cancel", !.op = op]
    OBVIOUS
  <2>2. r \in Requests /\ r.pc = "cancel" /\ r.spec = {} /\ r.next = None
    BY <1>4, <2>1 DEF Requests
  <2>3. desk' = [desk EXCEPT ![o] = r]
    BY <1>8, <2>1 DEF OwnerAsks
  <2>4. DeskAt(o, "cancel", {}, None)
    BY <1>2, <2>2, <2>3 DEF DeskAt
  <2> QED BY <1>0, <1>1, <2>4 DEF Desked, Asked
<1> QED BY <1>6, <1>7, <1>8

LEMMA DeskKinds ==
  ASSUME Base, NEW o \in Desks, DeskStep(o) \/ RequestDies(o)
  PROVE  Desked(o)
<1>0. Typed
  BY DEF Base
<1>1. UNCHANGED <<now, events, fireVars, edits, rec, saga, notices>>
  BY DEF DeskStep, RequestDies, SpecWritten, SyncReads, SyncWrites, SyncRemoves, SyncAdds,
         Cancels, CancelWrites, Deletes, scheduleVars
<1>2. LeftFalls
  <2>1. CASE DeskStep(o)
    <3>1. UNCHANGED left
      BY <2>1 DEF DeskStep, SpecWritten, SyncReads, SyncWrites, SyncRemoves, SyncAdds, Cancels,
                  CancelWrites, Deletes, scheduleVars
    <3> QED BY <1>0, <3>1, LeftSpent
  <2>2. CASE RequestDies(o)
    BY <1>0, <2>2, LeftSpent DEF RequestDies, Disturbances
  <2> QED BY <2>1, <2>2
<1>3. CASE RequestDies(o)
  <2>1. DeskAt(o, "idle", {}, None) /\ UNCHANGED <<row, jobs>>
    BY <1>3, DeskEnds DEF RequestDies
  <2> QED BY <1>1, <1>2, <2>1 DEF Desked, Asked
<1>4. CASE SpecWritten(o)
  <2>1. desk[o].pc = "spec" /\ UNCHANGED jobs
        /\ Write([row EXCEPT !.spec = desk[o].spec, !.enabled = desk[o].enabled])
    BY <1>4 DEF SpecWritten
  <2>2. RowTo(desk[o].spec, row.nextRun, row.result)
    BY <1>0, <2>1, DeskParts, WriteSpec, Zenon
  <2>3. \/ DeskAt(o, "idle", {}, None)
        \/ \E pc \in {"sync", "cancel"} : DeskAt(o, pc, desk[o].spec, desk[o].next)
    <3>1. DeskDone(o) \/ Desk(o, "cancel") \/ Desk(o, "sync")
      BY <1>4 DEF SpecWritten
    <3>2. CASE DeskDone(o)
      BY <3>2, DeskEnds
    <3>3. CASE Desk(o, "cancel") \/ Desk(o, "sync")
      <4>1. PICK pc \in {"sync", "cancel"} : desk' = [desk EXCEPT ![o].pc = pc]
        BY <3>3 DEF Desk
      <4>2. DeskAt(o, pc, desk[o].spec, desk[o].next)
        BY <4>1, DeskParts DEF DeskAt, Requests
      <4> QED BY <4>2
    <3> QED BY <3>1, <3>2, <3>3
  <2>4. SpecSaved(o)
    BY <2>1, <2>2, <2>3 DEF SpecSaved
  <2> QED BY <1>1, <1>2, <2>4 DEF Desked
<1>5. CASE SyncReads(o)
  <2>1. PICK pc \in {"write", "cancel"} :
          desk' = [desk EXCEPT ![o].pc = pc, ![o].next = Upcoming(row)]
    BY <1>5 DEF SyncReads
  <2>2. PICK x \in Times : x = Upcoming(row)
    BY <1>0, DueTypes
  <2>3. desk' = [desk EXCEPT ![o].pc = pc, ![o].next = x]
    BY <2>1, <2>2
  <2>4. DeskAt(o, pc, desk[o].spec, x)
    BY <2>3, DeskParts DEF DeskAt, Requests
  <2>5. Synced(o)
    BY <1>5, <2>2, <2>4 DEF Synced, SyncReads, scheduleVars
  <2> QED BY <1>1, <1>2, <2>5 DEF Desked
<1>6. CASE SyncWrites(o)
  <2>1. desk[o].pc = "write" /\ UNCHANGED jobs /\ Write(WithNext(desk[o].next))
        /\ desk' = [desk EXCEPT ![o].pc = "remove"]
    BY <1>6 DEF SyncWrites, Desk
  <2>2. RowTo(row.spec, desk[o].next, row.result)
    BY <1>0, <2>1, DeskParts, WriteNext
  <2>3. DeskAt(o, "remove", desk[o].spec, desk[o].next)
    BY <2>1, DeskParts DEF DeskAt, Requests
  <2>4. NextSaved(o)
    BY <2>1, <2>2, <2>3 DEF NextSaved
  <2> QED BY <1>1, <1>2, <2>4 DEF Desked
<1>7. CASE SyncRemoves(o)
  <2>1. QueueMoves(None) /\ UNCHANGED row /\ desk[o].pc = "remove"
    BY <1>7, QueueFacts DEF SyncRemoves
  <2>2. CASE DeskDone(o)
    <3>1. DeskAt(o, "idle", {}, None)
      BY <2>2, DeskEnds
    <3> QED BY <1>1, <1>2, <2>1, <3>1 DEF Desked, Rearmed
  <2>3. CASE desk[o].next # None /\ Desk(o, "add")
    <3>1. DeskAt(o, "add", desk[o].spec, desk[o].next)
      BY <2>3, DeskParts DEF DeskAt, Requests, Desk
    <3>2. Rearmed(o)
      BY <2>1, <2>3, <3>1 DEF Rearmed
    <3> QED BY <1>1, <1>2, <3>2 DEF Desked
  <2> QED BY <1>7, <2>2, <2>3 DEF SyncRemoves
<1>8. CASE SyncAdds(o)
  <2>1. QueueMoves(desk[o].next) /\ UNCHANGED row /\ desk[o].pc = "add"
    BY <1>8, QueueFacts DEF SyncAdds
  <2>2. DeskAt(o, "idle", {}, None)
    BY <1>8, DeskEnds DEF SyncAdds
  <2>3. Rearmed(o)
    BY <2>1, <2>2 DEF Rearmed
  <2> QED BY <1>1, <1>2, <2>3 DEF Desked
<1>9. CASE Cancels(o)
  <2>1. QueueMoves(None) /\ UNCHANGED row /\ desk' = [desk EXCEPT ![o].pc = "clear"]
    BY <1>9, QueueFacts DEF Cancels, Desk
  <2>2. DeskAt(o, "clear", desk[o].spec, desk[o].next)
    BY <2>1, DeskParts DEF DeskAt, Requests
  <2>3. Rearmed(o)
    BY <2>1, <2>2 DEF Rearmed
  <2> QED BY <1>1, <1>2, <2>3 DEF Desked
<1>10. CASE CancelWrites(o)
  <2>1. UNCHANGED jobs /\ Write(WithNext(None)) /\ (Desk(o, "delete") \/ DeskDone(o))
    BY <1>10 DEF CancelWrites
  <2>2. RowTo(row.spec, None, row.result)
    BY <1>0, <2>1, WriteNext DEF Times
  <2>3. DeskAt(o, "idle", {}, None) \/ DeskAt(o, "delete", desk[o].spec, desk[o].next)
    <3>1. CASE DeskDone(o)
      BY <3>1, DeskEnds
    <3>2. CASE Desk(o, "delete")
      BY <3>2, DeskParts DEF DeskAt, Requests, Desk
    <3> QED BY <2>1, <3>1, <3>2
  <2>4. Cancelled(o)
    BY <2>1, <2>2, <2>3 DEF Cancelled
  <2> QED BY <1>1, <1>2, <2>4 DEF Desked
<1>11. CASE Deletes(o)
  <2>1. UNCHANGED jobs /\ row' = [row EXCEPT !.there = FALSE]
    BY <1>11 DEF Deletes
  <2>2. RowTo(row.spec, row.nextRun, row.result) /\ ~row'.there
    BY <1>0, <2>1, RowEdits, RowParts, Zenon DEF RowTo
  <2>3. DeskAt(o, "idle", {}, None)
    BY <1>11, DeskEnds DEF Deletes
  <2>4. Cancelled(o)
    BY <2>1, <2>2, <2>3 DEF Cancelled
  <2> QED BY <1>1, <1>2, <2>4 DEF Desked
<1> QED BY <1>3, <1>4, <1>5, <1>6, <1>7, <1>8, <1>9, <1>10, <1>11 DEF DeskStep

LEMMA DeskedBase ==
  ASSUME Base, NEW o \in Desks, Desked(o)
  PROVE  Base'
<1>0. Typed /\ UNCHANGED <<now, events, fire, agent, limited, edits, rec, saga, notices>>
      /\ LeftFalls
  BY DEF Base, Desked, fireVars
<1>1. RestOK
  BY <1>0 DEF RestOK, Base, Typed, FiresKept, LeftFalls
<1>2. FiresOK
  <2>1. \E x : QueueMoves(x)
    <3>1. CASE UNCHANGED jobs
      BY <3>1, QueueFacts
    <3>2. CASE Rearmed(o)
      BY <3>2 DEF Rearmed
    <3> QED BY <3>1, <3>2 DEF Desked, Asked, SpecSaved, Synced, NextSaved, Cancelled
  <2> QED BY <1>0, <2>1, QueueOK
<1>3. RowOK
  <2>1. CASE UNCHANGED row
    BY <2>1, RestNow
  <2>2. ASSUME NEW spec, NEW next, RowTo(spec, next, row.result) PROVE RowOK
    <3>1. /\ row.kind = "cron" => row.result \notin {"missed", "delivering"}
          /\ row.kind = "once" => row.result \notin {"held", "limit"}
      BY DEF Base, FiresKept
    <3> QED BY <2>2, <3>1, RowMoves
  <2> QED BY <2>1, <2>2 DEF Desked, Asked, SpecSaved, Synced, NextSaved, Rearmed, Cancelled
<1>4. DesksOK
  <2>1. edits \subseteq Specs /\ row.spec \in Specs
    BY <1>0, RowParts DEF Typed
  <2>2. \E pc, spec, next : DeskAt(o, pc, spec, next) /\ (pc = "spec" => spec \in Specs)
    <3>1. CASE Asked(o)
      <4>1. CASE \E spec \in edits : DeskAt(o, "spec", spec, None)
        BY <2>1, <4>1
      <4>2. CASE DeskAt(o, "spec", row.spec, None)
        BY <2>1, <4>2
      <4>3. CASE DeskAt(o, "cancel", {}, None) \/ DeskAt(o, "idle", {}, None)
        BY <4>3
      <4> QED BY <3>1, <4>1, <4>2, <4>3 DEF Asked
    <3>2. CASE SpecSaved(o)
      BY <3>2 DEF SpecSaved
    <3>3. CASE Synced(o)
      BY <3>3 DEF Synced
    <3>4. CASE NextSaved(o)
      BY <3>4 DEF NextSaved
    <3>5. CASE Rearmed(o)
      BY <3>5 DEF Rearmed
    <3>6. CASE Cancelled(o)
      BY <3>6 DEF Cancelled
    <3> QED BY <3>1, <3>2, <3>3, <3>4, <3>5, <3>6 DEF Desked
  <2> QED BY <2>2, DeskOK
<1> QED BY <1>0, <1>1, <1>2, <1>3, <1>4, BaseFromParts

---------------------------------------------------------------------------
(* The others *)

LEMMA JobLostFacts ==
  ASSUME Base, NEW m \in Moments, JobLost(m)
  PROVE  QueueMoves(None) /\ LeftFalls /\ UNCHANGED <<now, row, events>>
<1>1. jobs \in [Moments -> Jobs] /\ NoJob \in Jobs /\ NoJob.st = "none" /\ Typed
  BY NoJobType DEF Base, Typed
<1>2. jobs' = [jobs EXCEPT ![m] = NoJob] /\ jobs[m].st # "active" /\ Spend("lose")
      /\ UNCHANGED <<now, row, events>>
  BY DEF JobLost
<1>3. LeftFalls
  BY <1>1, <1>2, LeftSpent DEF Disturbances
<1>4. QueueMoves(None)
  BY <1>1, <1>2 DEF QueueMoves
<1> QED BY <1>2, <1>3, <1>4

LEMMA JobLostBase ==
  ASSUME Base, NEW m \in Moments, JobLost(m), UNCHANGED <<fireVars, edits, desk, rec, saga, notices>>
  PROVE  Base'
<1>1. QueueMoves(None) /\ LeftFalls /\ UNCHANGED <<now, row, events, fire, agent, limited>>
  BY JobLostFacts DEF fireVars
<1>2. RestOK
  BY <1>1 DEF RestOK, Base, Typed, FiresKept, LeftFalls
<1>3. FiresOK /\ RowOK /\ DesksOK
  BY <1>1, QueueOK, RestNow
<1> QED BY <1>2, <1>3, BaseFromParts DEF Base

LEMMA WorldBase ==
  ASSUME Base, AgentChanges \/ LimitReached, UNCHANGED <<edits, desk, rec, saga, notices>>
  PROVE  Base'
<1>1. LeftFalls /\ UNCHANGED <<now, row, jobs, events, fire>>
  BY LeftSpent DEF Base, AgentChanges, LimitReached, Disturbances
<1>2. agent' \in {"ready", "onboarding", "disabled"} /\ limited' \in BOOLEAN
  BY DEF AgentChanges, LimitReached, Base, Typed
<1>3. RestOK
  BY <1>1, <1>2 DEF RestOK, Base, Typed, FiresKept, LeftFalls
<1>4. FiresOK /\ RowOK /\ DesksOK
  BY <1>1, RestNow
<1> QED BY <1>3, <1>4, BaseFromParts DEF Base

(* The round of the reconcile goes on in one of these ways. *)
RecTo(pc, next) ==
  rec' \in [pc : {"idle", "missed", "write", "ensure"}, next : Times]
  /\ rec'.pc = pc /\ rec'.next = next

Restores ==
  /\ \/ /\ UNCHANGED <<row, jobs>> /\ row.kind = "once" /\ row.there /\ ~row.fired
        /\ \/ OnceFireAt(row) = None /\ RecTo("missed", None)
           \/ OnceFireAt(row) # None /\ RecTo("write", RestoreAt(row))
     \/ /\ UNCHANGED <<row, jobs>> /\ row.kind = "cron"
        /\ RecTo("write", RestoreAt(row)) \/ RecTo("ensure", RestoreAt(row))
     \/ /\ rec.pc = "missed" /\ RowTo(row.spec, None, "missed") /\ UNCHANGED jobs
        /\ RecTo("idle", None)
     \/ /\ rec.pc = "write" /\ RowTo(row.spec, rec.next, row.result) /\ UNCHANGED jobs
        /\ RecTo("idle", None) \/ RecTo("ensure", rec.next)
     \/ rec.pc = "ensure" /\ QueueMoves(rec.next) /\ UNCHANGED row /\ RecTo("idle", None)
  /\ UNCHANGED <<now, events, left, fireVars, edits, desk, saga, notices>>

LEMMA RecKinds ==
  ASSUME Base, RecStep
  PROVE  Restores
<1>0. Typed /\ rec \in [pc : {"idle", "missed", "write", "ensure"}, next : Times]
      /\ rec.next \in Times
  BY DEF Base, Typed
<1>1. UNCHANGED <<now, events, left, fireVars, edits, desk, saga, notices>>
  BY DEF RecStep, RecReads, RecMisses, RecWrites, RecEnsures, scheduleVars
<1>2. NoReconcile \in [pc : {"idle", "missed", "write", "ensure"}, next : Times]
      /\ NoReconcile.pc = "idle" /\ NoReconcile.next = None
  BY DEF NoReconcile, Times
<1>3. CASE RecReads
  <2>0. UNCHANGED <<row, jobs>> /\ row.there
    BY <1>3 DEF RecReads, scheduleVars
  <2>1. PICK x \in Times : x = RestoreAt(row)
    BY <1>0, DueTypes
  <2>2. CASE row.kind = "once" /\ ~row.fired /\ OnceFireAt(row) = None
             /\ rec' = [NoReconcile EXCEPT !.pc = "missed"]
    <3>1. RecTo("missed", None)
      BY <1>2, <2>2 DEF RecTo
    <3> QED BY <1>1, <2>0, <2>2, <3>1, Zenon DEF Restores
  <2>3. CASE row.kind = "once" /\ ~row.fired /\ OnceFireAt(row) # None
             /\ rec' = [pc |-> "write", next |-> RestoreAt(row)]
    <3>1. RecTo("write", RestoreAt(row))
      BY <2>1, <2>3 DEF RecTo
    <3> QED BY <1>1, <2>0, <2>3, <3>1, Zenon DEF Restores
  <2>4. CASE row.kind = "cron"
        /\ rec' = [pc |-> IF row.nextRun = None THEN "write" ELSE "ensure",
                   next |-> RestoreAt(row)]
    <3>1. RecTo("write", RestoreAt(row)) \/ RecTo("ensure", RestoreAt(row))
      BY <2>1, <2>4 DEF RecTo
    <3> QED BY <1>1, <2>0, <2>4, <3>1, Zenon DEF Restores
  <2> QED BY <1>3, <2>2, <2>3, <2>4 DEF RecReads
<1>4. CASE RecMisses
  <2>1. rec.pc = "missed" /\ Write(Missed) /\ rec' = NoReconcile /\ UNCHANGED jobs
    BY <1>4 DEF RecMisses
  <2>2. RowTo(row.spec, None, "missed") /\ RecTo("idle", None)
    BY <1>0, <1>2, <2>1, WriteMissed DEF RecTo
  <2> QED BY <1>1, <2>1, <2>2, Zenon DEF Restores
<1>5. CASE RecWrites
  <2>1. /\ rec.pc = "write" /\ Write(WithNext(rec.next)) /\ UNCHANGED jobs
        /\ rec' = NoReconcile \/ rec' = [rec EXCEPT !.pc = "ensure"]
    BY <1>5 DEF RecWrites
  <2>2. RowTo(row.spec, rec.next, row.result)
    BY <1>0, <2>1, WriteNext
  <2>3. RecTo("idle", None) \/ RecTo("ensure", rec.next)
    BY <1>0, <1>2, <2>1 DEF RecTo
  <2> QED BY <1>1, <2>1, <2>2, <2>3, Zenon DEF Restores
<1>6. CASE RecEnsures
  <2>1. rec.pc = "ensure" /\ Ensure(rec.next) /\ rec' = NoReconcile /\ UNCHANGED row
    BY <1>6 DEF RecEnsures
  <2>2. QueueMoves(rec.next) /\ RecTo("idle", None)
    BY <1>2, <2>1, QueueFacts DEF RecTo
  <2> QED BY <1>1, <2>1, <2>2, Zenon DEF Restores
<1> QED BY <1>3, <1>4, <1>5, <1>6 DEF RecStep

LEMMA RecBase ==
  ASSUME Base, RecStep
  PROVE  Base'
<1>0. Restores /\ Typed /\ FiresKept
  BY RecKinds DEF Base
<1>1. UNCHANGED <<now, events, left, fire, agent, limited, edits, desk, saga, notices>>
  BY <1>0 DEF Restores, fireVars
<1>2. rec' \in [pc : {"idle", "missed", "write", "ensure"}, next : Times]
      /\ (row.kind = "cron" => rec'.pc # "missed")
  BY <1>0 DEF Restores, RecTo
<1>3. RestOK
  BY <1>0, <1>1, <1>2 DEF RestOK, Typed
<1>4. FiresOK
  <2>1. \E x : QueueMoves(x)
    BY <1>0, QueueFacts DEF Restores
  <2> QED BY <1>1, <2>1, QueueOK
<1>5. RowOK
  <2>1. CASE UNCHANGED row
    BY <2>1, RestNow
  <2>2. CASE rec.pc = "missed" /\ RowTo(row.spec, None, "missed")
    BY <1>0, <2>2, RowMoves DEF FiresKept
  <2>3. CASE RowTo(row.spec, rec.next, row.result)
    BY <1>0, <2>3, RowMoves DEF FiresKept
  <2> QED BY <1>0, <2>1, <2>2, <2>3 DEF Restores
<1>6. DesksOK
  BY <1>1, RestNow
<1> QED BY <1>0, <1>3, <1>4, <1>5, <1>6, BaseFromParts

LEMMA SagaBase ==
  ASSUME Base, LimitLifted \/ SagaStep \/ SagaFails
  PROVE  Base'
<1>0. Typed /\ FiresKept /\ now \in Times
  BY MomentsAreNumbers DEF Base, Typed, Times
<1>1. UNCHANGED <<now, events, fire, agent, edits, desk, rec, notices>>
  BY DEF LimitLifted, SagaStep, SagaClaims, SagaRemoves, SagaAdds, SagaFails, fireVars, scheduleVars
<1>2. saga' \in {"idle", "claim", "remove", "add"} /\ limited' \in BOOLEAN
  BY <1>0 DEF LimitLifted, SagaStep, SagaClaims, SagaRemoves, SagaAdds, SagaFails, Typed, fireVars
<1>3. left' \in [Disturbances -> Nat]
  <2>1. LeftFalls
    BY <1>0, LeftSpent DEF LimitLifted, SagaStep, SagaClaims, SagaRemoves, SagaAdds, SagaFails,
                           scheduleVars, Disturbances
  <2> QED BY <2>1 DEF LeftFalls
<1>4. RestOK
  BY <1>0, <1>1, <1>2, <1>3 DEF RestOK, Typed, FiresKept
<1>5. FiresOK
  <2>1. \E x : QueueMoves(x)
    <3>1. RemovePending \/ Add(now) \/ UNCHANGED jobs
      BY DEF LimitLifted, SagaStep, SagaClaims, SagaRemoves, SagaAdds, SagaFails, scheduleVars
    <3> QED BY <3>1, QueueFacts
  <2> QED BY <1>1, <2>1, QueueOK
<1>6. RowOK
  <2>1. CASE UNCHANGED row
    BY <2>1, RestNow
  <2>2. CASE row' = WithNext(now)
    <3>1. Becomes([row EXCEPT !.nextRun = now], row.spec, now, row.result)
      BY <1>0, RowEdits, RowParts, Zenon
    <3>2. RowTo(row.spec, now, row.result)
      BY <2>2, <3>1 DEF WithNext, RowTo
    <3> QED BY <1>0, <3>2, RowMoves DEF FiresKept
  <2>3. UNCHANGED row \/ row' = WithNext(now)
    BY DEF LimitLifted, SagaStep, SagaClaims, SagaRemoves, SagaAdds, SagaFails, scheduleVars
  <2> QED BY <2>1, <2>2, <2>3
<1>7. DesksOK
  BY <1>1, RestNow
<1> QED BY <1>0, <1>4, <1>5, <1>6, <1>7, BaseFromParts

(* The event of m gets this state. *)
EventTo(m, st) ==
  /\ events' \in [Moments -> Sent] /\ (\A j \in Moments \ {m} : events'[j] = events[j])
  /\ events'[m].st = st

LEMMA DeliverFacts ==
  ASSUME Base, NEW m \in Moments, Settles(m) \/ Expires(m)
  PROVE  /\ events[m].st = "sent"
         /\ UNCHANGED <<now, row, jobs, left, fireVars, edits, desk, rec, saga>>
         /\ \E as \in {"success", "missed"} :
              /\ EventTo(m, IF as = "success" THEN "settled" ELSE "expired")
              /\ notices' = notices \cup {[at |-> m, as |-> as]}
<1>0. events \in [Moments -> Sent] /\ events[m] \in Sent
  BY DEF Base, Typed
<1>1. UNCHANGED <<now, row, jobs, left, fireVars, edits, desk, rec, saga>> /\ events[m].st = "sent"
  BY DEF Settles, Expires
<1>2. CASE Settles(m)
  <2>1. events' = [events EXCEPT ![m].st = "settled"]
        /\ notices' = notices \cup {[at |-> m, as |-> "success"]}
    BY <1>2 DEF Settles
  <2>2. EventTo(m, "settled")
    BY <1>0, <2>1 DEF EventTo, Sent
  <2> QED BY <1>1, <2>1, <2>2
<1>3. CASE Expires(m)
  <2>1. events' = [events EXCEPT ![m].st = "expired"]
        /\ notices' = notices \cup {[at |-> m, as |-> "missed"]}
    BY <1>3 DEF Expires
  <2>2. EventTo(m, "expired")
    BY <1>0, <2>1 DEF EventTo, Sent
  <2> QED BY <1>1, <2>1, <2>2
<1> QED BY <1>2, <1>3

LEMMA DeliverBase ==
  ASSUME Base, NEW m \in Moments, Settles(m) \/ Expires(m)
  PROVE  Base'
<1>1. UNCHANGED <<now, row, jobs, left, fire, agent, limited, edits, desk, rec, saga>>
  BY DeliverFacts DEF fireVars
<1>2. events' \in [Moments -> Sent]
      /\ notices' \subseteq [at : Moments, as : {"success", "missed"}]
  <2>1. PICK as \in {"success", "missed"} :
              /\ EventTo(m, IF as = "success" THEN "settled" ELSE "expired")
              /\ notices' = notices \cup {[at |-> m, as |-> as]}
    BY DeliverFacts
  <2>2. events' \in [Moments -> Sent]
    BY <2>1 DEF EventTo
  <2>3. notices \subseteq [at : Moments, as : {"success", "missed"}]
        /\ [at |-> m, as |-> as] \in [at : Moments, as : {"success", "missed"}]
    BY DEF Base, Typed
  <2> QED BY <2>1, <2>2, <2>3
<1>3. RestOK
  BY <1>1, <1>2 DEF RestOK, Base, Typed, FiresKept
<1>4. FiresOK /\ RowOK /\ DesksOK
  BY <1>1, RestNow
<1> QED BY <1>3, <1>4, BaseFromParts DEF Base

(* What the listener, a lost notice or a failed turn leaves of the row. *)
Recorded ==
  /\ UNCHANGED <<now, jobs, events, fireVars, edits, desk, rec, saga>> /\ LeftFalls
  /\ notices' \subseteq notices
  /\ \/ UNCHANGED row
     \/ /\ row.kind = "once" /\ row.result = "delivering"
        /\ \E n \in notices : RowTo(row.spec, row.nextRun, n.as)
     \/ row.kind = "once" /\ RowTo(row.spec, None, "failed")

LEMMA RecordKinds ==
  ASSUME Base, \/ \E n \in notices : RecordDelivery(n) \/ NoticeLost(n)
               \/ \E m \in Moments : RecordOnceFailure(m)
  PROVE  Recorded
<1>0. Typed /\ notices \subseteq [at : Moments, as : {"success", "missed"}]
  BY DEF Base, Typed
<1>1. ASSUME NEW n \in notices, RecordDelivery(n)
      PROVE  Recorded
  <2>1. UNCHANGED <<now, jobs, events, left, fireVars, edits, desk, rec, saga>>
        /\ notices' \subseteq notices
    BY <1>1 DEF RecordDelivery
  <2>2. LeftFalls
    BY <1>0, <2>1, LeftSpent
  <2>3. n.as \in Results
    BY <1>0 DEF Results
  <2>4. CASE row.kind = "once"
    <3>1. Write(ReplaceResult(row, n.as))
      BY <1>1, <2>4 DEF RecordDelivery
    <3>2. CASE row.result = "delivering"
      <4>1. RowTo(row.spec, row.nextRun, n.as)
        BY <1>0, <2>3, <3>1, <3>2, WriteResult
      <4> QED BY <2>1, <2>2, <2>4, <3>2, <4>1 DEF Recorded
    <3>3. CASE row.result # "delivering"
      <4>1. row' = row
        BY <3>1, <3>3 DEF Write, ReplaceResult
      <4> QED BY <2>1, <2>2, <4>1 DEF Recorded
    <3> QED BY <3>2, <3>3
  <2>5. CASE row.kind # "once"
    BY <1>1, <2>1, <2>2, <2>5 DEF RecordDelivery, Recorded
  <2> QED BY <2>4, <2>5
<1>2. ASSUME NEW n \in notices, NoticeLost(n)
      PROVE  Recorded
  <2>1. UNCHANGED <<now, row, jobs, events, fireVars, edits, desk, rec, saga>>
        /\ notices' \subseteq notices /\ Spend("notice")
    BY <1>2 DEF NoticeLost
  <2>2. LeftFalls
    BY <1>0, <2>1, LeftSpent DEF Disturbances
  <2> QED BY <2>1, <2>2 DEF Recorded
<1>3. ASSUME NEW m \in Moments, RecordOnceFailure(m)
      PROVE  Recorded
  <2>1. UNCHANGED <<now, jobs, events, fireVars, edits, desk, rec, saga, notices>>
        /\ Spend("correct") /\ Write([row EXCEPT !.result = "failed", !.nextRun = None])
        /\ row.kind = "once"
    BY <1>3 DEF RecordOnceFailure
  <2>2. LeftFalls
    BY <1>0, <2>1, LeftSpent DEF Disturbances
  <2>3. RowTo(row.spec, None, "failed")
    BY <1>0, <2>1, WriteFailed
  <2> QED BY <2>1, <2>2, <2>3 DEF Recorded
<1> QED BY <1>1, <1>2, <1>3

LEMMA RecordBase ==
  ASSUME Base, Recorded
  PROVE  Base'
<1>0. Typed /\ UNCHANGED <<now, jobs, events, fire, agent, limited, edits, desk, rec, saga>>
      /\ notices' \subseteq [at : Moments, as : {"success", "missed"}]
      /\ left' \in [Disturbances -> Nat]
  BY DEF Base, Typed, Recorded, fireVars, LeftFalls
<1>1. RestOK
  BY <1>0 DEF RestOK, Base, Typed, FiresKept
<1>2. FiresOK /\ DesksOK
  BY <1>0, RestNow
<1>3. RowOK
  <2>1. CASE UNCHANGED row
    BY <2>1, RestNow
  <2>2. CASE row.kind = "once" /\ \E n \in notices : RowTo(row.spec, row.nextRun, n.as)
    <3>1. PICK n \in notices : RowTo(row.spec, row.nextRun, n.as)
      BY <2>2
    <3>2. n.as \in {"success", "missed"}
      BY <1>0 DEF Typed
    <3> QED BY <2>2, <3>1, <3>2, RowMoves
  <2>3. CASE row.kind = "once" /\ RowTo(row.spec, None, "failed")
    BY <2>3, RowMoves
  <2> QED BY <2>1, <2>2, <2>3 DEF Recorded
<1> QED BY <1>0, <1>1, <1>2, <1>3, BaseFromParts

LEMMA TickFacts ==
  ASSUME Base, Tick
  PROVE  /\ LeftFalls /\ now' = now + 1 /\ now' \in Moments
         /\ UNCHANGED <<row, jobs, events, fire, agent, edits, desk, rec, saga, notices>>
         /\ limited' \in BOOLEAN /\ (~limited => ~limited')
         /\ Firing => left["slow"] > 0
<1>0. Typed /\ now \in Nat /\ limited \in BOOLEAN
  BY MomentsAreNumbers DEF Base, Typed
<1>1. now < Horizon /\ now' = now + 1 /\ limited' = (limited /\ now' % Day # 0)
      /\ UNCHANGED <<row, jobs, events, fire, agent, edits, desk, rec, saga, notices>>
  BY DEF Tick
<1>2. now' \in Moments
  BY <1>0, <1>1, ScheduleAssumption DEF Moments
<1>3. limited' \in BOOLEAN /\ (~limited => ~limited')
  BY <1>0, <1>1
<1>4. LeftFalls /\ (Firing => left["slow"] > 0)
  <2>1. CASE Firing
    <3>1. Spend("slow")
      BY <2>1 DEF Tick
    <3> QED BY <1>0, <3>1, LeftSpent DEF Disturbances
  <2>2. CASE ~Firing
    <3>1. UNCHANGED left
      BY <2>2 DEF Tick
    <3> QED BY <1>0, <2>2, <3>1, LeftSpent
  <2> QED BY <2>1, <2>2
<1> QED BY <1>1, <1>2, <1>3, <1>4

LEMMA TickBase ==
  ASSUME Base, Tick
  PROVE  Base'
<1>1. /\ LeftFalls /\ now' \in Moments /\ limited' \in BOOLEAN
      /\ UNCHANGED <<row, jobs, events, fire, agent, edits, desk, rec, saga, notices>>
  BY TickFacts
<1>2. RestOK
  BY <1>1 DEF RestOK, Base, Typed, FiresKept, LeftFalls
<1>3. FiresOK /\ RowOK /\ DesksOK
  BY <1>1, RestNow
<1> QED BY <1>2, <1>3, BaseFromParts DEF Base

(* A step of the schedules, by who takes it. *)
Moves ==
  \/ /\ UNCHANGED <<edits, desk, rec, saga, notices>>
     /\ \/ \E m \in Moments : Handled(m)
        \/ \E m \in Moments : JobLost(m) /\ UNCHANGED fireVars
        \/ AgentChanges \/ LimitReached
  \/ \E o \in Desks : Desked(o)
  \/ RecStep
  \/ LimitLifted \/ SagaStep \/ SagaFails
  \/ \E m \in Moments : Settles(m) \/ Expires(m)
  \/ Recorded
  \/ Tick

LEMMA StepMoves ==
  ASSUME Base, Next
  PROVE  Moves
<1>0. Typed /\ SpecsKept /\ FiresKept
  BY DEF Base
<1>1. CASE FireNext /\ UNCHANGED <<edits, desk, rec, saga, notices>>
  <2>1. CASE \E m \in Moments : FireStep(m) \/ FireDisturbed(m)
    <3>1. \E m \in Moments : Handled(m)
      BY <1>0, <2>1, HandlerKinds
    <3> QED BY <1>1, <3>1 DEF Moves
  <2>2. CASE \E m \in Moments : JobLost(m) /\ UNCHANGED <<fire, agent, limited>>
    BY <1>1, <2>2 DEF Moves, fireVars
  <2>3. CASE AgentChanges \/ LimitReached
    BY <1>1, <2>3 DEF Moves
  <2> QED BY <1>1, <2>1, <2>2, <2>3 DEF FireNext
<1>2. CASE \E o \in Desks : \/ \E op \in {"edit", "toggle", "delete"} : OwnerAsks(o, op)
                            \/ DeskStep(o) \/ RequestDies(o)
  <2>1. \E o \in Desks : Desked(o)
    BY <1>2, AsksKinds, DeskKinds
  <2> QED BY <2>1 DEF Moves
<1>3. CASE RecStep \/ LimitLifted \/ SagaStep \/ SagaFails \/ Tick
  BY <1>3 DEF Moves
<1>4. CASE DeliveryStep
  <2>1. CASE \E m \in Moments : Settles(m) \/ Expires(m)
    BY <2>1 DEF Moves
  <2>2. CASE \E n \in notices : RecordDelivery(n)
    BY <2>2, RecordKinds DEF Moves
  <2> QED BY <1>4, <2>1, <2>2 DEF DeliveryStep
<1>5. CASE (\E n \in notices : NoticeLost(n)) \/ \E m \in Moments : RecordOnceFailure(m)
  BY <1>5, RecordKinds DEF Moves
<1> QED BY <1>1, <1>2, <1>3, <1>4, <1>5 DEF Next

LEMMA BaseStep ==
  ASSUME Base, [Next]_vars
  PROVE  Base'
<1>1. CASE UNCHANGED vars
  <2>1. FiresOK /\ RowOK /\ DesksOK /\ RestOK
    BY <1>1, RestNow DEF vars, scheduleVars, fireVars
  <2> QED BY <2>1, BaseFromParts DEF Base
<1>2. CASE Next
  <2>1. Moves
    BY <1>2, StepMoves
  <2> QED BY <2>1, HandledBase, JobLostBase, WorldBase, DeskedBase, RecBase, SagaBase, DeliverBase,
             RecordBase, TickBase, Zenon DEF Moves
<1> QED BY <1>1, <1>2

LEMMA InitFacts ==
  ASSUME Init
  PROVE  /\ Base /\ row.there /\ row.nextRun = None /\ row.result = None /\ ~row.fired
         /\ fire = [m \in Moments |-> NoFire] /\ jobs = [m \in Moments |-> NoJob]
         /\ \A m \in Moments : events[m].st = "none"
         /\ \A o \in Desks : desk[o].pc \in {"idle", "sync"}
         /\ ~limited /\ rec.pc = "idle" /\ saga = "idle" /\ notices = {}
<1>1. PICK s \in Scenarios :
        /\ row = [there |-> TRUE, kind |-> s.kind, enabled |-> TRUE, spec |-> s.spec,
                  nextRun |-> None, result |-> None, fired |-> FALSE]
        /\ edits = s.edits /\ left = s.faults
  BY DEF Init
<1>2. s.kind \in {"cron", "once"} /\ s.faults \in [Disturbances -> Nat] /\ s.spec \in Specs
      /\ s.edits \subseteq Specs
  BY ScenariosAssumption DEF Specs
<1>3. /\ row \in Rows /\ row.there /\ row.nextRun = None /\ row.result = None /\ ~row.fired
      /\ row.result \notin {"missed", "delivering", "held", "limit"}
  BY <1>1, <1>2, ScheduleAssumption DEF Rows, Times, Results
<1>4. fire = [m \in Moments |-> NoFire] /\ jobs = [m \in Moments |-> NoJob]
      /\ agent = "ready" /\ limited = FALSE /\ now = 0 /\ rec = NoReconcile /\ saga = "idle"
      /\ notices = {} /\ events = [m \in Moments |-> [st |-> "none", exp |-> None]]
  BY DEF Init, FireInit
<1>5. NoFire \in Fires /\ NoFire.pc = "idle" /\ NoFire.result = None
  BY DEF NoFire, Fires, FireSteps, FireResults, Times
<1>6. NoJob \in Jobs /\ NoJob.st = "none"
  BY NoJobType
<1>7. events \in [Moments -> Sent] /\ \A m \in Moments : events[m].st = "none"
  BY <1>4 DEF Sent, Times
<1>8. now \in Moments
  BY <1>4, ScheduleAssumption DEF Moments
<1>9. rec \in [pc : {"idle", "missed", "write", "ensure"}, next : Times] /\ rec.pc = "idle"
  BY <1>4 DEF NoReconcile, Times
<1>10. desk \in [Desks -> Requests] /\ \A o \in Desks : desk[o].pc \in {"idle", "sync"}
  <2>1. PICK o : desk = [[p \in Desks |-> NoRequest] EXCEPT ![o] =
                           [NoRequest EXCEPT !.pc = "sync", !.op = "create"]]
    BY DEF Init
  <2>2. NoRequest \in Requests /\ NoRequest.pc = "idle"
    BY DEF NoRequest, Requests, Times
  <2>3. PICK r : r = [NoRequest EXCEPT !.pc = "sync", !.op = "create"]
    OBVIOUS
  <2>4. r \in Requests /\ r.pc = "sync"
    BY <2>2, <2>3 DEF Requests
  <2> QED BY <2>1, <2>2, <2>3, <2>4
<1>11. Typed
  BY <1>1, <1>2, <1>3, <1>4, <1>5, <1>6, <1>7, <1>8, <1>9, <1>10 DEF Typed
<1>12. SpecsKept
  BY <1>4, <1>5, <1>10 DEF SpecsKept
<1>13. FiresKept
  BY <1>3, <1>4, <1>5, <1>6, <1>9 DEF FiresKept
<1> QED BY <1>3, <1>4, <1>7, <1>9, <1>10, <1>11, <1>12, <1>13 DEF Base

(* The inductive invariant of every schedule: its state keeps its shape, a *)
(* handler and its job go together, and each kind of schedule goes only    *)
(* through the steps and results of its kind.                              *)
THEOREM SchedulesInvariant == Spec => []Base
<1>1. Init => Base
  BY InitFacts
<1>2. Base /\ [Next]_vars => Base'
  BY BaseStep
<1> QED BY <1>1, <1>2, PTL DEF Spec

(* The schedule, its jobs and its events keep their shape, for every       *)
(* window, number of attempts and of requests at once.                     *)
THEOREM SchedulesType == Spec => []TypeOK
<1>1. Base => TypeOK
  <2> SUFFICES ASSUME Base PROVE TypeOK
    OBVIOUS
  <2>1. Typed /\ FiresKept
    BY DEF Base
  <2>2. now \in Moments /\ jobs \in [Moments -> Jobs] /\ events \in [Moments -> Sent] /\ row \in Rows
    BY <2>1 DEF Typed
  <2>3. row \in [there : BOOLEAN, kind : {"cron", "once"}, enabled : BOOLEAN,
              spec : SUBSET Moments, nextRun : Nat \cup {None},
              result : Results, fired : BOOLEAN]
    BY <2>2 DEF Rows, Times, Specs
  <2>4. /\ \A m \in Moments : fire[m].pc # "idle" <=> jobs[m].st = "active"
        /\ row.kind = "cron" => row.result \notin {"missed", "delivering"}
        /\ row.kind = "once" => row.result \notin {"held", "limit"}
    BY <2>1 DEF FiresKept
  <2> QED BY <2>2, <2>3, <2>4 DEF TypeOK, Jobs, Sent, Times
<1> QED BY <1>1, SchedulesInvariant, PTL

---------------------------------------------------------------------------
(* A one-time task that keeps its moment *)

(* The owner may edit the task but not move it, and its payer reaches no   *)
(* spend limit, which would hold the task until a moment of its own.       *)
KeepsItsMoment == row.kind = "once" => edits \subseteq {row.spec} /\ left["limit"] = 0

OnlyItsMoment(a, f, j, e) ==
  \A m \in Moments :
    /\ m # a => j[m].st = "none" /\ f[m].pc = "idle" /\ e[m].st = "none"
    /\ f[m].pc \notin {"wait", "ensure"} /\ f[m].next = None

DesksKeep(a, spec, d) ==
  \A o \in Desks :
    /\ d[o].pc = "spec" => d[o].spec = spec
    /\ d[o].pc \in {"write", "remove", "add"} => d[o].next \in {None, a}
    /\ d[o].pc = "add" => d[o].next = a

RecKeeps(a, r) == r.pc \in {"write", "ensure"} => r.next = a

Calm == edits \subseteq {row.spec} /\ left["limit"] = 0 /\ ~limited /\ saga = "idle"

(* Whoever arms the task arms it for its own moment, so nothing is queued, *)
(* fires or goes out for another one.                                      *)
Steady ==
  /\ Calm /\ row.nextRun \in {None, At(row.spec)}
  /\ OnlyItsMoment(At(row.spec), fire, jobs, events)
  /\ DesksKeep(At(row.spec), row.spec, desk) /\ RecKeeps(At(row.spec), rec)

Task == Base /\ row.kind = "once" /\ Steady

(* A step keeps all this, seen from before it. *)
Keeps(a) ==
  /\ row'.spec = row.spec /\ row'.nextRun \in {None, a}
  /\ edits' = edits /\ left'["limit"] = 0 /\ ~limited' /\ saga' = "idle"
  /\ OnlyItsMoment(a, fire', jobs', events')
  /\ DesksKeep(a, row.spec, desk') /\ RecKeeps(a, rec')

LEMMA SteadyFromParts ==
  ASSUME Task, Keeps(At(row.spec))
  PROVE  Steady'
<1>1. row'.spec = row.spec /\ At(row.spec)' = At(row.spec)
  BY DEF Keeps
<1> QED BY <1>1 DEF Task, Keeps, Steady, Calm, OnlyItsMoment, DesksKeep, RecKeeps

LEMMA TaskNow ==
  ASSUME Task, NEW a, a = At(row.spec)
  PROVE  /\ Base /\ Typed /\ row.kind = "once" /\ row.nextRun \in {None, a}
         /\ edits \subseteq {row.spec} /\ left["limit"] = 0 /\ ~limited /\ saga = "idle"
         /\ OnlyItsMoment(a, fire, jobs, events) /\ DesksKeep(a, row.spec, desk)
         /\ RecKeeps(a, rec) /\ a \in Moments /\ a # None
<1>1. row.spec \in Specs
  BY RowParts DEF Task, Base
<1>2. a \in Moments /\ a # None
  BY <1>1, AtIsAMoment, ScheduleAssumption
<1> QED BY <1>2 DEF Task, Base, Steady, Calm

LEMMA RowKeeps ==
  ASSUME Task, NEW a, a = At(row.spec), NEW next, NEW result, RowTo(row.spec, next, result),
         next \in {None, a}
  PROVE  row'.spec = row.spec /\ row'.nextRun \in {None, a}
BY TaskNow DEF RowTo, Becomes

LEMMA LimitStays ==
  ASSUME Task, LeftFalls
  PROVE  left'["limit"] = 0
BY DEF Task, Steady, Calm, LeftFalls, Disturbances

LEMMA ItsHandler ==
  ASSUME Task, NEW m \in Moments, Handled(m)
  PROVE  m = At(row.spec)
<1>1. PICK a : a = At(row.spec)
  OBVIOUS
<1>2. m # a => jobs[m].st = "none" /\ fire[m].pc = "idle"
  BY <1>1, TaskNow DEF OnlyItsMoment
<1>3. jobs[m].st = "pending" \/ fire[m].pc # "idle"
  BY DEF Handled, Begins, Stops, Notes, LooksAt, Asks, Proceeds, GivesUp, Recurs, Commits, Waits, Arms,
         Clears, FEnds, FGoes
<1> QED BY <1>1, <1>2, <1>3

LEMMA HandlerMovesKeep ==
  ASSUME Task, NEW a, a = At(row.spec), NEW pc, NEW spec, NEW result,
         FireAt(fire', a, pc, spec, result, None), pc \notin {"wait", "ensure"},
         \A j \in Moments \ {a} : jobs'[j] = jobs[j] /\ events'[j] = events[j]
  PROVE  OnlyItsMoment(a, fire', jobs', events')
<1>1. OnlyItsMoment(a, fire, jobs, events)
  BY TaskNow
<1> QED BY <1>1 DEF OnlyItsMoment, FireAt

(* What a handler of a one-time task that keeps its moment can do. *)
TaskHandled(a) ==
  /\ LeftFalls /\ UNCHANGED <<now, agent, limited>>
  /\ \/ /\ Begins(a) \/ Stops(a) \/ LooksAt(a) \/ Asks(a)
           \/ (Proceeds(a) /\ FGoes(a, "commit", fire[a].spec, fire[a].result, fire[a].next))
           \/ (GivesUp(a) /\ FGoes(a, "write", fire[a].spec, "failed", None))
     \/ Notes(a) /\ fire[a].pc = "missed" /\ RowTo(row.spec, None, "missed")
     \/ Notes(a) /\ fire[a].pc = "write" /\ RowTo(row.spec, None, "failed")
     \/ Commits(a)

LEMMA TaskHandlers ==
  ASSUME Task, NEW m \in Moments, Handled(m)
  PROVE  m = At(row.spec) /\ TaskHandled(m)
<1>1. PICK a : a = At(row.spec) /\ m = a
  BY ItsHandler
<1>2. /\ ~limited /\ row.kind = "once" /\ fire[a].pc \notin {"wait", "ensure"} /\ fire[a].next = None
      /\ a \in Moments
  BY <1>1, TaskNow DEF OnlyItsMoment
<1>3. fire[a].pc \notin {"remove", "add"} /\ (fire[a].pc = "write" => fire[a].result = "failed")
  BY <1>2, HandlersNow DEF Task, HandlerOK
<1>4. LeftFalls /\ UNCHANGED <<now, agent, limited>>
  BY DEF Handled
<1>5. CASE Begins(a) \/ Stops(a) \/ LooksAt(a) \/ Asks(a) \/ Commits(a)
  BY <1>1, <1>4, <1>5 DEF TaskHandled
<1>6. CASE Proceeds(a)
  <2>1. FGoes(a, "commit", fire[a].spec, fire[a].result, fire[a].next)
    BY <1>2, <1>6 DEF Proceeds
  <2> QED BY <1>1, <1>4, <1>6, <2>1 DEF TaskHandled
<1>7. CASE GivesUp(a)
  <2>1. FGoes(a, "write", fire[a].spec, "failed", None)
    BY <1>2, <1>7 DEF GivesUp
  <2> QED BY <1>1, <1>4, <1>7, <2>1 DEF TaskHandled
<1>8. CASE Notes(a)
  <2>1. CASE fire[a].pc = "missed" /\ RowTo(row.spec, None, "missed")
    BY <1>1, <1>4, <1>8, <2>1 DEF TaskHandled
  <2>2. CASE fire[a].pc = "write" /\ RowTo(row.spec, NextAfter(a), fire[a].result)
    <3>1. NextAfter(a) = None /\ fire[a].result = "failed"
      BY <1>2, <1>3, <2>2 DEF NextAfter, Rearms
    <3>2. RowTo(row.spec, None, "failed")
      BY <2>2, <3>1
    <3> QED BY <1>1, <1>4, <1>8, <2>2, <3>2 DEF TaskHandled
  <2> QED BY <1>8, <2>1, <2>2 DEF Notes
<1>9. ~Recurs(a) /\ ~Waits(a) /\ ~Arms(a) /\ ~Clears(a)
  BY <1>2, <1>3 DEF Recurs, Waits, Arms, Clears
<1> QED BY <1>1, <1>5, <1>6, <1>7, <1>8, <1>9 DEF Handled

LEMMA CommittedElsewhere ==
  ASSUME Base, NEW m \in Moments
  PROVE  \A j \in Moments \ {m} : Committed(m)[j] = events[j]
BY DEF Base, Typed, Committed

LEMMA HandledKeeps ==
  ASSUME Task, NEW m \in Moments, Handled(m), UNCHANGED <<edits, desk, rec, saga, notices>>
  PROVE  Keeps(At(row.spec))
<1>1. PICK a : a = At(row.spec) /\ m = a
  BY ItsHandler
<1>2. /\ fire[a].pc \notin {"wait", "ensure"} /\ fire[a].next = None /\ a \in Moments
      /\ saga = "idle" /\ ~limited /\ DesksKeep(a, row.spec, desk) /\ RecKeeps(a, rec)
      /\ row.nextRun \in {None, a} /\ Typed /\ Base
  BY <1>1, TaskNow DEF OnlyItsMoment
<1>3. TaskHandled(a)
  BY <1>1, TaskHandlers
<1>4. LeftFalls /\ UNCHANGED limited
  BY <1>3 DEF TaskHandled
<1>5. left'["limit"] = 0
  BY <1>4, LimitStays
<1>6. row'.spec = row.spec /\ row'.nextRun \in {None, a}
  <2>1. CASE UNCHANGED row
    BY <1>2, <2>1
  <2>2. ASSUME NEW result, RowTo(row.spec, None, result)
        PROVE  row'.spec = row.spec /\ row'.nextRun \in {None, a}
    BY <1>1, <2>2, RowKeeps
  <2>3. CASE Commits(a)
    <3>1. RowTo(row.spec, None, "delivering")
      BY <1>2, <2>3, WriteDelivering DEF Commits, Task
    <3> QED BY <2>2, <3>1
  <2> QED BY <1>3, <2>1, <2>2, <2>3 DEF TaskHandled, Begins, Stops, LooksAt, Asks, Proceeds, GivesUp
<1>7. \A j \in Moments \ {a} : jobs'[j] = jobs[j]
  BY <1>3 DEF TaskHandled, Begins, Stops, Notes, LooksAt, Asks, Proceeds, GivesUp, Commits, FEnds, FGoes,
              JobAt
<1>8. \A j \in Moments \ {a} : events'[j] = events[j]
  <2>1. CASE UNCHANGED events
    BY <2>1
  <2>2. CASE Commits(a)
    BY <1>2, <2>2, CommittedElsewhere DEF Commits
  <2> QED BY <1>3, <2>1, <2>2 DEF TaskHandled, Begins, Stops, Notes, LooksAt, Asks, Proceeds, GivesUp
<1>9. \E pc, spec, result : /\ FireAt(fire', a, pc, spec, result, None)
                            /\ pc \notin {"wait", "ensure"}
  <2>1. CASE Begins(a)
    BY <1>2, <2>1 DEF Begins
  <2>2. CASE Stops(a) \/ Notes(a)
    BY <2>2 DEF Stops, Notes, FEnds
  <2>3. CASE LooksAt(a)
    <3>1. OnceFireAction \notin {"wait", "ensure"}
      BY DEF OnceFireAction
    <3>2. FireAt(fire', a, OnceFireAction, row.spec, fire[a].result, None)
      BY <1>2, <2>3 DEF LooksAt, FGoes
    <3> QED BY <3>1, <3>2
  <2>4. CASE FGoes(a, "commit", fire[a].spec, fire[a].result, fire[a].next)
    BY <1>2, <2>4 DEF FGoes
  <2>5. CASE FGoes(a, "write", fire[a].spec, "failed", None)
    BY <2>5 DEF FGoes
  <2>6. CASE Commits(a)
    BY <1>2, <2>6 DEF Commits, FGoes
  <2>7. CASE Asks(a)
    <3>1. PICK pc \in {"missed", "payload"} : FireAt(fire', a, pc, fire[a].spec, fire[a].result, None)
      BY <1>2, <2>7 DEF Asks, FGoes
    <3> QED BY <3>1
  <2> QED BY <1>3, <2>1, <2>2, <2>3, <2>4, <2>5, <2>6, <2>7 DEF TaskHandled
<1>10. OnlyItsMoment(a, fire', jobs', events')
  BY <1>1, <1>7, <1>8, <1>9, HandlerMovesKeep
<1> QED BY <1>1, <1>2, <1>4, <1>5, <1>6, <1>10 DEF Keeps

LEMMA QueueKeeps ==
  ASSUME Task, NEW a, a = At(row.spec), NEW x \in {None, a}, QueueMoves(x), UNCHANGED <<fire, events>>
  PROVE  OnlyItsMoment(a, fire', jobs', events')
<1>1. OnlyItsMoment(a, fire, jobs, events) /\ None \notin Moments
  BY TaskNow, ScheduleAssumption, MomentsAreNumbers
<1>2. ASSUME NEW j \in Moments, j # a
      PROVE  jobs'[j].st = "none"
  BY <1>1, <1>2 DEF QueueMoves, OnlyItsMoment
<1> QED BY <1>1, <1>2 DEF OnlyItsMoment

LEMMA JobLostKeeps ==
  ASSUME Task, NEW m \in Moments, JobLost(m), UNCHANGED <<fireVars, edits, desk, rec, saga, notices>>
  PROVE  Keeps(At(row.spec))
<1>1. PICK a : a = At(row.spec)
  OBVIOUS
<1>2. QueueMoves(None) /\ LeftFalls /\ UNCHANGED <<now, row, events, fire, limited>>
  BY JobLostFacts DEF Task, fireVars
<1>3. OnlyItsMoment(a, fire', jobs', events') /\ left'["limit"] = 0
  BY <1>1, <1>2, QueueKeeps, LimitStays
<1> QED BY <1>1, <1>2, <1>3, TaskNow DEF Keeps

LEMMA WorldKeeps ==
  ASSUME Task, AgentChanges \/ LimitReached, UNCHANGED <<edits, desk, rec, saga, notices>>
  PROVE  Keeps(At(row.spec)) /\ AgentChanges
<1>1. PICK a : a = At(row.spec)
  OBVIOUS
<1>2. ~LimitReached
  BY <1>1, TaskNow, LeftSpent DEF LimitReached, Disturbances, Spend
<1>3. LeftFalls /\ UNCHANGED <<now, row, jobs, events, fire, limited>>
  BY <1>2, LeftSpent DEF Task, Base, AgentChanges, Disturbances
<1>4. left'["limit"] = 0
  BY <1>3, LimitStays
<1>5. OnlyItsMoment(a, fire', jobs', events')
  BY <1>1, <1>3, TaskNow DEF OnlyItsMoment
<1> QED BY <1>1, <1>2, <1>3, <1>4, <1>5, TaskNow DEF Keeps

LEMMA UpcomingKept ==
  ASSUME Task, NEW a, a = At(row.spec)
  PROVE  Upcoming(row) \in {None, a} /\ (OnceFireAt(row) # None => RestoreAt(row) = a)
<1>1. OnceFireAt(row) \in {None, a} /\ row.kind = "once" /\ row.nextRun \in {None, a} /\ a \in Nat
  BY TaskNow, DueTypes, MomentsAreNumbers
<1> QED BY <1>1 DEF Upcoming, RestoreAt

LEMMA DesksMoveKeep ==
  ASSUME Task, NEW a, a = At(row.spec), NEW o \in Desks, NEW pc, NEW spec, NEW next,
         DeskAt(o, pc, spec, next), pc = "spec" => spec = row.spec,
         pc \in {"write", "remove", "add"} => next \in {None, a}, pc = "add" => next = a
  PROVE  DesksKeep(a, row.spec, desk')
<1>1. DesksKeep(a, row.spec, desk)
  BY TaskNow
<1>2. ASSUME NEW p \in Desks
      PROVE  /\ desk'[p].pc = "spec" => desk'[p].spec = row.spec
             /\ desk'[p].pc \in {"write", "remove", "add"} => desk'[p].next \in {None, a}
             /\ desk'[p].pc = "add" => desk'[p].next = a
  <2>1. CASE p = o
    <3>1. desk'[p].pc = pc /\ desk'[p].spec = spec /\ desk'[p].next = next
      BY <2>1 DEF DeskAt
    <3> QED BY <3>1
  <2>2. CASE p # o
    BY <1>1, <2>2 DEF DeskAt, DesksKeep
  <2> QED BY <2>1, <2>2
<1> QED BY <1>2 DEF DesksKeep

LEMMA DeskedKeeps ==
  ASSUME Task, NEW o \in Desks, Desked(o)
  PROVE  Keeps(At(row.spec))
<1>1. PICK a : a = At(row.spec)
  OBVIOUS
<1>2. /\ DesksKeep(a, row.spec, desk) /\ RecKeeps(a, rec) /\ saga = "idle" /\ ~limited
      /\ row.nextRun \in {None, a} /\ edits \subseteq {row.spec} /\ row.kind = "once"
      /\ Upcoming(row) \in {None, a}
  BY <1>1, TaskNow, UpcomingKept
<1>3. /\ desk[o].pc = "spec" => desk[o].spec = row.spec
      /\ desk[o].pc \in {"write", "remove", "add"} => desk[o].next \in {None, a}
      /\ desk[o].pc = "add" => desk[o].next = a
  BY <1>2 DEF DesksKeep
<1>4. LeftFalls /\ UNCHANGED <<now, events, fire, limited, edits, rec, saga, notices>>
  BY DEF Desked, fireVars
<1>5. left'["limit"] = 0
  BY <1>4, LimitStays
<1>6. row'.spec = row.spec /\ row'.nextRun \in {None, a}
  <2>1. CASE UNCHANGED row
    BY <1>2, <2>1
  <2>2. ASSUME NEW next, RowTo(row.spec, next, row.result), next \in {None, a}
        PROVE  row'.spec = row.spec /\ row'.nextRun \in {None, a}
    BY <1>1, <2>2, RowKeeps
  <2>3. CASE SpecSaved(o)
    <3>1. RowTo(row.spec, row.nextRun, row.result)
      BY <1>3, <2>3 DEF SpecSaved
    <3> QED BY <1>2, <2>2, <3>1
  <2>4. CASE NextSaved(o)
    <3>1. RowTo(row.spec, desk[o].next, row.result) /\ desk[o].next \in {None, a}
      BY <1>3, <2>4 DEF NextSaved
    <3> QED BY <2>2, <3>1
  <2>5. CASE Cancelled(o)
    BY <1>2, <2>2, <2>5 DEF Cancelled
  <2> QED BY <2>1, <2>3, <2>4, <2>5 DEF Desked, Asked, Synced, Rearmed
<1>7. OnlyItsMoment(a, fire', jobs', events')
  <2>1. \E x \in {None, a} : QueueMoves(x)
    <3>1. CASE UNCHANGED jobs
      BY <3>1, QueueFacts DEF Task
    <3>2. CASE Rearmed(o)
      BY <1>3, <3>2 DEF Rearmed
    <3> QED BY <3>1, <3>2 DEF Desked, Asked, SpecSaved, Synced, NextSaved, Cancelled
  <2> QED BY <1>1, <1>4, <2>1, QueueKeeps
<1>8. DesksKeep(a, row.spec, desk')
  <2>1. ASSUME NEW pc, NEW spec, NEW next,
               DeskAt(o, pc, spec, next), pc = "spec" => spec = row.spec,
               pc \in {"write", "remove", "add"} => next \in {None, a}, pc = "add" => next = a
        PROVE  DesksKeep(a, row.spec, desk')
    BY <1>1, <2>1, DesksMoveKeep
  <2>2. DeskAt(o, "idle", {}, None) => DesksKeep(a, row.spec, desk')
    BY <2>1
  <2>3. ASSUME NEW spec, NEW next, DeskAt(o, "cancel", spec, next) \/ DeskAt(o, "clear", spec, next)
                 \/ DeskAt(o, "delete", spec, next) \/ DeskAt(o, "sync", spec, next)
        PROVE  DesksKeep(a, row.spec, desk')
    BY <2>1, <2>3
  <2>4. CASE Asked(o)
    <3>1. CASE \E spec \in edits : DeskAt(o, "spec", spec, None)
      BY <1>2, <2>1, <3>1
    <3>2. CASE DeskAt(o, "cancel", {}, None) \/ DeskAt(o, "idle", {}, None)
      BY <2>2, <2>3, <3>2
    <3> QED BY <1>2, <2>4, <3>1, <3>2 DEF Asked
  <2>5. CASE SpecSaved(o)
    <3>1. CASE \E pc \in {"sync", "cancel"} : DeskAt(o, pc, desk[o].spec, desk[o].next)
      BY <2>3, <3>1
    <3> QED BY <2>2, <2>5, <3>1 DEF SpecSaved
  <2>6. CASE Synced(o)
    <3>1. CASE DeskAt(o, "write", desk[o].spec, Upcoming(row))
      <4>1. PICK x : x = Upcoming(row)
        OBVIOUS
      <4> QED BY <1>2, <2>1, <3>1, <4>1
    <3>2. CASE DeskAt(o, "cancel", desk[o].spec, Upcoming(row))
      <4>1. PICK x : x = Upcoming(row)
        OBVIOUS
      <4> QED BY <2>3, <3>2, <4>1
    <3> QED BY <2>6, <3>1, <3>2 DEF Synced
  <2>7. CASE NextSaved(o)
    BY <1>3, <2>1, <2>7 DEF NextSaved
  <2>8. CASE Rearmed(o)
    <3>1. CASE desk[o].pc = "remove" /\ desk[o].next # None
               /\ DeskAt(o, "add", desk[o].spec, desk[o].next)
      BY <1>3, <2>1, <3>1
    <3>2. CASE DeskAt(o, "clear", desk[o].spec, desk[o].next)
      BY <2>3, <3>2
    <3> QED BY <2>2, <2>8, <3>1, <3>2 DEF Rearmed
  <2>9. CASE Cancelled(o)
    BY <2>2, <2>3, <2>9 DEF Cancelled
  <2> QED BY <2>4, <2>5, <2>6, <2>7, <2>8, <2>9 DEF Desked
<1>9. RecKeeps(a, rec')
  BY <1>2, <1>4
<1> QED BY <1>1, <1>2, <1>4, <1>5, <1>6, <1>7, <1>8, <1>9 DEF Keeps

LEMMA RecMovesKeep ==
  ASSUME Task, Restores
  PROVE  Keeps(At(row.spec))
<1>1. PICK a : a = At(row.spec)
  OBVIOUS
<1>2. /\ DesksKeep(a, row.spec, desk) /\ RecKeeps(a, rec) /\ saga = "idle" /\ ~limited
      /\ row.nextRun \in {None, a} /\ row.kind = "once" /\ left["limit"] = 0
      /\ (OnceFireAt(row) # None => RestoreAt(row) = a)
  BY <1>1, TaskNow, UpcomingKept
<1>3. UNCHANGED <<now, events, left, fire, limited, edits, desk, saga, notices>>
  BY DEF Restores, fireVars
<1>4. RecKeeps(a, rec')
  BY <1>2 DEF Restores, RecTo, RecKeeps
<1>5. row'.spec = row.spec /\ row'.nextRun \in {None, a}
  <2>1. CASE UNCHANGED row
    BY <1>2, <2>1
  <2>2. CASE RowTo(row.spec, None, "missed")
    BY <1>1, <2>2, RowKeeps
  <2>3. CASE rec.pc = "write" /\ RowTo(row.spec, rec.next, row.result)
    <3>1. rec.next \in {None, a}
      BY <1>2, <2>3 DEF RecKeeps
    <3> QED BY <1>1, <2>3, <3>1, RowKeeps
  <2> QED BY <2>1, <2>2, <2>3 DEF Restores
<1>6. OnlyItsMoment(a, fire', jobs', events')
  <2>1. \E x \in {None, a} : QueueMoves(x)
    <3>1. CASE UNCHANGED jobs
      BY <3>1, QueueFacts DEF Task
    <3>2. CASE rec.pc = "ensure" /\ QueueMoves(rec.next)
      BY <1>2, <3>2 DEF RecKeeps
    <3> QED BY <3>1, <3>2 DEF Restores
  <2> QED BY <1>1, <1>3, <2>1, QueueKeeps
<1> QED BY <1>1, <1>2, <1>3, <1>4, <1>5, <1>6 DEF Keeps

LEMMA NoSaga ==
  ASSUME Task
  PROVE  ~(LimitLifted \/ SagaStep \/ SagaFails)
<1>1. ~limited /\ saga = "idle"
  BY DEF Task, Steady, Calm
<1> QED BY <1>1 DEF LimitLifted, SagaStep, SagaClaims, SagaRemoves, SagaAdds, SagaFails

LEMMA DeliverKeeps ==
  ASSUME Task, NEW m \in Moments, Settles(m) \/ Expires(m)
  PROVE  Keeps(At(row.spec)) /\ m = At(row.spec)
<1>1. PICK a : a = At(row.spec)
  OBVIOUS
<1>2. events[m].st = "sent" /\ UNCHANGED <<now, row, jobs, left, fire, limited, edits, desk, rec, saga>>
  BY DeliverFacts DEF Task, fireVars
<1>3. \A j \in Moments \ {m} : events'[j] = events[j]
  BY DeliverFacts DEF Task, EventTo
<1>4. OnlyItsMoment(a, fire, jobs, events)
  BY <1>1, TaskNow
<1>5. m = a
  BY <1>2, <1>4 DEF OnlyItsMoment
<1>6. OnlyItsMoment(a, fire', jobs', events')
  BY <1>2, <1>3, <1>4, <1>5 DEF OnlyItsMoment
<1> QED BY <1>1, <1>2, <1>5, <1>6, TaskNow DEF Keeps

LEMMA RecordKeeps ==
  ASSUME Task, Recorded
  PROVE  Keeps(At(row.spec))
<1>1. PICK a : a = At(row.spec)
  OBVIOUS
<1>2. UNCHANGED <<now, jobs, events, fire, limited, edits, desk, rec, saga>> /\ LeftFalls
  BY DEF Recorded, fireVars
<1>3. left'["limit"] = 0 /\ row.nextRun \in {None, a}
  BY <1>1, <1>2, LimitStays, TaskNow
<1>4. row'.spec = row.spec /\ row'.nextRun \in {None, a}
  <2>1. CASE UNCHANGED row
    BY <1>3, <2>1
  <2>2. ASSUME NEW next, NEW result, RowTo(row.spec, next, result), next \in {None, a}
        PROVE  row'.spec = row.spec /\ row'.nextRun \in {None, a}
    BY <1>1, <2>2, RowKeeps
  <2> QED BY <1>3, <2>1, <2>2 DEF Recorded
<1>5. OnlyItsMoment(a, fire', jobs', events')
  BY <1>1, <1>2, TaskNow DEF OnlyItsMoment
<1> QED BY <1>1, <1>2, <1>3, <1>4, <1>5, TaskNow DEF Keeps

LEMMA TickKeeps ==
  ASSUME Task, Tick
  PROVE  Keeps(At(row.spec))
<1>1. PICK a : a = At(row.spec)
  OBVIOUS
<1>2. /\ LeftFalls /\ UNCHANGED <<row, jobs, events, fire, agent, edits, desk, rec, saga, notices>>
      /\ (~limited => ~limited')
  BY TickFacts DEF Task
<1>3. left'["limit"] = 0
  BY <1>2, LimitStays
<1>4. OnlyItsMoment(a, fire', jobs', events')
  BY <1>1, <1>2, TaskNow DEF OnlyItsMoment
<1> QED BY <1>1, <1>2, <1>3, <1>4, TaskNow DEF Keeps

LEMMA KindStays ==
  ASSUME Base, [Next]_vars
  PROVE  row'.kind = row.kind
<1>1. CASE UNCHANGED vars
  BY <1>1 DEF vars, scheduleVars
<1>2. CASE Next
  <2>1. UNCHANGED row \/ (\E spec, next, result : RowTo(spec, next, result)) \/ row' = WithNext(now)
    <3>1. CASE \E m \in Moments : Handled(m)
      <4>1. PICK m \in Moments : Handled(m)
        BY <3>1
      <4>2. Commits(m) /\ row.kind = "once" => RowTo(row.spec, None, "delivering")
        BY WriteDelivering DEF Commits, Base
      <4> QED BY <4>1, <4>2 DEF Handled, Begins, Stops, Notes, LooksAt, Asks, Proceeds, GivesUp, Recurs,
                                Commits, Waits, Arms, Clears
    <3>2. CASE \E o \in Desks : Desked(o)
      BY <3>2 DEF Desked, Asked, SpecSaved, Synced, NextSaved, Rearmed, Cancelled
    <3>3. CASE RecStep
      BY <3>3, RecKinds DEF Restores
    <3>4. CASE LimitLifted \/ SagaStep \/ SagaFails
      BY <3>4 DEF LimitLifted, SagaStep, SagaClaims, SagaRemoves, SagaAdds, SagaFails, scheduleVars
    <3>5. CASE Recorded
      BY <3>5 DEF Recorded
    <3>6. CASE \/ \E m \in Moments : JobLost(m) \/ Settles(m) \/ Expires(m)
               \/ AgentChanges \/ LimitReached \/ Tick
      BY <3>6 DEF JobLost, Settles, Expires, AgentChanges, LimitReached, Tick
    <3>7. Moves
      BY <1>2, StepMoves
    <3> QED BY <3>1, <3>2, <3>3, <3>4, <3>5, <3>6, <3>7 DEF Moves
  <2>2. CASE row' = WithNext(now)
    BY <2>2, RowParts DEF Base, WithNext, Rows
  <2> QED BY <2>1, <2>2 DEF RowTo, Becomes
<1> QED BY <1>1, <1>2

LEMMA TaskStep ==
  ASSUME Task, [Next]_vars
  PROVE  Task'
<1>0. Base
  BY DEF Task
<1>1. Base' /\ row'.kind = "once"
  BY <1>0, BaseStep, KindStays DEF Task
<1>2. CASE UNCHANGED vars
  BY <1>1, <1>2 DEF Task, Steady, Calm, OnlyItsMoment, DesksKeep, RecKeeps, vars, scheduleVars, fireVars
<1>3. CASE Next
  <2>1. Moves
    BY <1>0, <1>3, StepMoves
  <2>2. RecStep => Restores
    BY <1>0, RecKinds
  <2>3. Keeps(At(row.spec))
    BY <2>1, <2>2, HandledKeeps, JobLostKeeps, WorldKeeps, DeskedKeeps, RecMovesKeep, NoSaga,
       DeliverKeeps, RecordKeeps, TickKeeps, Zenon DEF Moves
  <2>4. Steady'
    BY <2>3, SteadyFromParts
  <2> QED BY <1>1, <2>4 DEF Task
<1> QED BY <1>2, <1>3

LEMMA TaskInit ==
  ASSUME Init, KeepsItsMoment, row.kind = "once"
  PROVE  Task
<1>1. /\ Base /\ row.nextRun = None /\ ~limited /\ rec.pc = "idle" /\ saga = "idle"
      /\ fire = [m \in Moments |-> NoFire] /\ jobs = [m \in Moments |-> NoJob]
      /\ \A m \in Moments : events[m].st = "none"
      /\ \A o \in Desks : desk[o].pc \in {"idle", "sync"}
  BY InitFacts
<1>2. NoFire.pc = "idle" /\ NoFire.next = None /\ NoJob.st = "none"
  BY DEF NoFire, NoJob
<1>3. OnlyItsMoment(At(row.spec), fire, jobs, events)
  BY <1>1, <1>2 DEF OnlyItsMoment
<1>4. DesksKeep(At(row.spec), row.spec, desk) /\ RecKeeps(At(row.spec), rec)
  BY <1>1 DEF DesksKeep, RecKeeps
<1> QED BY <1>1, <1>3, <1>4 DEF Task, Steady, Calm, KeepsItsMoment

---------------------------------------------------------------------------
(* What the row says of the task *)

(* No fire lasts into the next moment: its handler and its retries end     *)
(* before the window it looked at may have closed.                         *)
FiresInTime == row.kind = "once" => left["slow"] = 0

(* The row r, the event's state st and those at work agree: who is about   *)
(* to send has the window open and nothing sent yet, who is about to call  *)
(* it missed knows that nothing was sent.                                  *)
Honest(expiry, r, pc, rp, st, t) ==
  /\ pc \in {"disabled", "payload", "commit"} => t < expiry
  /\ r.there =>
       /\ st # "none" => r.fired /\ r.result # None
       /\ pc = "missed" => st = "none"
       /\ rp = "missed" => st = "none" /\ expiry <= t
       /\ pc \in {"disabled", "payload", "commit"} => st = "none" /\ r.result # "missed"
       /\ r.result = "missed" => st \in {"none", "expired"}
       /\ r.result = "success" => st = "settled"
       /\ r.result = "delivering" => st # "none"

NoticeOf(n, st) == st = IF n.as = "success" THEN "settled" ELSE "expired"

Truth ==
  /\ left["slow"] = 0 /\ \A n \in notices : NoticeOf(n, events[n.at].st)
  /\ Honest(OnceExpiry(row.spec), row, fire[At(row.spec)].pc, rec.pc, events[At(row.spec)].st, now)

TrueTask == Task /\ Truth

(* The same after a step, seen from before it. *)
StaysTrue(a) ==
  /\ left'["slow"] = 0 /\ \A n \in notices' : NoticeOf(n, events'[n.at].st)
  /\ Honest(OnceExpiry(row.spec), row', fire'[a].pc, rec'.pc, events'[a].st, now')

LEMMA TruthFromParts ==
  ASSUME TrueTask, row'.spec = row.spec, StaysTrue(At(row.spec))
  PROVE  Truth'
<1>1. At(row.spec)' = At(row.spec) /\ OnceExpiry(row.spec)' = OnceExpiry(row.spec)
  OBVIOUS
<1> QED BY <1>1 DEF StaysTrue, Truth, Honest, NoticeOf

LEMMA TruthNow ==
  ASSUME TrueTask, NEW a, a = At(row.spec), NEW x, x = OnceExpiry(row.spec)
  PROVE  /\ left["slow"] = 0 /\ \A n \in notices : NoticeOf(n, events[n.at].st)
         /\ Honest(x, row, fire[a].pc, rec.pc, events[a].st, now)
         /\ Task /\ Base /\ Typed /\ row.kind = "once" /\ a \in Moments /\ x \in Nat /\ now \in Nat
<1>1. Task /\ Base /\ Typed
  BY DEF TrueTask, Task, Base
<1>2. now \in Nat /\ x \in Nat /\ a \in Moments
  BY <1>1, RowParts, AtIsAMoment, MomentsAreNumbers DEF Typed
<1> QED BY <1>1, <1>2 DEF TrueTask, Truth, Task

LEMMA SlowStays ==
  ASSUME TrueTask, LeftFalls
  PROVE  left'["slow"] = 0
BY DEF TrueTask, Truth, LeftFalls, Disturbances

(* The row is written without touching the result. *)
LEMMA RowHonest ==
  ASSUME TrueTask, NEW x, NEW pc, NEW rp, NEW st, NEW t, Honest(x, row, pc, rp, st, t),
         NEW spec, NEW next, RowTo(spec, next, row.result)
  PROVE  Honest(x, row', pc, rp, st, t)
<1>1. (row'.there => row.there) /\ (row.fired => row'.fired) /\ row'.result = row.result
  BY DEF RowTo, Becomes
<1> QED BY <1>1 DEF Honest

(* The row gets another result. *)
LEMMA ResultHonest ==
  ASSUME TrueTask, NEW x, NEW pc, NEW rp, NEW st, NEW t, NEW spec, NEW next, NEW result,
         RowTo(spec, next, result), Honest(x, row, pc, rp, st, t), result # None,
         result # "delivering",
         row.there /\ result = "missed" => /\ pc \notin {"disabled", "payload", "commit"}
                                           /\ st \in {"none", "expired"},
         row.there /\ result = "success" => st = "settled"
  PROVE  Honest(x, row', pc, rp, st, t)
<1>1. CASE row' = row
  BY <1>1
<1>2. CASE Becomes(row', spec, next, result)
  <2>1. (row'.there => row.there) /\ (row.fired => row'.fired) /\ row'.result = result
    BY <1>2 DEF Becomes
  <2> QED BY <2>1 DEF Honest
<1> QED BY <1>1, <1>2 DEF RowTo

LEMMA TaskHandledTrue ==
  ASSUME TrueTask, NEW m \in Moments, Handled(m), UNCHANGED <<edits, desk, rec, saga, notices>>
  PROVE  StaysTrue(At(row.spec))
<1>1. PICK a : a = At(row.spec) /\ m = a
  BY ItsHandler DEF TrueTask
<1>2. PICK x : x = OnceExpiry(row.spec)
  OBVIOUS
<1>3. /\ Honest(x, row, fire[a].pc, rec.pc, events[a].st, now) /\ Task /\ Typed /\ row.kind = "once"
      /\ \A n \in notices : NoticeOf(n, events[n.at].st)
      /\ a \in Moments /\ x \in Nat /\ now \in Nat
  BY <1>1, <1>2, TruthNow
<1>4. TaskHandled(a)
  BY <1>1, <1>3, TaskHandlers
<1>5. UNCHANGED now /\ left'["slow"] = 0
  BY <1>4, SlowStays DEF TaskHandled
<1>6. CASE Commits(a)
  <2>1. /\ fire[a].pc = "commit" /\ events' = Committed(a) /\ fire'[a].pc = "poke"
        /\ Write(Delivering)
    BY <1>3, <1>6 DEF Commits, FGoes, FireAt
  <2>2. row'.there => row.there /\ row'.fired /\ row'.result = "delivering"
    <3>1. RowTo(row.spec, None, "delivering") /\ (row'.there => row'.fired /\ row'.result = "delivering")
      BY <1>3, <2>1, WriteDelivering
    <3> QED BY <3>1 DEF RowTo, Becomes
  <2>3. events \in [Moments -> Sent]
    BY <1>3 DEF Typed
  <2>4. CASE events[a].st = "none"
    <3>1. PICK e : events' = [events EXCEPT ![a] = [st |-> "sent", exp |-> e]]
      BY <2>1, <2>4 DEF Committed
    <3>2. events'[a].st = "sent" /\ \A j \in Moments \ {a} : events'[j] = events[j]
      BY <1>3, <2>3, <3>1
    <3>3. Honest(x, row', fire'[a].pc, rec'.pc, events'[a].st, now')
      BY <1>3, <1>5, <2>1, <2>2, <3>2, ScheduleAssumption DEF Honest
    <3>4. ASSUME NEW n \in notices PROVE NoticeOf(n, events'[n.at].st)
      <4>1. n.at \in Moments /\ NoticeOf(n, events[n.at].st)
        BY <1>3 DEF Typed
      <4>2. n.at # a
        BY <2>4, <4>1 DEF NoticeOf
      <4> QED BY <3>2, <4>1, <4>2
    <3> QED BY <1>1, <1>2, <1>5, <3>3, <3>4 DEF StaysTrue
  <2>5. CASE events[a].st # "none"
    <3>1. events' = events
      BY <2>1, <2>5 DEF Committed
    <3>2. Honest(x, row', fire'[a].pc, rec'.pc, events'[a].st, now')
      BY <1>3, <1>5, <2>1, <2>2, <2>5, <3>1 DEF Honest
    <3> QED BY <1>1, <1>2, <1>3, <1>5, <3>1, <3>2 DEF StaysTrue
  <2> QED BY <2>4, <2>5
<1>7. CASE ~Commits(a)
  <2>1. UNCHANGED events
    BY <1>4, <1>7 DEF TaskHandled, Begins, Stops, Notes, LooksAt, Asks, Proceeds, GivesUp
  <2>2. Honest(x, row', fire'[a].pc, rec.pc, events[a].st, now)
    <3>1. CASE Begins(a)
      BY <1>3, <3>1 DEF Begins, FireAt, Honest
    <3>2. CASE Stops(a)
      BY <1>3, <3>2 DEF Stops, FEnds, FireAt, Honest
    <3>3. CASE LooksAt(a)
      <4>1. fire'[a].pc = OnceFireAction /\ row' = row /\ row.there /\ OnceFireAction # "drop"
        BY <3>3 DEF LooksAt, FGoes, FireAt
      <4>2. CASE OnceFireAction = "poke"
        BY <1>3, <4>1, <4>2 DEF Honest
      <4>3. CASE OnceFireAction = "missed"
        <5>1. row.result = None
          BY <4>3 DEF OnceFireAction
        <5> QED BY <1>3, <4>1, <4>3, <5>1 DEF Honest
      <4>4. CASE OnceFireAction = "disabled"
        <5>1. row.result = None /\ now < x
          BY <1>2, <1>3, <4>4 DEF OnceFireAction
        <5>2. row.result # "missed"
          BY <5>1, ScheduleAssumption
        <5> QED BY <1>3, <4>1, <4>4, <5>1, <5>2 DEF Honest
      <4>5. OnceFireAction \in {"poke", "missed", "disabled"}
        BY <4>1 DEF OnceFireAction
      <4> QED BY <4>2, <4>3, <4>4, <4>5
    <3>8. CASE Asks(a)
      <4>1. fire'[a].pc \in {"missed", "payload"} /\ fire[a].pc = "disabled" /\ row' = row
        BY <3>8 DEF Asks, FGoes, FireAt
      <4> QED BY <1>3, <4>1 DEF Honest
    <3>4. CASE Proceeds(a) /\ FGoes(a, "commit", fire[a].spec, fire[a].result, fire[a].next)
      <4>1. fire'[a].pc = "commit" /\ fire[a].pc = "payload" /\ row' = row
        BY <3>4 DEF Proceeds, FGoes, FireAt
      <4> QED BY <1>3, <4>1 DEF Honest
    <3>5. CASE GivesUp(a) /\ FGoes(a, "write", fire[a].spec, "failed", None)
      <4>1. fire'[a].pc = "write" /\ row' = row
        BY <3>5 DEF GivesUp, FGoes, FireAt
      <4> QED BY <1>3, <4>1 DEF Honest
    <3>6. CASE Notes(a) /\ fire[a].pc = "missed" /\ RowTo(row.spec, None, "missed")
      <4>1. fire'[a].pc = "idle"
        BY <3>6 DEF Notes, FEnds, FireAt
      <4>2. Honest(x, row, fire'[a].pc, rec.pc, events[a].st, now)
        BY <1>3, <4>1 DEF Honest
      <4>3. row.there => events[a].st = "none"
        BY <1>3, <3>6 DEF Honest
      <4> QED BY <3>6, <4>1, <4>2, <4>3, ResultHonest, ScheduleAssumption
    <3>7. CASE Notes(a) /\ fire[a].pc = "write" /\ RowTo(row.spec, None, "failed")
      <4>1. fire'[a].pc = "idle"
        BY <3>7 DEF Notes, FEnds, FireAt
      <4>2. Honest(x, row, fire'[a].pc, rec.pc, events[a].st, now)
        BY <1>3, <4>1 DEF Honest
      <4> QED BY <3>7, <4>1, <4>2, ResultHonest, ScheduleAssumption
    <3> QED BY <1>4, <1>7, <3>1, <3>2, <3>3, <3>4, <3>5, <3>6, <3>7, <3>8 DEF TaskHandled
  <2> QED BY <1>1, <1>2, <1>3, <1>5, <2>1, <2>2 DEF StaysTrue
<1> QED BY <1>6, <1>7

(* A step elsewhere that keeps the handlers, the events and the time. *)
LEMMA ElsewhereTrue ==
  ASSUME TrueTask, LeftFalls, UNCHANGED <<now, events, fire, rec, notices>>,
         \/ UNCHANGED row
         \/ \E spec, next : RowTo(spec, next, row.result)
  PROVE  StaysTrue(At(row.spec))
<1>1. PICK a, x : a = At(row.spec) /\ x = OnceExpiry(row.spec)
  OBVIOUS
<1>2. Honest(x, row, fire[a].pc, rec.pc, events[a].st, now)
      /\ \A n \in notices : NoticeOf(n, events[n.at].st)
  BY <1>1, TruthNow
<1>3. Honest(x, row', fire[a].pc, rec.pc, events[a].st, now)
  BY <1>2, RowHonest
<1> QED BY <1>1, <1>2, <1>3, SlowStays DEF StaysTrue

LEMMA DeskedTrue ==
  ASSUME TrueTask, NEW o \in Desks, Desked(o)
  PROVE  StaysTrue(At(row.spec))
<1>1. LeftFalls /\ UNCHANGED <<now, events, fire, rec, notices>>
  BY DEF Desked, fireVars
<1>2. UNCHANGED row \/ \E spec, next : RowTo(spec, next, row.result)
  BY DEF Desked, Asked, SpecSaved, Synced, NextSaved, Rearmed, Cancelled
<1> QED BY <1>1, <1>2, ElsewhereTrue

LEMMA WorldTrue ==
  ASSUME TrueTask, UNCHANGED <<edits, desk, rec, saga, notices>>,
         AgentChanges \/ LimitReached \/ \E m \in Moments : JobLost(m) /\ UNCHANGED fireVars
  PROVE  StaysTrue(At(row.spec))
<1>1. LeftFalls /\ UNCHANGED <<now, row, events, fire>>
  BY LeftSpent DEF TrueTask, Task, Base, AgentChanges, LimitReached, JobLost, Disturbances, fireVars
<1> QED BY <1>1, ElsewhereTrue

LEMMA RecTrue ==
  ASSUME TrueTask, Restores
  PROVE  StaysTrue(At(row.spec))
<1>1. PICK a, x : a = At(row.spec) /\ x = OnceExpiry(row.spec)
  OBVIOUS
<1>2. /\ Honest(x, row, fire[a].pc, rec.pc, events[a].st, now) /\ Typed /\ row.kind = "once"
      /\ (\A n \in notices : NoticeOf(n, events[n.at].st)) /\ left["slow"] = 0
      /\ x \in Nat /\ now \in Nat /\ a # None
  BY <1>1, TruthNow, TaskNow
<1>3. UNCHANGED <<now, events, left, fire, notices>>
  BY DEF Restores, fireVars
<1>4. Honest(x, row', fire[a].pc, rec'.pc, events[a].st, now)
  <2>1. CASE row' = row /\ row.there /\ ~row.fired /\ OnceFireAt(row) = None /\ RecTo("missed", None)
    <3>1. x <= now
      BY <1>1, <1>2, <2>1 DEF OnceFireAt
    <3>2. events[a].st = "none"
      BY <1>2, <2>1 DEF Honest
    <3> QED BY <1>2, <2>1, <3>1, <3>2 DEF Honest, RecTo
  <2>2. CASE row' = row /\ rec'.pc # "missed"
    BY <1>2, <2>2 DEF Honest
  <2>3. CASE rec.pc = "missed" /\ RowTo(row.spec, None, "missed") /\ RecTo("idle", None)
    <3>1. rec'.pc = "idle"
      BY <2>3 DEF RecTo
    <3>2. Honest(x, row, fire[a].pc, rec'.pc, events[a].st, now)
      BY <1>2, <3>1 DEF Honest
    <3>3. row.there => events[a].st = "none" /\ fire[a].pc \notin {"disabled", "payload", "commit"}
      BY <1>2, <2>3 DEF Honest
    <3> QED BY <2>3, <3>1, <3>2, <3>3, ResultHonest, ScheduleAssumption
  <2>4. CASE RowTo(row.spec, rec.next, row.result) /\ rec'.pc # "missed"
    <3>1. Honest(x, row, fire[a].pc, rec'.pc, events[a].st, now)
      BY <1>2, <2>4 DEF Honest
    <3> QED BY <2>4, <3>1, RowHonest
  <2> QED BY <1>2, <2>1, <2>2, <2>3, <2>4 DEF Restores, RecTo
<1> QED BY <1>1, <1>2, <1>3, <1>4 DEF StaysTrue

LEMMA DeliverTrue ==
  ASSUME TrueTask, NEW m \in Moments, Settles(m) \/ Expires(m)
  PROVE  StaysTrue(At(row.spec))
<1>1. PICK a, x : a = At(row.spec) /\ x = OnceExpiry(row.spec)
  OBVIOUS
<1>2. /\ Honest(x, row, fire[a].pc, rec.pc, events[a].st, now) /\ Typed /\ Base
      /\ (\A n \in notices : NoticeOf(n, events[n.at].st)) /\ left["slow"] = 0
  BY <1>1, TruthNow
<1>3. m = a
  BY <1>1, DeliverKeeps DEF TrueTask
<1>4. /\ events[a].st = "sent" /\ UNCHANGED <<now, row, left, fire, rec>>
  BY <1>2, <1>3, DeliverFacts DEF fireVars
<1>5. PICK as \in {"success", "missed"} :
              /\ EventTo(m, IF as = "success" THEN "settled" ELSE "expired")
              /\ notices' = notices \cup {[at |-> m, as |-> as]}
  BY <1>2, DeliverFacts
<1>6. /\ events'[a].st = IF as = "success" THEN "settled" ELSE "expired"
      /\ \A j \in Moments \ {a} : events'[j] = events[j]
  BY <1>3, <1>5 DEF EventTo
<1>7. Honest(x, row', fire'[a].pc, rec'.pc, events'[a].st, now')
  BY <1>2, <1>4, <1>6 DEF Honest
<1>8. ASSUME NEW n \in notices' PROVE NoticeOf(n, events'[n.at].st)
  <2>1. CASE n = [at |-> m, as |-> as]
    BY <1>3, <1>6, <2>1 DEF NoticeOf
  <2>2. CASE n \in notices
    <3>1. n.at \in Moments /\ NoticeOf(n, events[n.at].st)
      BY <1>2, <2>2 DEF Typed
    <3>2. n.at # a
      BY <1>4, <3>1 DEF NoticeOf
    <3> QED BY <1>6, <3>1, <3>2
  <2> QED BY <1>5, <1>8, <2>1, <2>2
<1> QED BY <1>1, <1>2, <1>4, <1>7, <1>8 DEF StaysTrue

LEMMA RecordTrue ==
  ASSUME TrueTask, Recorded
  PROVE  StaysTrue(At(row.spec))
<1>1. PICK a, x : a = At(row.spec) /\ x = OnceExpiry(row.spec)
  OBVIOUS
<1>2. /\ Honest(x, row, fire[a].pc, rec.pc, events[a].st, now) /\ Typed
      /\ (\A n \in notices : NoticeOf(n, events[n.at].st))
      /\ OnlyItsMoment(a, fire, jobs, events)
  BY <1>1, TruthNow, TaskNow
<1>3. UNCHANGED <<now, events, fire, rec>> /\ LeftFalls /\ notices' \subseteq notices
  BY DEF Recorded, fireVars
<1>4. Honest(x, row', fire[a].pc, rec.pc, events[a].st, now)
  <2>1. CASE UNCHANGED row
    BY <1>2, <2>1
  <2>2. CASE \E n \in notices : RowTo(row.spec, row.nextRun, n.as)
    <3>1. PICK n \in notices : RowTo(row.spec, row.nextRun, n.as)
      BY <2>2
    <3>2. n.at \in Moments /\ n.as \in {"success", "missed"} /\ NoticeOf(n, events[n.at].st)
      BY <1>2 DEF Typed
    <3>3. n.at = a
      BY <1>2, <3>2 DEF NoticeOf, OnlyItsMoment
    <3>4. events[a].st = IF n.as = "success" THEN "settled" ELSE "expired"
      BY <3>2, <3>3 DEF NoticeOf
    <3>5. row.there => fire[a].pc \notin {"disabled", "payload", "commit"}
      BY <1>2, <3>4 DEF Honest
    <3>6. PICK as : as = n.as
      OBVIOUS
    <3> QED BY <1>2, <3>1, <3>2, <3>4, <3>5, <3>6, ResultHonest, ScheduleAssumption
  <2>3. CASE RowTo(row.spec, None, "failed")
    BY <1>2, <2>3, ResultHonest, ScheduleAssumption
  <2> QED BY <2>1, <2>2, <2>3 DEF Recorded
<1> QED BY <1>1, <1>2, <1>3, <1>4, SlowStays DEF StaysTrue

LEMMA TickTrue ==
  ASSUME TrueTask, Tick
  PROVE  StaysTrue(At(row.spec))
<1>1. PICK a, x : a = At(row.spec) /\ x = OnceExpiry(row.spec)
  OBVIOUS
<1>2. /\ Honest(x, row, fire[a].pc, rec.pc, events[a].st, now) /\ Base /\ a \in Moments
      /\ (\A n \in notices : NoticeOf(n, events[n.at].st)) /\ left["slow"] = 0
      /\ x \in Nat /\ now \in Nat
  BY <1>1, TruthNow
<1>3. /\ LeftFalls /\ now' = now + 1 /\ UNCHANGED <<row, events, fire, rec, notices>>
      /\ ~Firing
  BY <1>2, TickFacts
<1>4. fire[a].pc = "idle" /\ rec.pc = "idle"
  BY <1>2, <1>3 DEF Firing, Tick
<1>5. Honest(x, row', fire'[a].pc, rec'.pc, events'[a].st, now')
  BY <1>2, <1>3, <1>4 DEF Honest
<1> QED BY <1>1, <1>2, <1>3, <1>5, SlowStays DEF StaysTrue

LEMMA TrueTaskStep ==
  ASSUME TrueTask, [Next]_vars
  PROVE  TrueTask'
<1>0. Task /\ Base
  BY DEF TrueTask, Task
<1>1. Task'
  BY <1>0, TaskStep
<1>2. CASE UNCHANGED vars
  BY <1>1, <1>2 DEF TrueTask, Truth, Honest, NoticeOf, vars, scheduleVars, fireVars
<1>3. CASE Next
  <2>1. Moves
    BY <1>0, <1>3, StepMoves
  <2>2. RecStep => Restores
    BY <1>0, RecKinds
  <2>3. Keeps(At(row.spec))
    BY <1>0, <2>1, <2>2, HandledKeeps, JobLostKeeps, WorldKeeps, DeskedKeeps, RecMovesKeep, NoSaga,
       DeliverKeeps, RecordKeeps, TickKeeps, Zenon DEF Moves
  <2>4. StaysTrue(At(row.spec))
    BY <1>0, <2>1, <2>2, NoSaga, TaskHandledTrue, WorldTrue, DeskedTrue, RecTrue, DeliverTrue,
       RecordTrue, TickTrue, Zenon DEF Moves
  <2>5. Truth'
    BY <2>3, <2>4, TruthFromParts DEF Keeps
  <2> QED BY <1>1, <2>5 DEF TrueTask
<1> QED BY <1>2, <1>3

(* What the row says of a one-time task is true of its event: "success" is *)
(* written of a settled event, "missed" never of one that reaches the      *)
(* machine, "delivering" only of one that was sent, although the fire, the *)
(* reconcile, the owner and the listener of the outbox write the row       *)
(* without knowing of each other.                                          *)
THEOREM RowTellsTheTruth == Spec /\ KeepsItsMoment /\ FiresInTime => []OutcomeIsTrue
<1> DEFINE Inv == Base /\ (row.kind = "once" => TrueTask)
<1>1. Init /\ KeepsItsMoment /\ FiresInTime => Inv
  <2> SUFFICES ASSUME Init, KeepsItsMoment, FiresInTime PROVE Inv
    OBVIOUS
  <2>1. /\ Base /\ row.result = None /\ notices = {} /\ rec.pc = "idle"
        /\ fire = [m \in Moments |-> NoFire] /\ \A m \in Moments : events[m].st = "none"
    BY InitFacts
  <2>2. At(row.spec) \in Moments
    BY <2>1, RowParts, AtIsAMoment DEF Base
  <2>3. fire[At(row.spec)].pc = "idle" /\ events[At(row.spec)].st = "none"
    BY <2>1, <2>2 DEF NoFire
  <2>4. row.kind = "once" => Truth
    BY <2>1, <2>3, ScheduleAssumption DEF Truth, Honest, FiresInTime
  <2>5. row.kind = "once" => Task
    BY TaskInit
  <2> QED BY <2>1, <2>4, <2>5 DEF TrueTask
<1>2. Inv /\ [Next]_vars => Inv'
  <2> SUFFICES ASSUME Inv, [Next]_vars PROVE Inv'
    OBVIOUS
  <2>1. Base' /\ row'.kind = row.kind
    BY BaseStep, KindStays
  <2>2. row.kind = "once" => TrueTask'
    BY TrueTaskStep
  <2> QED BY <2>1, <2>2
<1>3. Inv => OutcomeIsTrue
  <2> SUFFICES ASSUME TrueTask, row.there PROVE OutcomeIsTrue
    BY DEF OutcomeIsTrue
  <2>1. PICK a, x : a = At(row.spec) /\ x = OnceExpiry(row.spec)
    OBVIOUS
  <2>2. Honest(x, row, fire[a].pc, rec.pc, events[a].st, now) /\ a \in Moments
        /\ OnlyItsMoment(a, fire, jobs, events)
    BY <2>1, TruthNow, TaskNow
  <2>3. row.result = "success" => \E m \in Moments : events[m].st = "settled"
    BY <2>2 DEF Honest
  <2>4. row.result = "missed" => \A m \in Moments : events[m].st # "settled"
    BY <2>2 DEF Honest, OnlyItsMoment
  <2>5. row.result = "delivering" => \E m \in Moments : events[m].st # "none"
    BY <2>2 DEF Honest
  <2> QED BY <2>3, <2>4, <2>5 DEF OutcomeIsTrue
<1> HIDE DEF Inv
<1> QED BY <1>1, <1>2, <1>3, PTL DEF Spec
=============================================================================
