--------------------------- MODULE SatellitesTurns --------------------------
(***************************************************************************)
(* The announcement of outcomes, proved for every number of jobs, workers, *)
(* requests and deliveries of a satellite that is not removed: an outcome  *)
(* is told to its agent in one turn at most, and none is purged that was   *)
(* not told.                                                               *)
(***************************************************************************)
EXTENDS SatellitesProofs

(* The satellite is not removed, so its numbers do not come back. *)
NameKept == left["remove"] = 0 /\ removing = "no" /\ sat.reg # NoReg

Writing(d) == deliver[d].phase = "write"

Announcing(d, n) == Writing(d) /\ \E t \in deliver[d].told : t[2] = n

(* A delivery about to write its turn has claimed the rows the turn is     *)
(* about, and none of these was told before.                               *)
TurnClaimed(d) ==
  Writing(d) =>
    /\ \A j \in deliver[d].seqs : \E t \in deliver[d].told : t[1] = j
    /\ \A t \in deliver[d].told :
         /\ t[1] \in deliver[d].seqs /\ t[1] < sat.next /\ t[2] \in 1 .. hist.calls
         /\ hist.turns[t[2]] = 0
         /\ \A i \in Present(jobs) : jobs[i].call = t[2] <=> i = t[1]
         /\ t[1] \in Present(jobs) => jobs[t[1]].delivered

TurnsClaimed == \A d \in Deliveries : TurnClaimed(d)

OneAnnounces ==
  \A d, e \in Deliveries, n \in Calls : Announcing(d, n) /\ Announcing(e, n) => d = e

TurnsCounted ==
  \A n \in Calls : hist.turns[n] <= 1 /\ (n > hist.calls => hist.turns[n] = 0)

(* What is owed was not told; what is not owed was told, is being told, or *)
(* was left claimed by a delivery or a request that died.                  *)
OwedIsUntold ==
  \A j \in Present(jobs) : ~jobs[j].delivered => hist.turns[jobs[j].call] = 0

Returning(n) ==
  \E o \in Agents \cup Owners : op[o].phase = "claimed" /\ op[o].saw = n

Accounted(n) ==
  \/ Told(n) \/ n \in hist.orphaned \/ Returning(n)
  \/ \E d \in Deliveries : Announcing(d, n)

ClaimedIsAccounted ==
  \A j \in Present(jobs) : jobs[j].delivered => Accounted(jobs[j].call)

(* A request about to return an outcome returns that of its row. *)
SeesItsRow ==
  \A o \in Agents \cup Owners : op[o].phase = "see" =>
    /\ op[o].seq < sat.next
    /\ op[o].seq \in Present(jobs) => jobs[op[o].seq].call = op[o].saw

Turns == /\ TurnsClaimed /\ OneAnnounces /\ TurnsCounted
         /\ OwedIsUntold /\ ClaimedIsAccounted /\ SeesItsRow

---------------------------------------------------------------------------
(* The steps that neither claim, release nor write a turn *)

NameStays == left'["remove"] = left["remove"] /\ removing' = removing /\ sat'.reg # NoReg

HistoryStays ==
  /\ hist'.turns = hist.turns
  /\ hist.seen \subseteq hist'.seen /\ hist.orphaned \subseteq hist'.orphaned

(* No row is owed again, and one that is no longer owed is being returned. *)
FlagsStay ==
  \A j \in Seqs : jobs'[j].status # "absent" =>
    IF jobs[j].status = "absent" THEN ~jobs'[j].delivered
    ELSE \/ jobs'[j].delivered = jobs[j].delivered
         \/ /\ jobs'[j].delivered
            /\ \E o \in Agents \cup Owners :
                 op'[o].phase = "claimed" /\ op'[o].saw = jobs[j].call

DeliveriesStay ==
  \A d \in Deliveries :
    /\ deliver'[d].phase = "write" => deliver'[d] = deliver[d]
    /\ Writing(d) => \/ deliver'[d] = deliver[d]
                     \/ \A t \in deliver[d].told : t[2] \in hist'.orphaned

(* A request that claimed an outcome keeps it until it has returned it or  *)
(* dies.                                                                   *)
LetsGo(o) == op[o].phase = "claimed" => op[o].saw \in hist'.seen \cup hist'.orphaned

SeersStay ==
  \A o \in Agents \cup Owners :
    /\ op'[o] = op[o] \/ LetsGo(o)
    /\ op'[o].phase = "see" =>
         \/ op'[o] = op[o]
         \/ op'[o].seq \in Present(jobs) /\ jobs[op'[o].seq].call = op'[o].saw

Calm == NameStays /\ HistoryStays /\ FlagsStay /\ DeliveriesStay /\ SeersStay

(* A row that is there was there with its call, or is the new one. *)
LEMMA RowsFollow ==
  ASSUME Typed, RowsKept, RowStep, sat.reg # NoReg, sat'.reg # NoReg
  PROVE  /\ sat.next <= sat'.next /\ hist.calls <= hist'.calls
         /\ \A j \in Present(jobs') :
              \/ j \in Present(jobs) /\ jobs'[j].call = jobs[j].call
              \/ /\ j \notin Present(jobs) /\ j = sat.next
                 /\ jobs'[j].call = hist.calls + 1 /\ hist.calls + 1 \in Calls
<1> USE RowFacts
<1>1. CASE Moves
  <2>1. ASSUME NEW j \in Present(jobs')
        PROVE  j \in Present(jobs) /\ jobs'[j].call = jobs[j].call
    <3>1. j \in Seqs /\ jobs'[j].status # "absent" /\ RowMoves(jobs[j], jobs'[j])
      BY <1>1 DEF Moves, Present
    <3> QED
      BY <3>1 DEF RowMoves, NoJob, SameCore, Present
  <2> QED
    BY <1>1, <2>1 DEF Moves
<1>2. CASE Inserts
  <2>1. /\ hist.calls + 1 \in Calls /\ sat.next \in Seqs
        /\ \A j \in Seqs \ {sat.next} : jobs'[j] = jobs[j]
        /\ jobs'[sat.next].call = hist.calls + 1
    BY <1>2, InsertsAdd
  <2>2. sat.next \notin Present(jobs)
    BY DEF RowsKept, RowKept, Present
  <2> QED
    BY <1>2, <2>1, <2>2 DEF Inserts, Present
<1> QED
  BY <1>1, <1>2 DEF RowStep, Registers, Removes

LEMMA TurnTypes ==
  ASSUME Typed
  PROVE  /\ deliver \in [Deliveries -> Deliver]
         /\ \A d \in Deliveries :
              /\ deliver[d].seqs \subseteq Seqs
              /\ \A t \in deliver[d].told : t[1] \in Seqs /\ t[2] \in Calls
         /\ \A n \in Calls : hist.turns[n] \in Nat
         /\ hist \in History /\ Calls \subseteq Nat
         /\ \A j \in Seqs : jobs[j].delivered \in BOOLEAN
<1>1. deliver \in [Deliveries -> Deliver] /\ hist \in History /\ jobs \in [Seqs -> Job]
  BY DEF Typed, Tables, Rows
<1>2. \A v \in Deliver : /\ v.seqs \subseteq Seqs
                         /\ \A t \in v.told : t[1] \in Seqs /\ t[2] \in Calls
  BY DEF Deliver
<1>3. \A n \in Calls : hist.turns[n] \in Nat
  BY <1>1 DEF History
<1>4. \A r \in Job : r.delivered \in BOOLEAN
  BY DEF Job
<1> QED
  BY <1>1, <1>2, <1>3, <1>4, BoundsAssumption DEF Calls

LEMMA CalmKeepsTurns ==
  ASSUME Typed, RowsKept, RowsKept', RowStep, NameKept, Turns, Calm
  PROVE  NameKept' /\ Turns'
<1> USE RowFacts, TurnTypes
<1>1. NameKept'
  BY DEF NameKept, Calm, NameStays
<1>2. /\ sat.next <= sat'.next /\ hist.calls <= hist'.calls
      /\ \A j \in Present(jobs') :
           \/ j \in Present(jobs) /\ jobs'[j].call = jobs[j].call
           \/ /\ j \notin Present(jobs) /\ j = sat.next
              /\ jobs'[j].call = hist.calls + 1 /\ hist.calls + 1 \in Calls
  BY <1>1, RowsFollow DEF NameKept
<1>3. hist'.turns = hist.turns /\ hist.seen \subseteq hist'.seen
      /\ hist.orphaned \subseteq hist'.orphaned
  BY DEF Calm, HistoryStays
<1>4. sat'.next \in Nat /\ hist'.calls \in Nat
  BY DEF RowStep, Moves, Inserts, Registers, Removes
<1>5. \A d \in Deliveries : Writing(d)' => deliver'[d] = deliver[d] /\ Writing(d)
  BY DEF Calm, DeliveriesStay, Writing
<1>6. ASSUME NEW d \in Deliveries, Writing(d)'
      PROVE  TurnClaimed(d)'
  <2>1. deliver'[d] = deliver[d] /\ TurnClaimed(d) /\ Writing(d)
    BY <1>5, <1>6 DEF Turns, TurnsClaimed
  <2>2. ASSUME NEW t \in deliver[d].told
        PROVE  /\ t[1] < sat'.next /\ t[2] \in 1 .. hist'.calls
               /\ \A i \in Present(jobs') : jobs'[i].call = t[2] <=> i = t[1]
               /\ t[1] \in Present(jobs') => jobs'[t[1]].delivered
    <3>1. /\ t[1] \in Seqs /\ t[1] < sat.next /\ t[2] \in 1 .. hist.calls
          /\ \A i \in Present(jobs) : jobs[i].call = t[2] <=> i = t[1]
          /\ t[1] \in Present(jobs) => jobs[t[1]].delivered
      BY <2>1 DEF TurnClaimed
    <3>2. t[1] < sat'.next /\ t[2] \in 1 .. hist'.calls
      BY <1>2, <1>4, <3>1
    <3>3. \A i \in Present(jobs') : jobs'[i].call = t[2] <=> i = t[1]
      BY <1>2, <3>1
    <3>4. t[1] \in Present(jobs') => t[1] \in Present(jobs)
      BY <1>2, <3>1
    <3>5. t[1] \in Present(jobs') => jobs'[t[1]].delivered
      BY <3>1, <3>4 DEF Calm, FlagsStay, Present
    <3> QED
      BY <3>2, <3>3, <3>5
  <2> QED
    BY <1>3, <2>1, <2>2 DEF TurnClaimed
<1>7. TurnsClaimed'
  BY <1>6 DEF TurnsClaimed, TurnClaimed
<1>8. OneAnnounces'
  BY <1>5 DEF Turns, OneAnnounces, Announcing
<1>9. TurnsCounted'
  BY <1>2, <1>3, <1>4 DEF Turns, TurnsCounted
<1>10. OwedIsUntold'
  <2> SUFFICES ASSUME NEW j \in Present(jobs'), ~jobs'[j].delivered
               PROVE  hist.turns[jobs'[j].call] = 0
    BY <1>3 DEF OwedIsUntold
  <2>1. CASE j \notin Present(jobs)
    BY <1>2, <2>1 DEF Turns, TurnsCounted
  <2>2. CASE j \in Present(jobs)
    BY <1>2, <2>2 DEF Calm, FlagsStay, Turns, OwedIsUntold, Present
  <2> QED
    BY <2>1, <2>2
<1>11. \A n \in Calls : Accounted(n) => Accounted(n)'
  <2>1. \A n \in Calls : Returning(n) => Accounted(n)'
    BY DEF Returning, Accounted, Told, Calm, SeersStay, LetsGo
  <2>2. \A n \in Calls : (\E d \in Deliveries : Announcing(d, n)) => Accounted(n)'
    BY <1>5 DEF Accounted, Announcing, Calm, DeliveriesStay, Writing
  <2> QED
    BY <1>3, <2>1, <2>2 DEF Accounted, Told
<1>12. ClaimedIsAccounted'
  <2>1. ASSUME NEW j \in Present(jobs'), jobs'[j].delivered,
               NEW n, n = jobs'[j].call
        PROVE  Accounted(n)'
    <3>1. j \in Seqs /\ jobs'[j].status # "absent"
      BY <2>1 DEF Present
    <3>2. j \in Present(jobs)
      BY <2>1, <3>1 DEF Calm, FlagsStay, Present
    <3>3. n = jobs[j].call /\ n \in Calls
      <4>1. jobs[j].call \in 1 .. hist.calls
        BY <3>2 DEF RowsKept, RowKept, Present
      <4> QED
        BY <1>2, <2>1, <3>2, <4>1 DEF Calls
    <3>4. jobs[j].delivered \/ Returning(n)'
      BY <2>1, <3>1, <3>2, <3>3 DEF Calm, FlagsStay, Present, Returning
    <3>5. CASE jobs[j].delivered
      <4>1. Accounted(n)
        BY <3>2, <3>3, <3>5 DEF Turns, ClaimedIsAccounted
      <4> QED
        BY <1>11, <3>3, <4>1
    <3>6. CASE Returning(n)'
      BY <3>6 DEF Accounted
    <3> QED
      BY <3>4, <3>5, <3>6
  <2> QED
    BY <2>1 DEF ClaimedIsAccounted, Accounted, Told, Returning, Announcing, Writing
<1>13. SeesItsRow'
  <2> SUFFICES ASSUME NEW o \in Agents \cup Owners, op'[o].phase = "see"
               PROVE  /\ op'[o].seq < sat'.next
                      /\ op'[o].seq \in Present(jobs') => jobs'[op'[o].seq].call = op'[o].saw
    BY DEF SeesItsRow
  <2>1. CASE op'[o] = op[o]
    <3>1. /\ op[o].seq < sat.next
          /\ op[o].seq \in Present(jobs) => jobs[op[o].seq].call = op[o].saw
      BY <2>1 DEF Turns, SeesItsRow
    <3>2. op[o].seq \in Nat
      BY DEF Typed, Requests, Op
    <3> QED
      BY <1>2, <1>4, <2>1, <3>1, <3>2
  <2>2. CASE op'[o].seq \in Present(jobs) /\ jobs[op'[o].seq].call = op'[o].saw
    <3>1. op'[o].seq < sat.next /\ op'[o].seq \in Nat
      BY <2>2 DEF RowsKept, RowKept, Present
    <3> QED
      BY <1>2, <1>4, <2>2, <3>1
  <2> QED
    BY <2>1, <2>2 DEF Calm, SeersStay
<1> QED
  BY <1>1, <1>7, <1>8, <1>9, <1>10, <1>12, <1>13 DEF Turns

---------------------------------------------------------------------------
(* What the statements leave of the flags *)

LEMMA FlagsOf ==
  ASSUME NEW js \in Rows, NEW S, NEW st \in Statuses, NEW n \in Calls \cup {NoCall}
  PROVE  \A j \in Seqs :
           /\ Claimed(js, S)[j].delivered = js[j].delivered
           /\ CancelSent(js, S)[j].delivered = js[j].delivered
           /\ Settled(js, S, st, n)[j].delivered = js[j].delivered
           /\ Unstarted(js, S)[j].delivered = js[j].delivered
           /\ Stopped(js, S)[j].delivered = js[j].delivered
           /\ Woken(js, S)[j].delivered = js[j].delivered
<1>0. \A j \in Seqs : js[j] \in Job
  BY DEF Rows
<1> SUFFICES ASSUME NEW j \in Seqs
             PROVE  /\ Claimed(js, S)[j].delivered = js[j].delivered
                    /\ CancelSent(js, S)[j].delivered = js[j].delivered
                    /\ Settled(js, S, st, n)[j].delivered = js[j].delivered
                    /\ Unstarted(js, S)[j].delivered = js[j].delivered
                    /\ Stopped(js, S)[j].delivered = js[j].delivered
                    /\ Woken(js, S)[j].delivered = js[j].delivered
  OBVIOUS
<1>1. Claimed(js, S)[j].delivered = js[j].delivered
  BY <1>0 DEF Claimed, Updated, Job
<1>2. CancelSent(js, S)[j].delivered = js[j].delivered
  BY <1>0 DEF CancelSent, Updated, Job
<1>3. Settled(js, S, st, n)[j].delivered = js[j].delivered
  BY <1>0 DEF Settled, Updated, Job
<1>4. Unstarted(js, S)[j].delivered = js[j].delivered
  BY <1>0 DEF Unstarted, Updated, Job
<1>5. Stopped(js, S)[j].delivered = js[j].delivered
  <2>1. Unstarted(js, S) \in Rows /\ Unstarted(js, S)[j] \in Job
    BY UnstartedRows DEF Rows
  <2>2. Stopped(js, S)[j].delivered = Unstarted(js, S)[j].delivered
    BY <2>1 DEF Stopped, Updated, Job
  <2> QED
    BY <1>4, <2>2
<1>6. Woken(js, S)[j].delivered = js[j].delivered
  BY <1>0 DEF Woken, Updated, Job
<1> QED
  BY <1>1, <1>2, <1>3, <1>4, <1>5, <1>6

LEMMA SettledFlags ==
  ASSUME NEW js \in Rows, NEW S, NEW st \in Statuses, NEW n \in Calls \cup {NoCall}
  PROVE  \A j \in Seqs : Settled(js, S, st, n)[j].delivered = js[j].delivered
BY FlagsOf, ZenonT(120)

(* Rows that are there, were there and keep their flag. *)
SameFlags ==
  \A j \in Seqs : jobs'[j].status # "absent" =>
    jobs[j].status # "absent" /\ jobs'[j].delivered = jobs[j].delivered

LEMMA SameFlagsStay ==
  ASSUME SameFlags
  PROVE  FlagsStay
BY DEF SameFlags, FlagsStay

LEMMA BeginStays ==
  ASSUME deliver \in [Deliveries -> Deliver], NEW d \in Deliveries, NEW b \in BOOLEAN,
         Begins(d, b)
  PROVE  DeliveriesStay
BY DEF Begins, DeliveriesStay, NoDelivery, Writing, Deliver

LEMMA AnnounceStays ==
  ASSUME deliver \in [Deliveries -> Deliver], NEW any, AnnounceIf(any)
  PROVE  DeliveriesStay
<1>1. CASE deliver' = deliver
  BY <1>1 DEF DeliveriesStay
<1>2. ASSUME NEW d \in Deliveries, Begins(d, FALSE)
      PROVE  DeliveriesStay
  BY <1>2, BeginStays
<1> QED
  BY <1>1, <1>2 DEF AnnounceIf, DeliverOutcome

LEMMA SpentElsewhere ==
  ASSUME left \in [Disturbances -> Nat], NEW x \in Disturbances, x # "remove", Spend(x)
  PROVE  left'["remove"] = left["remove"]
BY DEF Spend, Disturbances

---------------------------------------------------------------------------
(* The worker's steps *)

LEMMA MachineCalm ==
  ASSUME UNCHANGED agentVars, left'["remove"] = left["remove"], sat'.reg # NoReg,
         HistoryStays, SameFlags, DeliveriesStay
  PROVE  Calm
<1>1. op' = op /\ removing' = removing
  BY DEF agentVars
<1>2. NameStays
  BY <1>1 DEF NameStays
<1>3. SeersStay
  BY <1>1 DEF SeersStay
<1> QED
  BY <1>2, <1>3, SameFlagsStay DEF Calm

LEMMA TablesAlone ==
  ASSUME UNCHANGED agentVars, left'["remove"] = left["remove"], sat'.reg # NoReg,
         jobs' = jobs, deliver' = deliver, HistoryStays
  PROVE  Calm
<1>1. SameFlags /\ DeliveriesStay
  BY DEF SameFlags, DeliveriesStay
<1> QED
  BY <1>1, MachineCalm

LEMMA HistoryAlone ==
  ASSUME hist' = hist
  PROVE  HistoryStays
BY DEF HistoryStays

LEMMA SettleReportStays ==
  ASSUME Typed, NEW r \in Report, SettleReport(r)
  PROVE  SameFlags /\ DeliveriesStay
<1>1. jobs \in Rows /\ r.outcome \in Statuses /\ r.call \in Calls \cup {NoCall}
  BY DEF Typed, Tables, Report, Statuses
<1>2. jobs' = Settled(jobs, ReportRows(r), r.outcome, r.call)
  BY DEF SettleReport
<1>3. \A j \in Seqs : jobs'[j].delivered = jobs[j].delivered
  BY <1>1, <1>2, FlagsOf, ZenonT(120)
<1>4. \A j \in Seqs : jobs[j].status = "absent" => j \notin ReportRows(r)
  BY DEF ReportRows, Settleable, InStatus
<1>5. \A j \in Seqs \ ReportRows(r) : jobs'[j] = jobs[j]
  <2>1. \A j \in Seqs \ ReportRows(r) :
          Settled(jobs, ReportRows(r), r.outcome, r.call)[j] = jobs[j]
    BY <1>1, SettledRows
  <2> QED
    BY <1>2, <2>1, Zenon
<1>6. SameFlags
  BY <1>3, <1>4, <1>5 DEF SameFlags
<1>7. deliver \in [Deliveries -> Deliver] /\ AnnounceIf(ReportRows(r) # {})
  BY DEF Typed, Tables, SettleReport
<1> QED
  BY <1>6, <1>7, AnnounceStays

LEMMA ClaimRoundStays ==
  ASSUME Typed, NameKept, NEW w \in Workers, NEW k \in Polls, ClaimRound(w, k)
  PROVE  SameFlags /\ sat'.reg # NoReg
<1>1. CASE sat' = sat /\ jobs' = jobs
  BY <1>1 DEF SameFlags, NameKept
<1>2. CASE /\ sat' = Touched
           /\ jobs' = Claimed(CancelSent(jobs, Cancellations(jobs)),
                              Claimable(jobs, claim[w][k].capacity))
  <2>1. jobs \in Rows /\ sat \in SatRow /\ "done" \in Statuses /\ NoCall \in Calls \cup {NoCall}
    BY DEF Typed, Tables, Statuses
  <2>2. PICK u \in Rows : u = CancelSent(jobs, Cancellations(jobs))
    BY <2>1, CancelSentRows
  <2>3. \A j \in Seqs : u[j].delivered = jobs[j].delivered /\ SameCore(u[j], jobs[j])
    BY <2>1, <2>2, FlagsOf, CancelSentRows, ZenonT(120)
  <2>4. jobs' = Claimed(u, Claimable(jobs, claim[w][k].capacity))
    BY <1>2, <2>2
  <2>5. \A j \in Seqs : jobs'[j].delivered = u[j].delivered
    BY <2>1, <2>4, FlagsOf
  <2>6. \A j \in Seqs \ Claimable(jobs, claim[w][k].capacity) : jobs'[j] = u[j]
    BY <2>4, ClaimedRows
  <2>7. \A j \in Claimable(jobs, claim[w][k].capacity) : jobs[j].status = "queued"
    BY DEF Claimable, Oldest, InStatus
  <2>8. SameFlags
    BY <2>3, <2>5, <2>6, <2>7 DEF SameFlags, SameCore
  <2> QED
    BY <1>2, <2>1, <2>8 DEF Touched, SatRow, NameKept
<1> QED
  BY <1>1, <1>2, Zenon DEF ClaimRound

LEMMA HeartbeatStays ==
  ASSUME Typed, NameKept, NEW w \in Workers, Heartbeat(w)
  PROVE  SameFlags /\ sat'.reg # NoReg
<1>1. jobs \in [Seqs -> Job] /\ sat \in SatRow
  BY DEF Typed, Tables, Rows
<1>2. jobs' = [j \in Seqs |-> IF j \in Lapsed(w) THEN [jobs[j] EXCEPT !.lease = "live"]
                              ELSE jobs[j]]
  BY DEF Heartbeat, Updated
<1>3. SameFlags
  BY <1>1, <1>2 DEF SameFlags, Job
<1> QED
  BY <1>1, <1>3 DEF Heartbeat, SatRow, NameKept

LEMMA WorkerCalm ==
  ASSUME Typed, NameKept, WorkerNext, UNCHANGED agentVars
  PROVE  Calm
<1>0. /\ left \in [Disturbances -> Nat] /\ sat \in SatRow /\ hist \in History
      /\ reports \subseteq Report /\ sat.reg # NoReg
  BY DEF Typed, Tables, Machines, NameKept
<1>1. ASSUME NEW x \in {"second", "net", "stop", "kill"}, Spend(x)
      PROVE  left'["remove"] = left["remove"]
  BY <1>0, <1>1, SpentElsewhere DEF Disturbances
<1>2. ASSUME NEW w \in Workers, StartProcess(w) PROVE Calm
  <2>1. left'["remove"] = left["remove"]
    BY <1>1, <1>2 DEF StartProcess
  <2> QED
    BY <1>0, <1>2, <2>1, TablesAlone, HistoryAlone DEF StartProcess
<1>3. ASSUME NEW w \in Workers, ConnectFails(w) \/ Connect(w) PROVE Calm
  <2>1. left'["remove"] = left["remove"]
    BY <1>1, <1>3 DEF ConnectFails, Connect
  <2>2. sat'.reg # NoReg
    BY <1>0, <1>3 DEF ConnectFails, Connect, Upsert, SatRow
  <2> QED
    BY <1>3, <2>1, <2>2, TablesAlone, HistoryAlone DEF ConnectFails, Connect
<1>4. ASSUME NEW w \in Workers, NEW k \in Polls,
             OpenClaim(w, k) \/ ClaimEnds(w, k) \/ ClaimLost(w, k)
      PROVE  Calm
  <2>1. left'["remove"] = left["remove"]
    BY <1>1, <1>4 DEF OpenClaim, ClaimEnds, ClaimLost
  <2> QED
    BY <1>0, <1>4, <2>1, TablesAlone, HistoryAlone DEF OpenClaim, ClaimEnds, ClaimLost
<1>5. ASSUME NEW w \in Workers, NEW k \in Polls, ClaimAnswered(w, k) PROVE Calm
  <2>1. HistoryStays
    BY <1>0, <1>5 DEF ClaimAnswered, HistoryStays, History
  <2> QED
    BY <1>0, <1>5, <2>1, TablesAlone DEF ClaimAnswered
<1>6. ASSUME NEW w \in Workers, NEW k \in Polls, ClaimRound(w, k) PROVE Calm
  <2>1. DeliveriesStay
    BY <1>6, Zenon DEF ClaimRound, DeliveriesStay
  <2> QED
    BY <1>6, <2>1, ClaimRoundStays, MachineCalm, HistoryAlone, Zenon DEF ClaimRound
<1>7. ASSUME NEW w \in Workers, NEW j \in Seqs, Finish(w, j) PROVE Calm
  BY <1>0, <1>7, TablesAlone, HistoryAlone DEF Finish
<1>8. ASSUME NEW r \in reports, ReportArrives(r) PROVE Calm
  <2>1. SameFlags /\ DeliveriesStay
    BY <1>0, <1>8, SettleReportStays DEF ReportArrives
  <2> QED
    BY <1>0, <1>8, <2>1, MachineCalm, HistoryAlone DEF ReportArrives
<1>9. ASSUME NEW r \in reports, ReportLost(r) PROVE Calm
  <2>1. left'["remove"] = left["remove"]
    BY <1>1, <1>9 DEF ReportLost
  <2>2. SameFlags /\ DeliveriesStay
    <3>1. CASE SettleReport(r)
      BY <1>0, <3>1, SettleReportStays
    <3>2. CASE UNCHANGED <<jobs, deliver>>
      BY <3>2 DEF SameFlags, DeliveriesStay
    <3> QED
      BY <1>9, <3>1, <3>2 DEF ReportLost
  <2> QED
    BY <1>0, <1>9, <2>1, <2>2, MachineCalm, HistoryAlone DEF ReportLost
<1>10. ASSUME NEW w \in Workers, Heartbeat(w) PROVE Calm
  <2>1. DeliveriesStay
    BY <1>10 DEF Heartbeat, DeliveriesStay
  <2> QED
    BY <1>10, <2>1, HeartbeatStays, MachineCalm, HistoryAlone DEF Heartbeat
<1>11. ASSUME NEW w \in Workers, FlushUnsent(w) \/ Exit(w) PROVE Calm
  BY <1>0, <1>11, TablesAlone, HistoryAlone DEF FlushUnsent, Exit
<1>12. ASSUME NEW w \in Workers,
              Drain(w) \/ DrainLost(w) \/ ForceStop(w) \/ Kill(w)
       PROVE  Calm
  <2>1. left'["remove"] = left["remove"]
    BY <1>1, <1>12 DEF Drain, DrainLost, ForceStop, Kill
  <2> QED
    BY <1>0, <1>12, <2>1, TablesAlone, HistoryAlone DEF Drain, DrainLost, ForceStop, Kill
<1>13. ASSUME NEW w \in Workers, DrainArrives(w) PROVE Calm
  <2>1. sat'.reg # NoReg
    BY <1>0, <1>13 DEF DrainArrives, SatRow
  <2> QED
    BY <1>13, <2>1, TablesAlone, HistoryAlone DEF DrainArrives
<1>14. \A w \in Workers : worker[w].asked \subseteq Seqs
  BY DEF Typed, Machines, Worker
<1> QED
  BY <1>2, <1>3, <1>4, <1>5, <1>6, <1>7, <1>8, <1>9, <1>10, <1>11, <1>12, <1>13, <1>14
     DEF WorkerNext, WorkerGoes

---------------------------------------------------------------------------
(* The requests of the agent and of its owner *)

LEMMA SeerPlaced ==
  ASSUME Typed, NEW o \in Agents \cup Owners, NEW v,
         op' = [op EXCEPT ![o] = v],
         LetsGo(o),
         v.phase = "see" => v.seq \in Present(jobs) /\ jobs[v.seq].call = v.saw
  PROVE  SeersStay
<1>1. op \in [Agents \cup Owners -> Op]
  BY DEF Typed, Requests
<1> QED
  BY <1>1 DEF SeersStay

LEMMA ReturnsStays ==
  ASSUME Typed, NEW o \in Agents \cup Owners, Returns(o), LetsGo(o)
  PROVE  SeersStay
<1>1. op' = [op EXCEPT ![o] = NoOp] /\ NoOp.phase # "see"
  BY DEF Returns, NoOp
<1> QED
  BY <1>1, SeerPlaced

LEMMA ToStays ==
  ASSUME Typed, NEW o \in Agents \cup Owners, NEW p, p # "see", To(o, p),
         LetsGo(o)
  PROVE  SeersStay
<1>1. op \in [Agents \cup Owners -> Op] /\ op' = [op EXCEPT ![o].phase = p]
  BY DEF Typed, Requests, To
<1> QED
  BY <1>1 DEF SeersStay, Op

LEMMA SeesStays ==
  ASSUME Typed, NEW o \in Agents \cup Owners, op[o].seq \in Present(jobs),
         op' = [op EXCEPT ![o].phase = "see", ![o].saw = jobs[op[o].seq].call],
         LetsGo(o)
  PROVE  SeersStay
<1>1. op \in [Agents \cup Owners -> Op]
  BY DEF Typed, Requests
<1> QED
  BY <1>1 DEF SeersStay, Op

(* A request that only moves on. *)
LEMMA RequestAlone ==
  ASSUME NameKept, SeersStay, left'["remove"] = left["remove"],
         UNCHANGED <<sat, jobs, deliver, hist, removing>>
  PROVE  Calm
<1>1. FlagsStay
  BY DEF FlagsStay
<1>2. DeliveriesStay
  BY DEF DeliveriesStay
<1>3. HistoryStays
  BY HistoryAlone
<1>4. NameStays
  BY DEF NameStays, NameKept
<1> QED
  BY <1>1, <1>2, <1>3, <1>4 DEF Calm

LEMMA AsksCalm ==
  ASSUME Typed, NameKept, NEW o \in Agents \cup Owners,
         Start(o) \/ \E j \in Seqs : Again(o, j) \/ Cancel(o, j)
  PROVE  Calm
<1>0. left \in [Disturbances -> Nat]
  BY DEF Typed, Tables
<1>1. ASSUME NEW x \in {"call", "again", "cancel"}, Spend(x)
      PROVE  left'["remove"] = left["remove"]
  BY <1>0, <1>1, SpentElsewhere, SMTT(60) DEF Disturbances
<1>2. left'["remove"] = left["remove"]
  BY <1>1, ZenonT(120) DEF Start, Again, Cancel
<1>3. UNCHANGED <<sat, jobs, deliver, hist, removing>> /\ op[o].phase = "idle"
  BY Zenon DEF Start, Again, Cancel
<1>4. SeersStay
  <2>0. LetsGo(o)
    BY <1>3 DEF LetsGo
  <2>1. CASE Start(o)
    <3>1. op' = [op EXCEPT ![o] = [NoOp EXCEPT !.phase = "insert", !.reg = sat.reg]]
      BY <2>1 DEF Start
    <3>2. [NoOp EXCEPT !.phase = "insert", !.reg = sat.reg].phase # "see"
      BY DEF NoOp
    <3> QED
      BY <2>0, <3>1, <3>2, SeerPlaced
  <2>3. ASSUME NEW j \in Seqs, Again(o, j) PROVE SeersStay
    <3>1. PICK waits \in BOOLEAN :
            op' = [op EXCEPT ![o] = [NoOp EXCEPT !.seq = j, !.waits = waits,
                                       !.phase = IF waits THEN "mark" ELSE "read"]]
      BY <2>3, Zenon DEF Again
    <3>2. [NoOp EXCEPT !.seq = j, !.waits = waits,
             !.phase = IF waits THEN "mark" ELSE "read"].phase # "see"
      BY DEF NoOp
    <3> QED
      BY <2>0, <3>1, <3>2, SeerPlaced
  <2>4. ASSUME NEW j \in Seqs, Cancel(o, j) PROVE SeersStay
    <3>1. op' = [op EXCEPT ![o] = [NoOp EXCEPT !.phase = "cancel", !.seq = j,
                                               !.reg = sat.reg]]
      BY <2>4, Zenon DEF Cancel
    <3>2. [NoOp EXCEPT !.phase = "cancel", !.seq = j, !.reg = sat.reg].phase # "see"
      BY DEF NoOp
    <3> QED
      BY <2>0, <3>1, <3>2, SeerPlaced
  <2> QED
    BY <2>1, <2>3, <2>4
<1> QED
  BY <1>2, <1>3, <1>4, RequestAlone

LEMMA OpDiesCalm ==
  ASSUME Typed, NameKept, NEW o \in Agents \cup Owners, OpDies(o)
  PROVE  Calm
<1>1. /\ left \in [Disturbances -> Nat] /\ hist \in History
      /\ Spend("die") /\ Returns(o) /\ UNCHANGED <<sat, jobs, deliver, removing>>
  BY DEF Typed, Tables, OpDies
<1>2. left'["remove"] = left["remove"]
  BY <1>1, SpentElsewhere DEF Disturbances
<1>3. HistoryStays /\ LetsGo(o)
  BY <1>1 DEF OpDies, HistoryStays, LetsGo, History
<1>4. FlagsStay /\ DeliveriesStay
  BY <1>1 DEF FlagsStay, DeliveriesStay
<1>5. NameStays
  BY <1>1, <1>2 DEF NameStays, NameKept
<1> QED
  BY <1>1, <1>3, <1>4, <1>5, ReturnsStays DEF Calm

LEMMA LooksCalm ==
  ASSUME Typed, NameKept, NEW o \in Agents \cup Owners,
         Read(o) \/ Poll(o) \/ CancelRead(o)
  PROVE  Calm
<1>1. left'["remove"] = left["remove"] /\ UNCHANGED <<sat, jobs, deliver, hist, removing>>
  BY DEF Read, Poll, CancelRead
<1>0. LetsGo(o)
  BY DEF Read, Poll, CancelRead, LetsGo
<1>2. CASE Read(o)
  <2>1. ASSUME Returns(o) \/ To(o, "poll") PROVE SeersStay
    BY <1>0, <2>1, ReturnsStays, ToStays
  <2>2. ASSUME op[o].seq \in Terminal(jobs),
               op' = [op EXCEPT ![o].phase = "see", ![o].saw = jobs[op[o].seq].call]
        PROVE  SeersStay
    BY <1>0, <2>2, SeesStays DEF Terminal
  <2>3. Returns(o) \/ To(o, "poll")
        \/ (/\ op[o].seq \in Terminal(jobs)
            /\ op' = [op EXCEPT ![o].phase = "see", ![o].saw = jobs[op[o].seq].call])
    <3>1. op[o].phase = "read" /\ OpKept(op[o])
      BY <1>2 DEF Read, Typed, Requests
    <3>2. op[o].seq \in Seqs
      BY <3>1 DEF OpKept
    <3>3. Readable(op[o].seq) => op[o].seq \in Terminal(jobs) \/ op[o].seq \in NonTerminal(jobs)
      BY <3>2 DEF Readable, Terminal, Present
    <3>4. op[o].seq \in Terminal(jobs) => op[o].seq \notin NonTerminal(jobs)
      BY DEF Terminal
    <3> QED
      BY <1>2, <3>3, <3>4 DEF Read
  <2> QED
    BY <1>1, <2>1, <2>2, <2>3, RequestAlone
<1>3. CASE Poll(o)
  <2>1. SeersStay
    BY <1>0, <1>3, ReturnsStays, ToStays, SMTT(60) DEF Poll
  <2> QED
    BY <1>1, <2>1, RequestAlone
<1>4. CASE CancelRead(o)
  <2>0. op \in [Agents \cup Owners -> Op] /\ op[o].phase = "cancel" /\ op[o].seq \in Seqs
    BY <1>4 DEF CancelRead, Typed, Requests, OpKept
  <2>1. PICK reg : reg = IF o \in Owners THEN sat.reg ELSE op[o].reg
    OBVIOUS
  <2>2. ASSUME NEW ph \in {"settle", "request"},
               op' = [op EXCEPT ![o].phase = ph, ![o].reg = reg]
        PROVE  SeersStay
    BY <1>0, <2>0, <2>2 DEF SeersStay, Op
  <2>3. ASSUME op[o].seq \in Present(jobs),
               op' = [op EXCEPT ![o].phase = "see", ![o].saw = jobs[op[o].seq].call]
        PROVE  SeersStay
    BY <1>0, <2>3, SeesStays
  <2>4. \/ Returns(o)
        \/ /\ jobs[op[o].seq].status \in {"done", "interrupted", "cancelled"}
           /\ op' = [op EXCEPT ![o].phase = "see", ![o].saw = jobs[op[o].seq].call]
        \/ \E ph \in {"settle", "request"} : op' = [op EXCEPT ![o].phase = ph, ![o].reg = reg]
    BY <1>4, <2>0, <2>1 DEF CancelRead
  <2>5. SeersStay
    BY <1>0, <2>0, <2>2, <2>3, <2>4, ReturnsStays DEF Present
  <2> QED
    BY <1>1, <2>5, RequestAlone
<1> QED
  BY <1>2, <1>3, <1>4

(* A request that writes to rows and goes on. *)
LEMMA RequestWrites ==
  ASSUME NameKept, SeersStay, HistoryStays, FlagsStay, DeliveriesStay,
         sat'.reg = sat.reg, UNCHANGED <<left, removing>>
  PROVE  Calm
BY DEF Calm, NameStays, NameKept

LEMMA InsertJobCalm ==
  ASSUME Typed, RowsKept, NameKept, NEW o \in Agents \cup Owners, InsertJob(o)
  PROVE  Calm
<1>0. LetsGo(o)
  BY DEF InsertJob, LetsGo
<1>1. CASE Returns(o) /\ UNCHANGED <<sat, jobs, hist>>
  <2>1. SeersStay
    BY <1>0, <1>1, ReturnsStays
  <2> QED
    BY <1>1, <2>1, RequestAlone DEF InsertJob
<1>2. CASE /\ sat.next \in Seqs /\ hist.calls < MaxCalls
           /\ jobs' = Inserted(jobs, sat.next, hist.calls + 1)
           /\ sat' = [sat EXCEPT !.next = @ + 1]
           /\ hist' = [hist EXCEPT !.calls = @ + 1]
           /\ \/ op' = [op EXCEPT ![o].phase = "mark", ![o].waits = TRUE,
                                  ![o].seq = sat.next]
              \/ Returns(o)
  <2>0. /\ jobs \in Rows /\ sat \in SatRow /\ hist \in History
        /\ op \in [Agents \cup Owners -> Op] /\ hist.calls + 1 \in Calls
    BY <1>2, RowFacts DEF Typed, Tables, Requests, Calls
  <2>1. FlagsStay
    <3>1. jobs'[sat.next].delivered = FALSE
      <4>1. jobs'[sat.next] = [NoJob EXCEPT !.status = "queued", !.call = hist.calls + 1]
        BY <1>2, <2>0 DEF Inserted, Rows
      <4> QED
        BY <4>1 DEF NoJob
    <3>2. \A j \in Seqs \ {sat.next} : jobs'[j] = jobs[j]
      <4>1. \A j \in Seqs \ {sat.next} :
              Inserted(jobs, sat.next, hist.calls + 1)[j] = jobs[j]
        BY <1>2, <2>0, InsertedRows, ZenonT(120)
      <4> QED
        BY <1>2, <4>1, Zenon
    <3>3. jobs[sat.next].status = "absent"
      BY <1>2, RowFacts DEF RowsKept, RowKept
    <3> QED
      BY <3>1, <3>2, <3>3 DEF FlagsStay
  <2>2. HistoryStays
    BY <1>2, <2>0 DEF HistoryStays, History
  <2>3. sat'.reg = sat.reg
    BY <1>2, <2>0 DEF SatRow
  <2>4. DeliveriesStay /\ UNCHANGED <<left, removing>>
    BY DEF InsertJob, DeliveriesStay
  <2>5. SeersStay
    <3>1. CASE op' = [op EXCEPT ![o].phase = "mark", ![o].waits = TRUE, ![o].seq = sat.next]
      BY <1>0, <2>0, <3>1 DEF SeersStay, Op
    <3> QED
      BY <1>0, <1>2, <3>1, ReturnsStays
  <2> QED
    BY <2>1, <2>2, <2>3, <2>4, <2>5, RequestWrites
<1> QED
  BY <1>1, <1>2 DEF InsertJob

LEMMA MarkAwaitedCalm ==
  ASSUME Typed, NameKept, NEW o \in Agents \cup Owners, MarkAwaited(o)
  PROVE  Calm
<1>1. jobs \in Rows /\ op[o].seq \in Seqs
  BY DEF Typed, Tables, Requests, OpKept, MarkAwaited
<1>2. jobs' = MarkedAwaited(jobs, op[o].seq)
  BY DEF MarkAwaited
<1>3. FlagsStay
  BY <1>1, <1>2 DEF MarkedAwaited, FlagsStay, Rows, Job
<1>4. HistoryStays /\ DeliveriesStay /\ SeersStay
  BY ToStays, HistoryAlone DEF MarkAwaited, DeliveriesStay, LetsGo
<1> QED
  BY <1>3, <1>4, RequestWrites DEF MarkAwaited

(* A request claims the outcome of its own row, and no other. *)
LEMMA MarkSeenCalm ==
  ASSUME Typed, NameKept, SeesItsRow, NEW o \in Agents \cup Owners, MarkSeen(o)
  PROVE  Calm
<1> DEFINE j == op[o].seq
<1>1. /\ jobs \in [Seqs -> Job] /\ j \in Seqs /\ op[o].phase = "see"
      /\ op \in [Agents \cup Owners -> Op]
  BY DEF Typed, Tables, Rows, Requests, OpKept, MarkSeen
<1>2. j \in Present(jobs) => jobs[j].call = op[o].saw
  BY <1>1 DEF SeesItsRow
<1>3. \/ jobs' = MarkedSeen(jobs, j) /\ To(o, "claimed")
      \/ jobs' = jobs /\ \E ph \in {"release", "answer"} : To(o, ph)
  BY DEF MarkSeen
<1>4. FlagsStay
  <2>1. CASE jobs' = jobs
    BY <2>1 DEF FlagsStay
  <2>2. CASE jobs' = MarkedSeen(jobs, j) /\ To(o, "claimed")
    <3>1. \A i \in Seqs : /\ i # j => jobs'[i] = jobs[i]
                          /\ jobs'[i].status = jobs[i].status
                          /\ i = j => jobs'[i].delivered
      BY <1>1, <2>2 DEF MarkedSeen, Job
    <3>2. op'[o].phase = "claimed" /\ op'[o].saw = op[o].saw
      BY <1>1, <2>2 DEF To, Op
    <3> QED
      BY <1>1, <1>2, <3>1, <3>2 DEF FlagsStay, Present
  <2> QED
    BY <1>3, <2>1, <2>2
<1>5. SeersStay
  <2>1. LetsGo(o)
    BY <1>1 DEF LetsGo
  <2> QED
    BY <1>3, <2>1, ToStays
<1>6. HistoryStays /\ DeliveriesStay
  BY HistoryAlone DEF MarkSeen, DeliveriesStay
<1> QED
  BY <1>4, <1>5, <1>6, RequestWrites DEF MarkSeen

LEMMA ReleaseAwaitedCalm ==
  ASSUME Typed, NameKept, NEW o \in Agents \cup Owners, ReleaseAwaited(o)
  PROVE  Calm
<1>1. jobs \in [Seqs -> Job]
  BY DEF Typed, Tables, Rows
<1>2. FlagsStay
  BY <1>1 DEF ReleaseAwaited, FlagsStay, Present, Job
<1>3. HistoryStays /\ DeliveriesStay /\ SeersStay
  BY ToStays, HistoryAlone DEF ReleaseAwaited, DeliveriesStay, LetsGo
<1> QED
  BY <1>2, <1>3, RequestWrites DEF ReleaseAwaited

LEMMA AnswerCalm ==
  ASSUME Typed, NameKept, NEW o \in Agents \cup Owners, Answer(o)
  PROVE  Calm
<1>1. hist \in History /\ hist' = [hist EXCEPT !.seen = @ \cup {op[o].saw}]
  BY DEF Typed, Tables, Answer
<1>2. HistoryStays /\ LetsGo(o)
  BY <1>1 DEF HistoryStays, LetsGo, History
<1>3. FlagsStay /\ DeliveriesStay
  BY DEF Answer, FlagsStay, DeliveriesStay
<1>4. SeersStay
  BY <1>2, ReturnsStays DEF Answer
<1> QED
  BY <1>2, <1>3, <1>4, RequestWrites DEF Answer

LEMMA RequestCancelCalm ==
  ASSUME Typed, NameKept, NEW o \in Agents \cup Owners, RequestCancel(o)
  PROVE  Calm
<1>1. jobs \in [Seqs -> Job]
  BY DEF Typed, Tables, Rows
<1>2. FlagsStay
  BY <1>1 DEF RequestCancel, FlagsStay, Present, Job
<1>3. HistoryStays /\ DeliveriesStay /\ SeersStay
  BY ReturnsStays, HistoryAlone DEF RequestCancel, DeliveriesStay, LetsGo
<1> QED
  BY <1>2, <1>3, RequestWrites DEF RequestCancel

LEMMA StoppedFlags ==
  ASSUME Typed, NEW S, S \subseteq Present(jobs),
         jobs' = Stopped(jobs, S) \/ jobs' = Unstarted(jobs, S)
  PROVE  FlagsStay
<1>1. jobs \in Rows /\ "done" \in Statuses /\ NoCall \in Calls \cup {NoCall}
  BY DEF Typed, Tables, Statuses
<1>2. \A j \in Seqs : jobs'[j].delivered = jobs[j].delivered
  <2>1. \A j \in Seqs : /\ Stopped(jobs, S)[j].delivered = jobs[j].delivered
                        /\ Unstarted(jobs, S)[j].delivered = jobs[j].delivered
    BY <1>1, FlagsOf, ZenonT(120)
  <2> QED
    BY <2>1, Zenon
<1>3. \A j \in Seqs \ S : jobs'[j] = jobs[j]
  <2>1. \A j \in Seqs \ S : Stopped(jobs, S)[j] = jobs[j] /\ Unstarted(jobs, S)[j] = jobs[j]
    BY <1>1, StoppedRows, UnstartedRows
  <2> QED
    BY <2>1, Zenon
<1>4. SameFlags
  BY <1>2, <1>3 DEF SameFlags, Present
<1> QED
  BY <1>4, SameFlagsStay

LEMMA CancelSettleCalm ==
  ASSUME Typed, NameKept, NEW o \in Agents \cup Owners, CancelSettle(o)
  PROVE  Calm
<1>1. CancelRows(o) \subseteq Present(jobs) /\ CancelRows(o) \subseteq {op[o].seq}
  BY DEF CancelRows, Settleable, InStatus, Present
<1>2. FlagsStay
  BY <1>1, StoppedFlags DEF CancelSettle
<1>3. DeliveriesStay
  BY AnnounceStays DEF CancelSettle, Typed, Tables
<1>4. SeersStay
  <2>0. LetsGo(o)
    BY DEF CancelSettle, LetsGo
  <2>1. CASE CancelRows(o) # {} /\ op' = [op EXCEPT ![o].phase = "see",
                                            ![o].saw = jobs[op[o].seq].call]
    BY <1>1, <2>0, <2>1, SeesStays
  <2>2. CASE Returns(o) \/ To(o, "cancel")
    BY <2>0, <2>2, ReturnsStays, ToStays
  <2> QED
    BY <2>1, <2>2 DEF CancelSettle
<1> QED
  BY <1>2, <1>3, <1>4, HistoryAlone, RequestWrites DEF CancelSettle

LEMMA GrantCalm ==
  ASSUME Typed, NameKept, Grant
  PROVE  Calm
<1>1. left \in [Disturbances -> Nat] /\ sat \in SatRow
  BY DEF Typed, Tables
<1>2. left'["remove"] = left["remove"]
  BY <1>1, SpentElsewhere DEF Disturbances, Grant
<1>3. NameStays
  BY <1>1, <1>2 DEF Grant, NameStays, NameKept, SatRow, agentVars
<1>4. HistoryStays /\ SeersStay
  BY HistoryAlone DEF Grant, SeersStay, agentVars
<1>5. FlagsStay /\ DeliveriesStay
  BY DEF Grant, FlagsStay, DeliveriesStay
<1> QED
  BY <1>3, <1>4, <1>5 DEF Calm

LEMMA RevokeCalm ==
  ASSUME Typed, NameKept, NEW o \in Agents \cup Owners, Revoke(o)
  PROVE  Calm
<1>1. left \in [Disturbances -> Nat] /\ sat \in SatRow
  BY DEF Typed, Tables
<1>2. left'["remove"] = left["remove"]
  BY <1>1, SpentElsewhere DEF Disturbances, Revoke
<1>3. NameStays
  BY <1>1, <1>2 DEF Revoke, NameStays, NameKept, SatRow
<1>4. HistoryStays /\ SeersStay
  BY HistoryAlone, ToStays DEF Revoke, LetsGo
<1>5. FlagsStay /\ DeliveriesStay
  BY DEF Revoke, FlagsStay, DeliveriesStay
<1> QED
  BY <1>3, <1>4, <1>5 DEF Calm

LEMMA RevokeStopsCalm ==
  ASSUME Typed, NameKept, NEW o \in Agents \cup Owners, RevokeStops(o)
  PROVE  Calm
<1>1. Stoppable(jobs) \subseteq Present(jobs) /\ deliver \in [Deliveries -> Deliver]
  BY DEF Stoppable, InStatus, Present, Typed, Tables
<1>2. FlagsStay /\ DeliveriesStay
  BY <1>1, StoppedFlags, AnnounceStays DEF RevokeStops, StopDispatch
<1>3. SeersStay /\ HistoryStays
  BY ReturnsStays, HistoryAlone DEF RevokeStops, LetsGo
<1> QED
  BY <1>2, <1>3, RequestWrites DEF RevokeStops

---------------------------------------------------------------------------
(* The deliveries' steps that leave the claims alone, the sweeps and time *)

(* A delivery that is not about to write goes on, or one that is dies. *)
LEMMA DeliveryMoves ==
  ASSUME Typed, NEW d \in Deliveries, NEW v,
         deliver' = [deliver EXCEPT ![d] = v], v.phase # "write",
         Writing(d) => \A t \in deliver[d].told : t[2] \in hist'.orphaned
  PROVE  DeliveriesStay
<1>1. deliver \in [Deliveries -> Deliver]
  BY DEF Typed, Tables
<1> QED
  BY <1>1 DEF DeliveriesStay

LEMMA NothingToTellMoves ==
  ASSUME Typed, NEW d \in Deliveries, NEW js, NothingToTell(d, js)
  PROVE  \E v : deliver' = [deliver EXCEPT ![d] = v] /\ v.phase # "write"
<1>1. /\ [NoDelivery EXCEPT !.phase = "wake", !.seqs = Unwoken(js)].phase # "write"
      /\ NoDelivery.phase # "write"
  BY DEF NoDelivery
<1> QED
  BY <1>1 DEF NothingToTell

(* A delivery's step that leaves the history and the name alone. *)
LEMMA DeliveryCalm ==
  ASSUME Typed, NameKept, FlagsStay, DeliveriesStay, HistoryStays,
         left'["remove"] = left["remove"], sat' = sat, UNCHANGED agentVars
  PROVE  Calm
BY DEF Calm, NameStays, NameKept, SeersStay, agentVars

LEMMA CarryOnCalm ==
  ASSUME Typed, NameKept, NEW d \in Deliveries,
         \/ WakeRetry(d) \/ SelectOutcomes(d) \/ WakeAgent(d)
         \/ WakeFails(d) \/ DeliveryDies(d)
  PROVE  Calm
<1>0. /\ left \in [Disturbances -> Nat] /\ deliver \in [Deliveries -> Deliver]
      /\ jobs \in Rows /\ hist \in History
  BY DEF Typed, Tables
<1>1. ASSUME NEW x \in {"hour", "fail", "die"}, Spend(x)
      PROVE  left'["remove"] = left["remove"]
  BY <1>0, <1>1, SpentElsewhere DEF Disturbances
<1>2. left'["remove"] = left["remove"]
  BY <1>1 DEF WakeRetry, SelectOutcomes, WakeAgent, WakeFails, DeliveryDies
<1>3. sat' = sat /\ UNCHANGED agentVars
  BY DEF WakeRetry, SelectOutcomes, WakeAgent, WakeFails, DeliveryDies
<1>4. HistoryStays
  <2>1. CASE DeliveryDies(d)
    <3>1. PICK S : /\ hist' = [hist EXCEPT !.orphaned = S] /\ hist.orphaned \subseteq S
      BY <2>1 DEF DeliveryDies
    <3> QED
      BY <1>0, <3>1 DEF HistoryStays, History
  <2>2. CASE hist' = hist
    BY <2>2, HistoryAlone
  <2> QED
    BY <2>1, <2>2 DEF WakeRetry, SelectOutcomes, WakeAgent, WakeFails
<1>5. FlagsStay
  <2>1. CASE WakeAgent(d)
    <3>1. "done" \in Statuses /\ NoCall \in Calls \cup {NoCall}
      BY DEF Statuses
    <3>2. \A j \in Seqs : /\ Woken(jobs, deliver[d].seqs)[j].delivered = jobs[j].delivered
                          /\ SameCore(Woken(jobs, deliver[d].seqs)[j], jobs[j])
      BY <1>0, <3>1, FlagsOf, DeliveredRows, ZenonT(120)
    <3> QED
      BY <2>1, <3>2 DEF WakeAgent, FlagsStay, SameCore
  <2> QED
    BY <2>1 DEF WakeRetry, SelectOutcomes, WakeFails, DeliveryDies, FlagsStay
<1>6. DeliveriesStay
  <2>1. CASE WakeRetry(d)
    BY <1>0, <2>1, BeginStays DEF WakeRetry
  <2>2. CASE SelectOutcomes(d)
    <3>1. CASE NothingToTell(d, jobs)
      <4>1. PICK v : deliver' = [deliver EXCEPT ![d] = v] /\ v.phase # "write"
        BY <3>1, NothingToTellMoves
      <4> QED
        BY <2>2, <4>1, DeliveryMoves DEF SelectOutcomes, Writing
    <3>2. CASE deliver' = [deliver EXCEPT ![d].phase = "claim", ![d].seqs = Undelivered(jobs)]
      BY <1>0, <2>2, <3>2 DEF SelectOutcomes, DeliveriesStay, Writing, Deliver
    <3> QED
      BY <2>2, <3>1, <3>2 DEF SelectOutcomes
  <2>3. CASE WakeAgent(d) \/ WakeFails(d)
    <3>1. deliver' = [deliver EXCEPT ![d] = NoDelivery] /\ ~Writing(d)
      BY <2>3 DEF WakeAgent, WakeFails, Writing
    <3>2. NoDelivery.phase # "write"
      BY DEF NoDelivery
    <3> QED
      BY <3>1, <3>2, DeliveryMoves
  <2>4. CASE DeliveryDies(d)
    <3>1. deliver' = [deliver EXCEPT ![d] = NoDelivery]
      BY <2>4 DEF DeliveryDies
    <3>2. Writing(d) => \A t \in deliver[d].told : t[2] \in hist'.orphaned
      BY <1>0, <2>4 DEF DeliveryDies, Writing, History
    <3>3. NoDelivery.phase # "write"
      BY DEF NoDelivery
    <3> QED
      BY <3>1, <3>2, <3>3, DeliveryMoves
  <2> QED
    BY <2>1, <2>2, <2>3, <2>4
<1> QED
  BY <1>2, <1>3, <1>4, <1>5, <1>6, DeliveryCalm

LEMMA ServerCalm ==
  ASSUME Typed, NameKept, ServerGoes
  PROVE  Calm
<1>0. /\ left \in [Disturbances -> Nat] /\ deliver \in [Deliveries -> Deliver]
      /\ jobs \in Rows /\ sat \in SatRow
  BY DEF Typed, Tables
<1>1. ASSUME NEW any, AnnounceIf(any) \/ DeliverOutcome \/ deliver' = deliver
      PROVE  DeliveriesStay
  <2>1. CASE deliver' = deliver
    BY <2>1 DEF DeliveriesStay
  <2>2. ASSUME NEW d \in Deliveries, Begins(d, FALSE) PROVE DeliveriesStay
    BY <1>0, <2>2, BeginStays
  <2> QED
    BY <1>0, <1>1, <2>1, <2>2, AnnounceStays DEF DeliverOutcome
<1>2. ASSUME SweepUnstarted PROVE Calm
  <2>1. StaleQueued \subseteq Present(jobs)
    BY DEF StaleQueued, Stoppable, InStatus, Present
  <2>2. FlagsStay
    BY <1>2, <2>1, StoppedFlags DEF SweepUnstarted
  <2> QED
    BY <1>1, <1>2, <2>2, HistoryAlone, DeliveryCalm DEF SweepUnstarted
<1>3. ASSUME NEW j \in Seqs, SweepLease(j) PROVE Calm
  <2>1. "interrupted" \in Statuses /\ NoCall \in Calls \cup {NoCall}
    BY DEF Statuses
  <2>2. \A i \in Seqs : Settled(jobs, {j}, "interrupted", NoCall)[i].delivered = jobs[i].delivered
    BY <1>0, <2>1, SettledFlags
  <2>3. \A i \in Seqs \ {j} : Settled(jobs, {j}, "interrupted", NoCall)[i] = jobs[i]
    BY <1>0, <2>1, SettledRows
  <2>4. jobs[j].status = "running" /\ jobs' = Settled(jobs, {j}, "interrupted", NoCall)
    BY <1>3 DEF SweepLease, ExpiredLeases, InStatus
  <2>5. FlagsStay
    BY <2>2, <2>3, <2>4 DEF FlagsStay
  <2> QED
    BY <1>1, <1>3, <2>5, HistoryAlone, DeliveryCalm DEF SweepLease
<1>4. ASSUME PurgeExpired PROVE Calm
  <2>1. FlagsStay
    BY <1>0, <1>4 DEF PurgeExpired, FlagsStay, NoJob, Rows
  <2> QED
    BY <1>1, <1>4, <2>1, HistoryAlone, DeliveryCalm DEF PurgeExpired
<1>5. ASSUME GoesOffline PROVE Calm
  <2>1. sat'.reg # NoReg
    BY <1>0, <1>5 DEF GoesOffline, SatRow, NameKept
  <2> QED
    BY <1>5, <2>1, TablesAlone, HistoryAlone DEF GoesOffline
<1>6. ASSUME NEW j \in Seqs,
             LeaseLapses(j) \/ AwaitLapses(j) \/ CancelAges(j) \/ JobExpires(j)
      PROVE  Calm
  <2>1. PICK row : /\ RowAges(j, row)
                   /\ row.status = jobs[j].status /\ row.delivered = jobs[j].delivered
    <3>1. jobs[j] \in Job
      BY <1>0 DEF Rows
    <3> QED
      BY <1>6, <3>1 DEF LeaseLapses, AwaitLapses, CancelAges, JobExpires, Job
  <2>2. jobs' = [jobs EXCEPT ![j] = row] /\ UNCHANGED <<sat, deliver, hist, agentVars>>
    BY <2>1 DEF RowAges
  <2>3. FlagsStay
    BY <1>0, <2>1, <2>2 DEF FlagsStay, Rows
  <2>4. left'["remove"] = left["remove"]
    BY <1>0, <1>6, SpentElsewhere DEF LeaseLapses, AwaitLapses, CancelAges, JobExpires,
       Disturbances
  <2> QED
    BY <1>1, <2>2, <2>3, <2>4, HistoryAlone, DeliveryCalm
<1> QED
  BY <1>2, <1>3, <1>4, <1>5, <1>6 DEF ServerGoes

---------------------------------------------------------------------------
(* Claiming outcomes, giving them back and writing the turn *)

(* What these steps have in common: rows, calls and requests stay. *)
RowsStand ==
  /\ \A j \in Seqs : SameCore(jobs'[j], jobs[j])
  /\ sat' = sat /\ op' = op /\ removing' = removing /\ hist'.calls = hist.calls
  /\ hist'.seen = hist.seen /\ hist'.orphaned = hist.orphaned
  /\ left'["remove"] = left["remove"]

LEMMA RowsStandFacts ==
  ASSUME NameKept, SeesItsRow, RowsStand
  PROVE  /\ Present(jobs') = Present(jobs)
         /\ \A j \in Seqs : jobs'[j].call = jobs[j].call
         /\ NameKept' /\ SeesItsRow'
<1>1. Present(jobs') = Present(jobs)
  BY DEF RowsStand, SameCore, Present
<1>2. \A j \in Seqs : jobs'[j].call = jobs[j].call
  BY DEF RowsStand, SameCore
<1>3. NameKept'
  BY DEF NameKept, RowsStand
<1>4. SeesItsRow'
  BY <1>1, <1>2 DEF SeesItsRow, RowsStand, Present
<1> QED
  BY <1>1, <1>2, <1>3, <1>4

LEMMA OutcomesClaimed ==
  ASSUME Typed, NEW S, jobs' = Delivered(jobs, S, TRUE)
  PROVE  /\ \A j \in S \cap Present(jobs) : jobs'[j].delivered
         /\ \A j \in Seqs \ (S \cap Present(jobs)) : jobs'[j] = jobs[j]
         /\ \A j \in Seqs : SameCore(jobs'[j], jobs[j])
<1>1. \A j \in Seqs : jobs[j] \in Job
  BY DEF Typed, Tables, Rows
<1>2. jobs' =
        [j \in Seqs |-> IF j \in S \cap Present(jobs)
                        THEN [jobs[j] EXCEPT !.delivered = TRUE] ELSE jobs[j]]
  BY DEF Delivered, Updated
<1>3. \A j \in S \cap Present(jobs) : jobs'[j].delivered
  BY <1>1, <1>2 DEF Present, Job
<1>4. \A j \in Seqs : SameCore(jobs'[j], jobs[j])
  <2>1. TRUE \in BOOLEAN /\ FALSE \in BOOLEAN /\ jobs \in Rows
    BY DEF Typed, Tables
  <2> QED
    BY <2>1, DeliveredRows
<1> QED
  BY <1>2, <1>3, <1>4, Zenon

LEMMA OutcomesReleased ==
  ASSUME Typed, NEW S, jobs' = Delivered(jobs, S, FALSE)
  PROVE  /\ \A j \in S \cap Present(jobs) : ~jobs'[j].delivered
         /\ \A j \in Seqs \ (S \cap Present(jobs)) : jobs'[j] = jobs[j]
         /\ \A j \in Seqs : SameCore(jobs'[j], jobs[j])
<1>1. \A j \in Seqs : jobs[j] \in Job
  BY DEF Typed, Tables, Rows
<1>2. jobs' =
        [j \in Seqs |-> IF j \in S \cap Present(jobs)
                        THEN [jobs[j] EXCEPT !.delivered = FALSE] ELSE jobs[j]]
  BY DEF Delivered, Updated
<1>3. \A j \in S \cap Present(jobs) : ~jobs'[j].delivered
  BY <1>1, <1>2 DEF Present, Job
<1>4. \A j \in Seqs : SameCore(jobs'[j], jobs[j])
  <2>1. TRUE \in BOOLEAN /\ FALSE \in BOOLEAN /\ jobs \in Rows
    BY DEF Typed, Tables
  <2> QED
    BY <2>1, DeliveredRows
<1> QED
  BY <1>2, <1>3, <1>4, Zenon

(* Rows are given back that the delivery had claimed, and no longer told. *)
LEMMA ReleaseKeeps ==
  ASSUME Typed, RowsKept, NameKept, Turns, NEW d \in Deliveries, Writing(d),
         NEW fits \in SUBSET deliver[d].seqs, RowsStand, hist'.turns = hist.turns,
         jobs' = Delivered(jobs, deliver[d].seqs \ fits, FALSE),
         \A e \in Deliveries \ {d} : deliver'[e] = deliver[e],
         \/ /\ Writing(d)' /\ deliver'[d].seqs = fits
            /\ deliver'[d].told = {t \in deliver[d].told : t[1] \in fits}
         \/ ~Writing(d)' /\ fits = {}
  PROVE  NameKept' /\ Turns'
<1> USE RowFacts, TurnTypes
<1> DEFINE back == (deliver[d].seqs \ fits) \cap Present(jobs)
<1>1. /\ Present(jobs') = Present(jobs) /\ \A j \in Seqs : jobs'[j].call = jobs[j].call
      /\ NameKept' /\ SeesItsRow'
  BY RowsStandFacts DEF Turns
<1>2. /\ \A j \in back : ~jobs'[j].delivered
      /\ \A j \in Seqs \ back : jobs'[j] = jobs[j]
  <2>1. PICK S : S = deliver[d].seqs \ fits
    OBVIOUS
  <2>2. jobs' = Delivered(jobs, S, FALSE) /\ back = S \cap Present(jobs)
    BY <2>1
  <2> HIDE DEF back
  <2> QED
    BY <2>2, OutcomesReleased
<1>3. TurnClaimed(d)
  BY DEF Turns, TurnsClaimed
<1>4. \A t \in deliver'[d].told : Writing(d)' => t \in deliver[d].told /\ t[1] \in fits
  OBVIOUS
<1>5. ASSUME NEW e \in Deliveries, Writing(e)'
      PROVE  /\ Writing(e)
             /\ \A t \in deliver'[e].told : t \in deliver[e].told /\ t[1] \notin back
  <2>1. CASE e = d
    BY <1>4, <1>5, <2>1
  <2>2. CASE e # d
    <3>1. deliver'[e] = deliver[e] /\ Writing(e) /\ TurnClaimed(e)
      BY <1>5, <2>2 DEF Writing, Turns, TurnsClaimed
    <3>2. ASSUME NEW t \in deliver[e].told, t[1] \in back PROVE FALSE
      <4>1. PICK u \in deliver[d].told : u[1] = t[1]
        BY <1>3, <3>2 DEF TurnClaimed
      <4>2. t[1] \in Present(jobs) /\ jobs[t[1]].call = t[2] /\ jobs[t[1]].call = u[2]
        BY <1>3, <3>1, <3>2, <4>1 DEF TurnClaimed
      <4>3. Announcing(d, t[2]) /\ Announcing(e, t[2])
        BY <3>1, <4>1, <4>2 DEF Announcing
      <4> QED
        BY <2>2, <4>3 DEF Turns, OneAnnounces
    <3> QED
      BY <3>1, <3>2
  <2> QED
    BY <2>1, <2>2
<1>6. ASSUME NEW e \in Deliveries PROVE TurnClaimed(e)'
  <2> SUFFICES ASSUME Writing(e)' PROVE TurnClaimed(e)'
    BY DEF TurnClaimed
  <2>1. TurnClaimed(e) /\ Writing(e)
    BY <1>5 DEF Turns, TurnsClaimed
  <2>2. /\ \A j \in deliver'[e].seqs : \E t \in deliver'[e].told : t[1] = j
        /\ \A t \in deliver'[e].told : t[1] \in deliver'[e].seqs
    <3>1. CASE e # d
      BY <2>1, <3>1 DEF TurnClaimed
    <3>2. CASE e = d
      BY <1>3, <3>2 DEF TurnClaimed
    <3> QED
      BY <3>1, <3>2
  <2>3. ASSUME NEW t \in deliver'[e].told
        PROVE  /\ t[1] < sat'.next /\ t[2] \in 1 .. hist'.calls /\ hist'.turns[t[2]] = 0
               /\ \A i \in Present(jobs') : jobs'[i].call = t[2] <=> i = t[1]
               /\ t[1] \in Present(jobs') => jobs'[t[1]].delivered
    <3>1. t \in deliver[e].told /\ t[1] \notin back /\ t[1] \in Seqs
      BY <1>5
    <3>2. /\ t[1] < sat.next /\ t[2] \in 1 .. hist.calls /\ hist.turns[t[2]] = 0
          /\ \A i \in Present(jobs) : jobs[i].call = t[2] <=> i = t[1]
          /\ t[1] \in Present(jobs) => jobs[t[1]].delivered
      BY <2>1, <3>1 DEF TurnClaimed
    <3>3. /\ t[1] < sat'.next /\ t[2] \in 1 .. hist'.calls /\ hist'.turns[t[2]] = 0
      BY <3>2 DEF RowsStand
    <3>4. \A i \in Present(jobs') : jobs'[i].call = t[2] <=> i = t[1]
      BY <1>1, <3>2, ZenonT(120) DEF Present
    <3>5. t[1] \in Present(jobs') => jobs'[t[1]].delivered
      <4> HIDE DEF back
      <4> QED BY <1>1, <1>2, <3>1, <3>2
    <3> QED
      BY <3>3, <3>4, <3>5
  <2> QED
    BY <2>2, <2>3 DEF TurnClaimed
<1>7. OneAnnounces'
  BY <1>5 DEF Turns, OneAnnounces, Announcing
<1>8. TurnsCounted'
  BY DEF Turns, TurnsCounted, RowsStand
<1>9. OwedIsUntold'
  <2> SUFFICES ASSUME NEW j \in Present(jobs), ~jobs'[j].delivered
               PROVE  hist.turns[jobs[j].call] = 0
    BY <1>1 DEF OwedIsUntold, Present
  <2>1. CASE j \in back
    <3>1. PICK t \in deliver[d].told : t[1] = j
      BY <1>3, <2>1 DEF TurnClaimed
    <3> QED
      BY <1>3, <3>1 DEF TurnClaimed
  <2>2. CASE j \notin back
    BY <1>2, <2>2 DEF Turns, OwedIsUntold, Present
  <2> QED
    BY <2>1, <2>2
<1>10. ClaimedIsAccounted'
  <2>1. ASSUME NEW j \in Present(jobs'), jobs'[j].delivered, NEW n, n = jobs'[j].call
        PROVE  Accounted(n)'
    <3>1. j \in Present(jobs) /\ j \in Seqs /\ j \notin back /\ jobs[j].delivered /\ n = jobs[j].call
      BY <1>1, <1>2, <2>1 DEF Present
    <3>2. Accounted(n)
      BY <3>1 DEF Turns, ClaimedIsAccounted
    <3>3. ASSUME NEW e \in Deliveries, Announcing(e, n) PROVE Announcing(e, n)'
      <4>1. CASE e # d
        BY <3>3, <4>1 DEF Announcing, Writing
      <4>2. CASE e = d
        <5>1. PICK t \in deliver[d].told : t[2] = n
          BY <3>3, <4>2 DEF Announcing
        <5>2. t[1] = j /\ j \in deliver[d].seqs
          BY <1>3, <3>1, <5>1 DEF TurnClaimed
        <5>3. j \in fits
          BY <3>1, <5>2
        <5> QED
          BY <4>2, <5>1, <5>2, <5>3 DEF Announcing
      <4> QED
        BY <4>1, <4>2
    <3>4. Told(n) => Told(n)'
      BY DEF Told, RowsStand
    <3>5. Returning(n) => Returning(n)'
      BY DEF Returning, RowsStand
    <3> QED
      BY <3>2, <3>3, <3>4, <3>5 DEF Accounted, RowsStand
  <2> QED
    BY <2>1, ZenonT(120) DEF ClaimedIsAccounted, Accounted, Told, Returning, Announcing, Writing
<1> QED
  BY <1>1, <1>6, <1>7, <1>8, <1>9, <1>10 DEF Turns, TurnsClaimed

LEMMA TrimTurnKeeps ==
  ASSUME Typed, RowsKept, NameKept, Turns, NEW d \in Deliveries, TrimTurn(d)
  PROVE  NameKept' /\ Turns'
<1>1. PICK fits \in SUBSET deliver[d].seqs :
        /\ jobs' = Release(jobs, deliver[d].seqs \ fits)
        /\ deliver' = [deliver EXCEPT ![d].seqs = fits,
                         ![d].told = {t \in @ : t[1] \in fits}]
  BY DEF TrimTurn
<1>2. jobs' = Delivered(jobs, deliver[d].seqs \ fits, FALSE)
  BY <1>1 DEF Release
<1>3. PICK S : S = deliver[d].seqs \ fits
  OBVIOUS
<1>4. \A j \in Seqs : SameCore(jobs'[j], jobs[j])
  BY <1>2, <1>3, OutcomesReleased
<1>5. deliver \in [Deliveries -> Deliver] /\ Writing(d)
  BY TurnTypes DEF TrimTurn, Writing
<1>6. /\ Writing(d)' /\ deliver'[d].seqs = fits
      /\ deliver'[d].told = {t \in deliver[d].told : t[1] \in fits}
      /\ \A e \in Deliveries \ {d} : deliver'[e] = deliver[e]
  BY <1>1, <1>5 DEF Writing, Deliver
<1>7. RowsStand /\ hist'.turns = hist.turns
  BY <1>4 DEF TrimTurn, RowsStand, agentVars
<1> QED
  BY <1>2, <1>5, <1>6, <1>7, ReleaseKeeps

LEMMA WriteFailsKeeps ==
  ASSUME Typed, RowsKept, NameKept, Turns, NEW d \in Deliveries, WriteFails(d)
  PROVE  NameKept' /\ Turns'
<1>1. /\ jobs' = Delivered(jobs, deliver[d].seqs, FALSE) /\ Writing(d)
      /\ NothingToTell(d, jobs') /\ Spend("fail")
      /\ UNCHANGED <<sat, regs, hist, agentVars>>
  BY DEF WriteFails, Release, Writing
<1>2. \A j \in Seqs : SameCore(jobs'[j], jobs[j])
  BY <1>1, OutcomesReleased
<1>3. left'["remove"] = left["remove"]
  BY <1>1, SpentElsewhere DEF Typed, Tables, Disturbances
<1>4. deliver \in [Deliveries -> Deliver]
  BY TurnTypes
<1>5. PICK js : js = jobs'
  OBVIOUS
<1>6. PICK v : deliver' = [deliver EXCEPT ![d] = v] /\ v.phase # "write"
  BY <1>1, <1>5, NothingToTellMoves
<1>7. ~Writing(d)' /\ \A e \in Deliveries \ {d} : deliver'[e] = deliver[e]
  BY <1>4, <1>6 DEF Writing
<1>8. RowsStand /\ hist'.turns = hist.turns
  BY <1>1, <1>2, <1>3 DEF RowsStand, agentVars
<1>9. deliver[d].seqs \ {} = deliver[d].seqs /\ {} \in SUBSET deliver[d].seqs
  OBVIOUS
<1>10. jobs' = Delivered(jobs, deliver[d].seqs \ {}, FALSE)
  BY <1>1, <1>9
<1> QED
  BY <1>1, <1>7, <1>8, <1>9, <1>10, ReleaseKeeps

LEMMA ClaimOutcomesKeeps ==
  ASSUME Typed, RowsKept, NameKept, Turns, NEW d \in Deliveries,
         ClaimOutcomes(d), StillUndelivered(jobs, deliver[d].seqs) # {}
  PROVE  NameKept' /\ Turns'
<1> USE RowFacts, TurnTypes
<1>1. PICK S : S = StillUndelivered(jobs, deliver[d].seqs)
  OBVIOUS
<1>2. /\ jobs' = Delivered(jobs, S, TRUE) /\ ~Writing(d)
      /\ deliver' = [deliver EXCEPT ![d].phase = "write", ![d].seqs = S,
                                    ![d].told = {<<j, jobs[j].call>> : j \in S}]
      /\ UNCHANGED <<sat, regs, hist, left, agentVars>>
  BY <1>1 DEF ClaimOutcomes, Writing
<1>3. S \subseteq Present(jobs) /\ \A j \in S : ~jobs[j].delivered
  BY <1>1 DEF StillUndelivered
<1>4. /\ \A j \in S : jobs'[j].delivered
      /\ \A j \in Seqs \ S : jobs'[j] = jobs[j]
      /\ \A j \in Seqs : SameCore(jobs'[j], jobs[j])
  BY <1>2, <1>3, OutcomesClaimed
<1>5. /\ Writing(d)' /\ deliver'[d].seqs = S
      /\ deliver'[d].told = {<<j, jobs[j].call>> : j \in S}
      /\ \A e \in Deliveries \ {d} : deliver'[e] = deliver[e]
  BY <1>2 DEF Writing, Deliver
<1>6. RowsStand /\ hist' = hist
  BY <1>2, <1>4 DEF RowsStand, agentVars
<1>7. /\ Present(jobs') = Present(jobs) /\ \A j \in Seqs : jobs'[j].call = jobs[j].call
      /\ NameKept' /\ SeesItsRow'
  BY <1>6, RowsStandFacts DEF Turns
<1>8. \A j \in Seqs : jobs[j].delivered => jobs'[j].delivered
  BY <1>4
<1>9. TurnClaimed(d)'
  <2>1. /\ \A j \in S : \E t \in deliver'[d].told : t[1] = j
        /\ \A t \in deliver'[d].told : t[1] \in S /\ t[2] = jobs[t[1]].call
    <3>1. \A j \in S : <<j, jobs[j].call>> \in deliver'[d].told
      BY <1>5
    <3>2. \A t \in deliver'[d].told : \E j \in S : t = <<j, jobs[j].call>>
      BY <1>5
    <3>3. ASSUME NEW j \in S PROVE \E t \in deliver'[d].told : t[1] = j
      <4>1. PICK t : t = <<j, jobs[j].call>>
        OBVIOUS
      <4>2. t \in deliver'[d].told /\ t[1] = j
        BY <3>1, <4>1
      <4> QED
        BY <4>2
    <3>4. ASSUME NEW t \in deliver'[d].told PROVE t[1] \in S /\ t[2] = jobs[t[1]].call
      <4>1. PICK j \in S : t = <<j, jobs[j].call>>
        BY <3>2
      <4>2. t[1] = j /\ t[2] = jobs[j].call
        BY <4>1
      <4> QED
        BY <4>2
    <3> QED
      BY <3>3, <3>4
  <2>2. ASSUME NEW j \in S
        PROVE  /\ j < sat.next /\ jobs[j].call \in 1 .. hist.calls
               /\ hist.turns[jobs[j].call] = 0
               /\ \A i \in Present(jobs) : jobs[i].call = jobs[j].call <=> i = j
               /\ jobs'[j].delivered
    BY <1>3, <1>4 DEF RowsKept, RowKept, Present, Turns, OwedIsUntold
  <2>3. ASSUME NEW t \in deliver'[d].told
        PROVE  /\ t[1] \in S /\ t[1] < sat'.next
               /\ t[2] \in 1 .. hist'.calls /\ hist'.turns[t[2]] = 0
               /\ \A i \in Present(jobs') : jobs'[i].call = t[2] <=> i = t[1]
               /\ jobs'[t[1]].delivered
    <3>1. t[1] \in S /\ t[2] = jobs[t[1]].call
      BY <2>1
    <3>2. /\ t[1] < sat.next /\ t[2] \in 1 .. hist.calls /\ hist.turns[t[2]] = 0
          /\ \A i \in Present(jobs) : jobs[i].call = t[2] <=> i = t[1]
          /\ jobs'[t[1]].delivered
      BY <2>2, <3>1
    <3>3. \A i \in Present(jobs') : i \in Present(jobs) /\ jobs'[i].call = jobs[i].call
      BY <1>7 DEF Present
    <3> QED
      BY <1>2, <1>6, <3>1, <3>2, <3>3, ZenonT(120)
  <2> QED
    BY <1>5, <2>1, <2>3 DEF TurnClaimed
<1>10. ASSUME NEW e \in Deliveries \ {d} PROVE TurnClaimed(e)'
  <2> SUFFICES ASSUME Writing(e)' PROVE TurnClaimed(e)'
    BY DEF TurnClaimed
  <2>1. TurnClaimed(e) /\ Writing(e) /\ deliver'[e] = deliver[e]
    BY <1>5 DEF Turns, TurnsClaimed, Writing
  <2>2. ASSUME NEW t \in deliver[e].told
        PROVE  /\ t[1] \in deliver[e].seqs /\ t[1] < sat'.next
               /\ t[2] \in 1 .. hist'.calls /\ hist'.turns[t[2]] = 0
               /\ \A i \in Present(jobs') : jobs'[i].call = t[2] <=> i = t[1]
               /\ t[1] \in Present(jobs') => jobs'[t[1]].delivered
    <3>1. /\ t[1] \in deliver[e].seqs /\ t[1] < sat.next /\ t[1] \in Seqs
          /\ t[2] \in 1 .. hist.calls /\ hist.turns[t[2]] = 0
          /\ \A i \in Present(jobs) : jobs[i].call = t[2] <=> i = t[1]
          /\ t[1] \in Present(jobs) => jobs[t[1]].delivered
      BY <2>1 DEF TurnClaimed
    <3>2. \A i \in Present(jobs') : i \in Present(jobs) /\ jobs'[i].call = jobs[i].call
      BY <1>7 DEF Present
    <3> QED
      BY <1>2, <1>6, <1>8, <3>1, <3>2, ZenonT(120)
  <2> QED
    BY <2>1, <2>2 DEF TurnClaimed
<1>11. ASSUME NEW e \in Deliveries \ {d}, NEW n, Announcing(e, n) PROVE ~Announcing(d, n)'
  <2> SUFFICES ASSUME Announcing(d, n)' PROVE FALSE
    OBVIOUS
  <2>1. PICK j \in S : jobs[j].call = n
    BY <1>5 DEF Announcing
  <2>2. PICK t \in deliver[e].told : t[2] = n
    BY <1>11 DEF Announcing
  <2>3. j = t[1] /\ jobs[t[1]].delivered
    BY <1>3, <1>11, <2>1, <2>2 DEF Turns, TurnsClaimed, TurnClaimed, Announcing
  <2> QED
    BY <1>3, <2>1, <2>3
<1>12. \A e \in Deliveries \ {d} : \A n : Announcing(e, n)' <=> Announcing(e, n)
  BY <1>5 DEF Announcing, Writing
<1>13. OneAnnounces'
  <2> SUFFICES ASSUME NEW a \in Deliveries, NEW b \in Deliveries, NEW n \in Calls,
                      Announcing(a, n)', Announcing(b, n)'
               PROVE  a = b
    BY DEF OneAnnounces
  <2>1. CASE a # d /\ b # d
    BY <1>12, <2>1 DEF Turns, OneAnnounces
  <2> QED
    BY <1>11, <1>12, <2>1
<1>14. TurnsCounted'
  BY <1>6 DEF Turns, TurnsCounted
<1>15. OwedIsUntold'
  BY <1>6, <1>7, <1>8 DEF Turns, OwedIsUntold, Present
<1>16. ClaimedIsAccounted'
  <2>1. ASSUME NEW j \in Present(jobs'), jobs'[j].delivered, NEW n, n = jobs'[j].call
        PROVE  Accounted(n)'
    <3>1. j \in Present(jobs) /\ j \in Seqs /\ n = jobs[j].call
      BY <1>7, <2>1 DEF Present
    <3>2. CASE j \in S
      <4>1. <<j, n>> \in deliver'[d].told /\ <<j, n>>[2] = n
        BY <1>5, <3>1, <3>2
      <4> QED
        BY <1>5, <4>1 DEF Accounted, Announcing
    <3>3. CASE j \notin S
      <4>1. Accounted(n)
        BY <1>4, <2>1, <3>1, <3>3 DEF Turns, ClaimedIsAccounted
      <4>2. \A e \in Deliveries : Announcing(e, n) => e # d
        BY <1>2 DEF Announcing
      <4>3. \A e \in Deliveries : Announcing(e, n) => Announcing(e, n)'
        BY <1>12, <4>2
      <4>4. Returning(n) => Returning(n)'
        BY <1>6 DEF Returning, RowsStand
      <4> QED
        BY <1>6, <4>1, <4>3, <4>4 DEF Accounted, Told
    <3> QED
      BY <3>2, <3>3
  <2> QED
    BY <2>1 DEF ClaimedIsAccounted, Accounted, Told, Returning, Announcing, Writing
<1> QED
  BY <1>7, <1>9, <1>10, <1>13, <1>14, <1>15, <1>16 DEF Turns, TurnsClaimed

LEMMA WriteTurnKeeps ==
  ASSUME Typed, RowsKept, NameKept, Turns, NEW d \in Deliveries, WriteTurn(d)
  PROVE  NameKept' /\ Turns'
<1> USE RowFacts, TurnTypes
<1>1. /\ jobs' = jobs /\ Writing(d) /\ deliver' = [deliver EXCEPT ![d].phase = "wake"]
      /\ UNCHANGED <<sat, left, agentVars>>
      /\ hist' = [hist EXCEPT !.turns = [n \in Calls |->
                    IF \E t \in deliver[d].told : t[2] = n THEN @[n] + 1 ELSE @[n]]]
  BY DEF WriteTurn, Writing
<1>2. /\ \A n \in Calls : hist'.turns[n] =
           IF Announcing(d, n) THEN hist.turns[n] + 1 ELSE hist.turns[n]
      /\ hist'.calls = hist.calls /\ hist'.seen = hist.seen
      /\ hist'.orphaned = hist.orphaned
  BY <1>1 DEF History, Announcing
<1>3. ~Writing(d)' /\ \A e \in Deliveries \ {d} : deliver'[e] = deliver[e]
  BY <1>1 DEF Writing, Deliver
<1>4. RowsStand
  BY <1>1, <1>2 DEF RowsStand, SameCore, agentVars
<1>5. NameKept' /\ SeesItsRow'
  BY <1>4, RowsStandFacts DEF Turns
<1>6. \A n \in Calls : Announcing(d, n) => hist.turns[n] = 0 /\ n <= hist.calls
  BY DEF Turns, TurnsClaimed, TurnClaimed, Announcing
<1>7. TurnsCounted'
  BY <1>2, <1>6 DEF Turns, TurnsCounted
<1>8. ASSUME NEW e \in Deliveries PROVE TurnClaimed(e)'
  <2> SUFFICES ASSUME Writing(e)' PROVE TurnClaimed(e)'
    BY DEF TurnClaimed
  <2>1. e # d /\ Writing(e) /\ TurnClaimed(e) /\ deliver'[e] = deliver[e]
    BY <1>3 DEF Writing, Turns, TurnsClaimed
  <2>2. ASSUME NEW t \in deliver[e].told PROVE hist'.turns[t[2]] = 0
    <3>1. t[2] \in Calls /\ hist.turns[t[2]] = 0 /\ Announcing(e, t[2])
      BY <2>1 DEF TurnClaimed, Announcing
    <3>2. ~Announcing(d, t[2])
      BY <2>1, <3>1 DEF Turns, OneAnnounces
    <3> QED
      BY <1>2, <3>1, <3>2
  <2> QED
    BY <1>1, <1>2, <2>1, <2>2 DEF TurnClaimed
<1>9. OneAnnounces'
  <2>1. \A e \in Deliveries, n \in Calls : Announcing(e, n)' => Announcing(e, n)
    BY <1>3 DEF Announcing, Writing
  <2> QED
    BY <2>1 DEF Turns, OneAnnounces
<1>10. OwedIsUntold'
  <2> SUFFICES ASSUME NEW j \in Present(jobs), ~jobs[j].delivered
               PROVE  hist'.turns[jobs[j].call] = 0
    BY <1>1 DEF OwedIsUntold
  <2>1. jobs[j].call \in Calls /\ hist.turns[jobs[j].call] = 0
    BY DEF Turns, OwedIsUntold, RowsKept, RowKept, Present, Calls
  <2>2. ~Announcing(d, jobs[j].call)
    <3> SUFFICES ASSUME Announcing(d, jobs[j].call) PROVE FALSE
      OBVIOUS
    <3>1. PICK t \in deliver[d].told : t[2] = jobs[j].call
      BY DEF Announcing
    <3>2. t[1] = j /\ jobs[t[1]].delivered
      BY <1>1, <3>1 DEF Turns, TurnsClaimed, TurnClaimed
    <3> QED
      BY <3>2
  <2> QED
    BY <1>2, <2>1, <2>2
<1>11. ClaimedIsAccounted'
  <2>1. ASSUME NEW j \in Present(jobs'), jobs'[j].delivered, NEW n, n = jobs'[j].call
        PROVE  Accounted(n)'
    <3>1. Accounted(n) /\ n \in Calls
      BY <1>1, <2>1, SMTT(60) DEF Turns, ClaimedIsAccounted, RowsKept, RowKept, Present, Calls
    <3>2. CASE Announcing(d, n)
      BY <1>2, <1>6, <3>1, <3>2 DEF Accounted, Told
    <3>3. CASE Told(n)
      BY <1>2, <3>1, <3>3 DEF Accounted, Told
    <3>4. CASE n \in hist.orphaned
      BY <1>2, <3>4 DEF Accounted
    <3>5. ASSUME NEW e \in Deliveries \ {d}, Announcing(e, n) PROVE Accounted(n)'
      BY <1>3, <3>5 DEF Accounted, Announcing, Writing
    <3>6. CASE Returning(n)
      BY <1>4, <3>6 DEF Accounted, Returning, RowsStand
    <3> QED
      BY <3>1, <3>2, <3>3, <3>4, <3>5, <3>6 DEF Accounted
  <2> QED
    BY <2>1 DEF ClaimedIsAccounted, Accounted, Told, Returning, Announcing, Writing
<1> QED
  BY <1>5, <1>7, <1>8, <1>9, <1>10, <1>11 DEF Turns, TurnsClaimed

---------------------------------------------------------------------------
LEMMA NothingClaimedCalm ==
  ASSUME Typed, NameKept, NEW d \in Deliveries,
         ClaimOutcomes(d), StillUndelivered(jobs, deliver[d].seqs) = {}
  PROVE  Calm
<1>1. /\ deliver[d].phase = "claim" /\ NothingToTell(d, jobs)
      /\ jobs' = Delivered(jobs, {}, TRUE)
      /\ UNCHANGED <<sat, regs, hist, left, agentVars>>
  BY DEF ClaimOutcomes
<1>2. PICK S : S = {}
  OBVIOUS
<1>3. \A j \in Seqs : jobs'[j] = jobs[j]
  BY <1>1, <1>2, OutcomesClaimed
<1>4. PICK v : deliver' = [deliver EXCEPT ![d] = v] /\ v.phase # "write"
  BY <1>1, NothingToTellMoves
<1>5. DeliveriesStay
  BY <1>1, <1>4, DeliveryMoves DEF Writing
<1>6. FlagsStay
  BY <1>3 DEF FlagsStay
<1> QED
  BY <1>1, <1>5, <1>6, HistoryAlone, DeliveryCalm

LEMMA TurnsStep ==
  ASSUME IInv, NameKept, Turns, [Next]_vars
  PROVE  NameKept' /\ Turns'
<1>0. QueueKept /\ Typed /\ RowsKept /\ SeesItsRow
  BY DEF IInv, QueueKept, Turns
<1>1. QueueKept' /\ RowStep
  BY <1>0, StepKept
<1>2. ASSUME Calm PROVE NameKept' /\ Turns'
  <2>1. RowsKept'
    BY <1>1 DEF QueueKept
  <2> QED
    BY <1>0, <1>1, <1>2, <2>1, CalmKeepsTurns
<1>3. CASE WorkerNext /\ UNCHANGED agentVars
  BY <1>0, <1>2, <1>3, WorkerCalm
<1>4. CASE ServerGoes
  BY <1>0, <1>2, <1>4, ServerCalm
<1>5. CASE UNCHANGED vars
  <2>1. /\ UNCHANGED agentVars /\ left' = left /\ sat' = sat /\ jobs' = jobs
        /\ deliver' = deliver /\ hist' = hist
    BY <1>5 DEF vars
  <2>2. Calm
    BY <2>1, TablesAlone, HistoryAlone DEF NameKept
  <2> QED
    BY <1>2, <2>2
<1>6. CASE AgentNext
  <2>1. ASSUME NEW o \in Agents \cup Owners, OpStep(o) PROVE NameKept' /\ Turns'
    <3>1. Calm
      BY <1>0, <2>1, InsertJobCalm, MarkAwaitedCalm, LooksCalm, MarkSeenCalm,
         ReleaseAwaitedCalm, AnswerCalm, RequestCancelCalm, CancelSettleCalm,
         RevokeStopsCalm DEF OpStep
    <3> QED
      BY <1>2, <3>1
  <2>2. ASSUME NEW o \in Agents \cup Owners,
               \/ Start(o) \/ OpDies(o) \/ Revoke(o)
               \/ \E j \in Seqs : Again(o, j) \/ Cancel(o, j)
        PROVE  NameKept' /\ Turns'
    BY <1>0, <1>2, <2>2, AsksCalm, OpDiesCalm, RevokeCalm
  <2>3. ASSUME NEW d \in Deliveries,
               DeliveryStep(d) \/ WriteFails(d) \/ WakeFails(d) \/ DeliveryDies(d)
        PROVE  NameKept' /\ Turns'
    <3>1. CASE \/ WakeRetry(d) \/ SelectOutcomes(d) \/ WakeAgent(d)
               \/ WakeFails(d) \/ DeliveryDies(d)
      BY <1>0, <1>2, <3>1, CarryOnCalm
    <3>2. CASE ClaimOutcomes(d)
      BY <1>0, <1>2, <3>2, NothingClaimedCalm, ClaimOutcomesKeeps
    <3>3. CASE TrimTurn(d)
      BY <1>0, <3>3, TrimTurnKeeps
    <3>4. CASE WriteTurn(d)
      BY <1>0, <3>4, WriteTurnKeeps
    <3>5. CASE WriteFails(d)
      BY <1>0, <3>5, WriteFailsKeeps
    <3> QED
      BY <2>3, <3>1, <3>2, <3>3, <3>4, <3>5 DEF DeliveryStep
  <2>4. CASE Grant
    BY <1>0, <1>2, <2>4, GrantCalm
  <2>5. ~RemoveStops /\ ~RemoveDeletes
    BY DEF RemoveStops, RemoveDeletes, NameKept, Spend
  <2> QED
    BY <1>6, <2>1, <2>2, <2>3, <2>4, <2>5 DEF AgentNext, AgentGoes
<1> QED
  BY <1>3, <1>4, <1>5, <1>6 DEF Next

LEMMA TurnsInit ==
  ASSUME Init, left["remove"] = 0
  PROVE  NameKept /\ Turns
<1>1. /\ sat = [NoSatellite EXCEPT !.reg = 1, !.granted = TRUE, !.online = TRUE]
      /\ jobs = [j \in Seqs |-> NoJob] /\ deliver = [d \in Deliveries |-> NoDelivery]
      /\ hist = NoHistory /\ removing = "no" /\ op = [o \in Agents \cup Owners |-> NoOp]
  BY DEF Init, AgentInit
<1>2. NameKept
  BY <1>1 DEF NameKept, NoSatellite, NoReg
<1>3. Present(jobs) = {}
  BY <1>1 DEF Present, NoJob
<1>4. \A d \in Deliveries : ~Writing(d)
  BY <1>1 DEF Writing, NoDelivery
<1>5. \A n \in Calls : hist.turns[n] = 0
  BY <1>1 DEF NoHistory
<1>6. SeesItsRow
  BY <1>1 DEF SeesItsRow, NoOp
<1> QED
  BY <1>2, <1>3, <1>4, <1>5, <1>6 DEF Turns, TurnsClaimed, TurnClaimed, OneAnnounces,
     Announcing, TurnsCounted, OwedIsUntold, ClaimedIsAccounted

(* Of a satellite that is not removed, the claims of outcomes and the      *)
(* turns about them keep together, whatever fails, dies or races.          *)
THEOREM TurnsInvariant ==
  Spec /\ left["remove"] = 0 => [](IInv /\ NameKept /\ Turns)
<1>1. Init /\ left["remove"] = 0 => IInv /\ NameKept /\ Turns
  BY InitKept, TurnsInit
<1>2. IInv /\ NameKept /\ Turns /\ [Next]_vars => (IInv /\ NameKept /\ Turns)'
  BY InvariantStep, TurnsStep
<1> QED
  BY <1>1, <1>2, PTL DEF Spec

(* deliverOutcome, claimOutcomes: an outcome is told in one turn at most,  *)
(* through failing writes, trimmed turns, dying deliveries, waits and the  *)
(* hourly retry.  A removal has to be left out: releaseOutcomes names no   *)
(* registration, so a delivery that outlived it gives back the number's    *)
(* next job, which is then told again.                                     *)
THEOREM ToldOnce == Spec /\ left["remove"] = 0 => []OneTurn
<1>1. Turns => OneTurn
  BY DEF Turns, TurnsCounted, OneTurn
<1> QED
  BY <1>1, TurnsInvariant, PTL

(* A settled row only goes when its outcome is no longer owed. *)
LEMMA PurgedIsDelivered ==
  ASSUME Typed, RowsKept, RowStep, NameKept, NameKept', NEW j \in Terminal(jobs),
         jobs'[j].status = "absent"
  PROVE  jobs[j].delivered
<1> USE RowFacts
<1>1. j \in Seqs /\ jobs[j].status \notin {"absent", "queued", "running"}
  BY DEF Terminal, Present, NonTerminal, InStatus
<1>2. CASE Moves
  BY <1>1, <1>2 DEF Moves, RowMoves, SameCore
<1>3. CASE Inserts
  <2>1. /\ sat.next \in Seqs /\ jobs[sat.next].status = "absent"
        /\ \A i \in Seqs \ {sat.next} : jobs'[i] = jobs[i]
    BY <1>3, InsertsAdd DEF RowsKept, RowKept
  <2> QED
    BY <1>1, <2>1
<1> QED
  BY <1>2, <1>3 DEF RowStep, Registers, Removes, NameKept

(* purgeExpired, claimOutcomes, markSeen: an outcome goes by its age only  *)
(* once its agent was told, while the delivery or the request that claimed *)
(* it tells it, or after that one died with it.                            *)
THEOREM NothingPurgedUntold == Spec /\ left["remove"] = 0 => UntoldIsKept
<1> DEFINE KeptUntilTold ==
      \A j \in Terminal(jobs) :
        jobs'[j].status = "absent" /\ sat'.reg = sat.reg =>
          \/ Told(jobs[j].call) \/ BeingTold(jobs[j].call)
          \/ jobs[j].call \in hist.orphaned
<1>1. IInv /\ NameKept /\ Turns /\ [Next]_vars => [KeptUntilTold]_vars
  <2> SUFFICES ASSUME IInv, NameKept, Turns, Next, NEW j \in Terminal(jobs),
                      jobs'[j].status = "absent"
               PROVE  \/ Told(jobs[j].call) \/ BeingTold(jobs[j].call)
                      \/ jobs[j].call \in hist.orphaned
    OBVIOUS
  <2>1. jobs[j].delivered
    <3>1. Typed /\ RowsKept /\ RowStep
      BY StepKept DEF IInv, QueueKept
    <3>2. NameKept'
      BY TurnsStep
    <3> QED
      BY <3>1, <3>2, PurgedIsDelivered
  <2>2. Accounted(jobs[j].call)
    BY <2>1 DEF Turns, ClaimedIsAccounted, Terminal
  <2> QED
    BY <2>2 DEF Accounted, BeingTold, Returning, Announcing
<1> QED
  BY <1>1, TurnsInvariant, PTL DEF Spec, UntoldIsKept
=============================================================================
