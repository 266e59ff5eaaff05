-------------------------- MODULE SatellitesProofs --------------------------
(***************************************************************************)
(* The safety of the satellites' queue, for every number of jobs, calls,   *)
(* workers, requests and deliveries, and whatever disturbs them.           *)
(***************************************************************************)
EXTENDS Satellites, FiniteSetTheorems, TLAPS

Worker == [phase : {"off", "up", "draining", "gone"}, connected : BOOLEAN,
           inc : Nat, held : [Seqs -> Calls \cup {NoCall}],
           asked : SUBSET Seqs, unsent : Seq(Report)]

SatRow == [reg : Nat, next : 1 .. MaxSeq + 1, draining : BOOLEAN,
           online : BOOLEAN, granted : BOOLEAN]

History == [calls : 0 .. MaxCalls, ran : [Calls -> Nat],
            turns : [Calls -> Nat], seen : SUBSET (Calls \cup {NoCall}),
            orphaned : SUBSET (Calls \cup {NoCall})]

Rows == [Seqs -> Job]

(* The shape of everything that is not a bound on something else, and what *)
(* a request needs to know for the statement it is about to make.          *)
Tables ==
  /\ sat \in SatRow /\ regs \in Nat /\ jobs \in Rows
  /\ deliver \in [Deliveries -> Deliver] /\ left \in [Disturbances -> Nat]
  /\ hist \in History

Machines ==
  /\ worker \in [Workers -> Worker]
  /\ claim \in [Workers -> [Polls -> Claim]]
  /\ reports \subseteq Report /\ drains \subseteq Workers

OpKept(q) ==
  /\ q.phase = "insert" => q.reg # NoReg
  /\ q.phase \notin {"idle", "insert", "stop"} => q.seq \in Seqs

Requests ==
  /\ op \in [Agents \cup Owners -> Op]
  /\ \A o \in Agents \cup Owners : OpKept(op[o])
  /\ removing \in {"no", "yes"} \cup Deliveries

Typed == Tables /\ Machines /\ Requests

(* Sequence numbers are given out once in a registration, to calls that    *)
(* are all different, and a result stands with the call it belongs to.     *)
RowKept(j) ==
  /\ jobs[j].status = "absent" => jobs[j].of = NoCall
  /\ jobs[j].status # "absent" =>
       j < sat.next /\ jobs[j].call \in 1 .. hist.calls
  /\ jobs[j].unstarted => jobs[j].status = "cancelled"
  /\ jobs[j].of # NoCall => jobs[j].of = jobs[j].call

RowsKept ==
  /\ sat.reg <= regs /\ (sat.reg = NoReg => sat.next = 1)
  /\ \A j \in Seqs : RowKept(j)
  /\ \A i, j \in Present(jobs) : jobs[i].call = jobs[j].call => i = j

(* What somebody outside the database says of call n in row j of the       *)
(* registration inc: if that registration is still the current one, the    *)
(* number was given out, and its row is gone or is n's.                    *)
Known(j, n, inc) ==
  /\ inc \in 1 .. regs /\ n \in 1 .. hist.calls
  /\ inc = sat.reg =>
       j < sat.next /\ (jobs[j].status = "absent" \/ jobs[j].call = n)

(* What reports, kept outcomes, workers and answers of polls say *)
SaidByReport(j, n, inc) ==
  \E r \in reports : r.seq = j /\ r.call = n /\ r.inc = inc

SaidByWorker(w, j, n, inc) ==
  \/ worker[w].inc = inc /\ worker[w].held[j] = n
  \/ \E i \in 1 .. Len(worker[w].unsent) :
       /\ worker[w].unsent[i].seq = j /\ worker[w].unsent[i].call = n
       /\ worker[w].unsent[i].inc = inc
  \/ worker[w].inc = inc /\ \E k \in Polls : <<j, n>> \in claim[w][k].calls

Said(j, n, inc) ==
  SaidByReport(j, n, inc) \/ \E w \in Workers : SaidByWorker(w, j, n, inc)

Mentions ==
  /\ \A w \in Workers : worker[w].inc <= regs
  /\ \A j \in Seqs, n \in Calls, inc \in Nat :
       Said(j, n, inc) => Known(j, n, inc)

(* Call n is on its way to a machine in the answer of a poll. *)
HandedOver(n, w, k) == \E i \in claim[w][k].calls : i[2] = n

(* A call that has not been handed over has not run; one that is being     *)
(* handed over has not run yet, and in no other answer.                    *)
RunsOnce ==
  /\ \A n \in Calls : /\ hist.ran[n] <= 1
                      /\ n > hist.calls => hist.ran[n] = 0
  /\ \A w \in Workers, k \in Polls :
       claim[w][k].phase # "answer" => claim[w][k].calls = {}
  /\ \A n \in Calls, w \in Workers, k \in Polls : HandedOver(n, w, k) =>
       /\ hist.ran[n] = 0
       /\ \A v \in Workers, l \in Polls : HandedOver(n, v, l) => v = w /\ l = k
  /\ \A j \in Present(jobs) :
       jobs[j].status = "queued" \/ jobs[j].unstarted =>
         /\ hist.ran[jobs[j].call] = 0
         /\ \A w \in Workers, k \in Polls : ~HandedOver(jobs[j].call, w, k)

WorkersKept ==
  \A w \in Workers : /\ worker[w].asked \subseteq Running(w)
                     /\ Len(worker[w].unsent) <= MaxUnsent

---------------------------------------------------------------------------
(* What the statements do to a row *)

(* The two rows differ at most in leases, stamps and flags. *)
SameCore(a, b) ==
  /\ a.status = b.status /\ a.call = b.call /\ a.of = b.of
  /\ a.unstarted = b.unstarted

LEMMA NoJobIsJob == NoJob \in Job
BY DEF NoJob, Job, Statuses, NoCall

LEMMA RowEdits ==
  ASSUME NEW r \in Job, NEW st \in Statuses, NEW n \in Calls \cup {NoCall},
         NEW b \in BOOLEAN
  PROVE  /\ [r EXCEPT !.status = st] \in Job
         /\ [r EXCEPT !.lease = "live"] \in Job
         /\ [r EXCEPT !.lease = "lapsed"] \in Job
         /\ [r EXCEPT !.lease = "none"] \in Job
         /\ [r EXCEPT !.of = n] \in Job
         /\ [r EXCEPT !.unstarted = b] \in Job
         /\ [r EXCEPT !.expired = b] \in Job
         /\ [r EXCEPT !.sent = "fresh"] \in Job
         /\ [r EXCEPT !.sent = "old"] \in Job
         /\ [r EXCEPT !.awaited = "no"] \in Job
         /\ [r EXCEPT !.awaited = "live"] \in Job
         /\ [r EXCEPT !.awaited = "lapsed"] \in Job
         /\ [r EXCEPT !.cancel = b] \in Job
         /\ [r EXCEPT !.delivered = b] \in Job
         /\ [r EXCEPT !.woke = b] \in Job
<1>1. [r EXCEPT !.status = st] \in Job BY DEF Job
<1>2. [r EXCEPT !.lease = "live"] \in Job BY DEF Job
<1>3. [r EXCEPT !.lease = "lapsed"] \in Job BY DEF Job
<1>4. [r EXCEPT !.lease = "none"] \in Job BY DEF Job
<1>5. [r EXCEPT !.of = n] \in Job BY DEF Job
<1>6. [r EXCEPT !.unstarted = b] \in Job BY DEF Job
<1>7. [r EXCEPT !.expired = b] \in Job BY DEF Job
<1>8. [r EXCEPT !.sent = "fresh"] \in Job BY DEF Job
<1>9. [r EXCEPT !.sent = "old"] \in Job BY DEF Job
<1>10. [r EXCEPT !.awaited = "no"] \in Job BY DEF Job
<1>11. [r EXCEPT !.awaited = "live"] \in Job BY DEF Job
<1>12. [r EXCEPT !.awaited = "lapsed"] \in Job BY DEF Job
<1>13. [r EXCEPT !.cancel = b] \in Job BY DEF Job
<1>14. [r EXCEPT !.delivered = b] \in Job BY DEF Job
<1>15. [r EXCEPT !.woke = b] \in Job BY DEF Job
<1> QED BY <1>1, <1>2, <1>3, <1>4, <1>5, <1>6, <1>7, <1>8, <1>9, <1>10, <1>11, <1>12, <1>13, <1>14, <1>15

LEMMA RowCore ==
  ASSUME NEW r \in Job, NEW x
  PROVE  /\ SameCore([r EXCEPT !.lease = x], r)
         /\ SameCore([r EXCEPT !.expired = x], r)
         /\ SameCore([r EXCEPT !.sent = x], r)
         /\ SameCore([r EXCEPT !.awaited = x], r)
         /\ SameCore([r EXCEPT !.cancel = x], r)
         /\ SameCore([r EXCEPT !.delivered = x], r)
         /\ SameCore([r EXCEPT !.woke = x], r)
BY DEF Job, SameCore

(* A row that is claimed, that settles, that settles as never started *)
ClaimedRow(r) == [r EXCEPT !.status = "running", !.lease = "live"]
SettledRow(r, st, n) == [r EXCEPT !.status = st, !.lease = "none", !.of = n]
UnstartedRow(r) ==
  [r EXCEPT !.status = "cancelled", !.lease = "none", !.unstarted = TRUE]

LEMMA ClaimedRowIsJob ==
  ASSUME NEW r \in Job
  PROVE  /\ ClaimedRow(r) \in Job /\ ClaimedRow(r).status = "running"
         /\ ClaimedRow(r).call = r.call /\ ClaimedRow(r).of = r.of
         /\ ClaimedRow(r).unstarted = r.unstarted
<1>1. ClaimedRow(r) \in Job
  BY DEF ClaimedRow, Job, Statuses
<1> QED
  BY <1>1 DEF ClaimedRow, Job

LEMMA SettledRowIsJob ==
  ASSUME NEW r \in Job, NEW st \in Statuses, NEW n \in Calls \cup {NoCall}
  PROVE  /\ SettledRow(r, st, n) \in Job /\ SettledRow(r, st, n).status = st
         /\ SettledRow(r, st, n).of = n /\ SettledRow(r, st, n).call = r.call
         /\ SettledRow(r, st, n).unstarted = r.unstarted
<1>1. PICK s \in Job : s = [r EXCEPT !.status = st, !.lease = "none"]
  BY DEF Job
<1>2. SettledRow(r, st, n) = [s EXCEPT !.of = n]
  BY <1>1 DEF SettledRow
<1>3. SettledRow(r, st, n) \in Job
  BY <1>2 DEF Job
<1> QED
  BY <1>3 DEF SettledRow, Job

LEMMA UnstartedRowIsJob ==
  ASSUME NEW r \in Job
  PROVE  /\ UnstartedRow(r) \in Job /\ UnstartedRow(r).status = "cancelled"
         /\ UnstartedRow(r).unstarted /\ UnstartedRow(r).call = r.call
         /\ UnstartedRow(r).of = r.of
<1>1. PICK s \in Job : s = [r EXCEPT !.status = "cancelled", !.lease = "none"]
  BY DEF Job, Statuses
<1>2. UnstartedRow(r) = [s EXCEPT !.unstarted = TRUE]
  BY <1>1 DEF UnstartedRow
<1>3. UnstartedRow(r) \in Job
  BY <1>2 DEF Job
<1> QED
  BY <1>3 DEF UnstartedRow, Job

LEMMA ClaimedRows ==
  ASSUME NEW js \in Rows, NEW S
  PROVE  /\ Claimed(js, S) \in Rows
         /\ \A j \in Seqs \ S : Claimed(js, S)[j] = js[j]
         /\ \A j \in Seqs \cap S : Claimed(js, S)[j] = ClaimedRow(js[j])
<1>1. Claimed(js, S) = [j \in Seqs |-> IF j \in S THEN ClaimedRow(js[j]) ELSE js[j]]
  BY DEF Claimed, Updated, ClaimedRow
<1>2. \A j \in Seqs : js[j] \in Job
  BY DEF Rows
<1>3. \A j \in Seqs : ClaimedRow(js[j]) \in Job
  BY <1>2, ClaimedRowIsJob
<1>4. Claimed(js, S) \in Rows
  BY <1>1, <1>2, <1>3 DEF Rows
<1>5. /\ \A j \in Seqs \ S : Claimed(js, S)[j] = js[j]
      /\ \A j \in Seqs \cap S : Claimed(js, S)[j] = ClaimedRow(js[j])
  BY <1>1
<1> QED
  BY <1>4, <1>5

LEMMA CancelSentRows ==
  ASSUME NEW js \in Rows, NEW S
  PROVE  /\ CancelSent(js, S) \in Rows
         /\ \A j \in Seqs : SameCore(CancelSent(js, S)[j], js[j])
BY DEF CancelSent, Updated, Rows, Job, Statuses, SameCore

LEMMA SettledRows ==
  ASSUME NEW js \in Rows, NEW S, NEW status \in Statuses,
         NEW of \in Calls \cup {NoCall}
  PROVE  /\ Settled(js, S, status, of) \in Rows
         /\ \A j \in Seqs \ S : Settled(js, S, status, of)[j] = js[j]
         /\ \A j \in Seqs \cap S :
              Settled(js, S, status, of)[j] = SettledRow(js[j], status, of)
<1>1. Settled(js, S, status, of) =
        [j \in Seqs |-> IF j \in S THEN SettledRow(js[j], status, of) ELSE js[j]]
  BY DEF Settled, Updated, SettledRow
<1>2. \A j \in Seqs : js[j] \in Job
  BY DEF Rows
<1>3. \A j \in Seqs : SettledRow(js[j], status, of) \in Job
  BY <1>2, SettledRowIsJob
<1>4. Settled(js, S, status, of) \in Rows
  BY <1>1, <1>2, <1>3 DEF Rows
<1>5. /\ \A j \in Seqs \ S : Settled(js, S, status, of)[j] = js[j]
      /\ \A j \in Seqs \cap S :
           Settled(js, S, status, of)[j] = SettledRow(js[j], status, of)
  BY <1>1
<1> QED
  BY <1>4, <1>5

LEMMA UnstartedRows ==
  ASSUME NEW js \in Rows, NEW S
  PROVE  /\ Unstarted(js, S) \in Rows
         /\ \A j \in Seqs \ S : Unstarted(js, S)[j] = js[j]
         /\ \A j \in Seqs \cap S :
              /\ Unstarted(js, S)[j].status = "cancelled"
              /\ Unstarted(js, S)[j].unstarted
              /\ Unstarted(js, S)[j].call = js[j].call
              /\ Unstarted(js, S)[j].of = js[j].of
<1>1. Unstarted(js, S) =
        [j \in Seqs |-> IF j \in S THEN UnstartedRow(js[j]) ELSE js[j]]
  BY DEF Unstarted, Updated, UnstartedRow
<1>2. \A j \in Seqs : js[j] \in Job
  BY DEF Rows
<1>3. \A j \in Seqs : UnstartedRow(js[j]) \in Job
  BY <1>2, UnstartedRowIsJob
<1>4. Unstarted(js, S) \in Rows
  BY <1>1, <1>2, <1>3 DEF Rows
<1>5. /\ \A j \in Seqs \ S : Unstarted(js, S)[j] = js[j]
      /\ \A j \in Seqs \cap S : Unstarted(js, S)[j] = UnstartedRow(js[j])
  BY <1>1
<1> QED
  <2>1. ASSUME NEW j \in Seqs \cap S
        PROVE  /\ Unstarted(js, S)[j].status = "cancelled"
               /\ Unstarted(js, S)[j].unstarted
               /\ Unstarted(js, S)[j].call = js[j].call
               /\ Unstarted(js, S)[j].of = js[j].of
    <3>1. js[j] \in Job /\ Unstarted(js, S)[j] = UnstartedRow(js[j])
      BY <1>2, <1>5
    <3> QED
      BY <3>1, UnstartedRowIsJob, Zenon
  <2> QED
    BY <1>4, <1>5, <2>1

LEMMA StoppedRows ==
  ASSUME NEW js \in Rows, NEW S
  PROVE  /\ Stopped(js, S) \in Rows
         /\ \A j \in Seqs \ S : Stopped(js, S)[j] = js[j]
         /\ \A j \in Seqs \cap S :
              /\ Stopped(js, S)[j].status = "cancelled"
              /\ Stopped(js, S)[j].unstarted
              /\ Stopped(js, S)[j].call = js[j].call
              /\ Stopped(js, S)[j].of = js[j].of
<1>1. PICK u \in Rows : u = Unstarted(js, S)
  BY UnstartedRows
<1>2. Stopped(js, S) = [j \in Seqs |->
        IF j \in S THEN [u[j] EXCEPT !.expired = FALSE] ELSE u[j]]
  BY <1>1 DEF Stopped, Updated
<1>3. \A j \in Seqs : u[j] \in Job
  BY DEF Rows
<1>4. \A j \in Seqs : [u[j] EXCEPT !.expired = FALSE] \in Job
  BY <1>3, ZenonT(120) DEF Job
<1>5. Stopped(js, S) \in Rows
  BY <1>2, <1>3, <1>4 DEF Rows
<1>6. /\ \A j \in Seqs \ S : Stopped(js, S)[j] = u[j]
      /\ \A j \in Seqs \cap S : Stopped(js, S)[j] = [u[j] EXCEPT !.expired = FALSE]
  BY <1>2
<1>7. \A j \in Seqs \cap S : SameCore(Stopped(js, S)[j], u[j])
  <2>1. ASSUME NEW j \in Seqs \cap S
        PROVE  SameCore(Stopped(js, S)[j], u[j])
    <3>1. u[j] \in Job /\ Stopped(js, S)[j] = [u[j] EXCEPT !.expired = FALSE]
      BY <1>3, <1>6
    <3>2. SameCore([u[j] EXCEPT !.expired = FALSE], u[j])
      BY <3>1, RowCore, Zenon
    <3> QED
      BY <3>1, <3>2, Zenon
  <2> QED
    BY <2>1, Zenon
<1>8. \A j \in Seqs \ S : u[j] = js[j]
  BY <1>1, UnstartedRows
<1>9. \A j \in Seqs \cap S :
        /\ u[j].status = "cancelled" /\ u[j].unstarted
        /\ u[j].call = js[j].call /\ u[j].of = js[j].of
  <2>1. \A j \in Seqs \cap S :
          /\ Unstarted(js, S)[j].status = "cancelled"
          /\ Unstarted(js, S)[j].unstarted
          /\ Unstarted(js, S)[j].call = js[j].call
          /\ Unstarted(js, S)[j].of = js[j].of
    BY UnstartedRows
  <2> QED
    BY <1>1, <2>1, Zenon
<1> QED
  BY <1>5, <1>6, <1>7, <1>8, <1>9 DEF SameCore

LEMMA MarkedRows ==
  ASSUME NEW js \in Rows, NEW i \in Seqs
  PROVE  /\ MarkedAwaited(js, i) \in Rows /\ MarkedSeen(js, i) \in Rows
         /\ [js EXCEPT ![i].awaited = "no"] \in Rows
         /\ [js EXCEPT ![i].cancel = TRUE] \in Rows
         /\ \A j \in Seqs :
              /\ SameCore(MarkedAwaited(js, i)[j], js[j])
              /\ SameCore(MarkedSeen(js, i)[j], js[j])
              /\ SameCore([js EXCEPT ![i].awaited = "no"][j], js[j])
              /\ SameCore([js EXCEPT ![i].cancel = TRUE][j], js[j])
<1>1. MarkedAwaited(js, i) \in Rows /\ \A j \in Seqs : SameCore(MarkedAwaited(js, i)[j], js[j])
  BY DEF MarkedAwaited, Rows, Job, SameCore
<1>2. MarkedSeen(js, i) \in Rows /\ \A j \in Seqs : SameCore(MarkedSeen(js, i)[j], js[j])
  <2>1. PICK u \in Rows : u = [js EXCEPT ![i].delivered = TRUE]
    BY ZenonT(120) DEF Rows, Job
  <2>2. MarkedSeen(js, i) = [u EXCEPT ![i].woke = TRUE]
    BY <2>1 DEF MarkedSeen
  <2>3. \A j \in Seqs : SameCore(u[j], js[j])
    BY <2>1 DEF Rows, Job, SameCore
  <2>4. \A j \in Seqs : u[j] \in Job
    BY DEF Rows
  <2>5. [u[i] EXCEPT !.woke = TRUE] \in Job
    BY <2>4, ZenonT(120) DEF Job
  <2>6. MarkedSeen(js, i) \in Rows
    BY <2>2, <2>4, <2>5 DEF Rows
  <2>7. \A j \in Seqs : SameCore(MarkedSeen(js, i)[j], u[j])
    BY <2>2, <2>4 DEF Rows, Job, SameCore
  <2> QED
    BY <2>3, <2>6, <2>7 DEF SameCore
<1>3. /\ [js EXCEPT ![i].awaited = "no"] \in Rows
      /\ \A j \in Seqs : SameCore([js EXCEPT ![i].awaited = "no"][j], js[j])
  BY DEF Rows, Job, SameCore
<1>4. /\ [js EXCEPT ![i].cancel = TRUE] \in Rows
      /\ \A j \in Seqs : SameCore([js EXCEPT ![i].cancel = TRUE][j], js[j])
  BY ZenonT(120) DEF Rows, Job, SameCore
<1> QED
  BY <1>1, <1>2, <1>3, <1>4

LEMMA DeliveredRows ==
  ASSUME NEW js \in Rows, NEW S, NEW flag \in BOOLEAN
  PROVE  /\ Delivered(js, S, flag) \in Rows /\ Woken(js, S) \in Rows
         /\ \A j \in Seqs : /\ SameCore(Delivered(js, S, flag)[j], js[j])
                            /\ SameCore(Woken(js, S)[j], js[j])
<1>1. Delivered(js, S, flag) \in Rows /\ \A j \in Seqs : SameCore(Delivered(js, S, flag)[j], js[j])
  BY DEF Delivered, Updated, Rows, Job, SameCore
<1>2. Woken(js, S) \in Rows /\ \A j \in Seqs : SameCore(Woken(js, S)[j], js[j])
  BY ZenonT(120) DEF Woken, Updated, Rows, Job, SameCore
<1> QED
  BY <1>1, <1>2

LEMMA InsertedRows ==
  ASSUME NEW js \in Rows, NEW seq \in Seqs, NEW n \in Calls
  PROVE  /\ Inserted(js, seq, n) \in Rows
         /\ \A j \in Seqs \ {seq} : Inserted(js, seq, n)[j] = js[j]
         /\ Inserted(js, seq, n)[seq].status = "queued"
         /\ Inserted(js, seq, n)[seq].call = n
         /\ Inserted(js, seq, n)[seq].of = NoCall
         /\ Inserted(js, seq, n)[seq].unstarted = FALSE
<1>1. [NoJob EXCEPT !.status = "queued", !.call = n] \in Job
  BY NoJobIsJob DEF Job, Statuses
<1> QED
  BY <1>1 DEF Inserted, Rows, NoJob, Job

---------------------------------------------------------------------------
(* The kinds of step, as the queue sees them *)

(* A row goes once its outcome is no longer owed, keeps its core, or gets  *)
(* on: claimed, settled with a result of its own call or none, or settled  *)
(* as never started.                                                       *)
RowMoves(a, b) ==
  \/ b = NoJob /\ a.delivered
  \/ SameCore(b, a)
  \/ /\ a.status \in {"queued", "running"} /\ b.status \notin {"absent", "queued"}
     /\ b.call = a.call /\ b.of \in {NoCall, a.call}
     /\ b.unstarted => a.status = "queued" /\ b.status = "cancelled"

Moves ==
  /\ regs' = regs /\ sat'.reg = sat.reg /\ sat'.next = sat.next
  /\ hist'.calls = hist.calls
  /\ \A j \in Seqs : RowMoves(jobs[j], jobs'[j])

Inserts ==
  /\ sat.reg # NoReg /\ sat.next \in Seqs /\ hist.calls < MaxCalls /\ Room(jobs)
  /\ jobs' = Inserted(jobs, sat.next, hist.calls + 1)
  /\ regs' = regs /\ sat'.reg = sat.reg /\ sat'.next = sat.next + 1
  /\ hist'.calls = hist.calls + 1

Registers ==
  /\ sat.reg = NoReg /\ regs' = regs + 1 /\ sat'.reg = regs' /\ sat'.next = 1
  /\ jobs' = jobs /\ hist'.calls = hist.calls

Removes ==
  /\ regs' = regs /\ sat'.reg = NoReg /\ sat'.next = 1
  /\ \A j \in Seqs : jobs'[j] = NoJob
  /\ hist'.calls = hist.calls

RowStep == Moves \/ Inserts \/ Registers \/ Removes

LEMMA SameRowsMove ==
  ASSUME Typed, jobs' = jobs, regs' = regs, sat'.reg = sat.reg, sat'.next = sat.next,
         hist'.calls = hist.calls
  PROVE  Moves
BY DEF Moves, RowMoves, SameCore

(* What the types say of one row and of the counters *)
LEMMA RowFacts ==
  ASSUME Typed
  PROVE  /\ \A j \in Seqs : /\ jobs[j] \in Job /\ jobs[j].status \in Statuses
                            /\ jobs[j].call \in Nat /\ jobs[j].of \in Nat
                            /\ jobs[j].unstarted \in BOOLEAN
         /\ sat.reg \in Nat /\ sat.next \in Nat /\ regs \in Nat
         /\ sat.next \in 1 .. MaxSeq + 1
         /\ hist.calls \in Nat /\ hist.calls <= MaxCalls /\ MaxCalls \in Nat
         /\ MaxSeq \in Nat /\ Seqs \subseteq Nat
<1>1. MaxSeq \in Nat /\ MaxCalls \in Nat
  BY BoundsAssumption
<1>2. jobs \in [Seqs -> Job] /\ sat \in SatRow /\ hist \in History /\ regs \in Nat
  BY DEF Typed, Tables, Rows
<1>3. \A j \in Seqs : jobs[j] \in Job
  BY <1>2
<1>4. \A r \in Job : /\ r.status \in Statuses /\ r.call \in Nat /\ r.of \in Nat
                     /\ r.unstarted \in BOOLEAN
  BY <1>1 DEF Job, Calls, NoCall
<1>5. sat.reg \in Nat /\ sat.next \in 1 .. MaxSeq + 1
  BY <1>2 DEF SatRow
<1>6. hist.calls \in 0 .. MaxCalls
  BY <1>2 DEF History
<1> QED
  BY <1>1, <1>2, <1>3, <1>4, <1>5, <1>6 DEF Seqs

LEMMA MovesKeep ==
  ASSUME Typed, RowsKept, Moves
  PROVE  RowsKept'
<1> USE RowFacts
<1>1. ASSUME NEW j \in Seqs
      PROVE  /\ RowKept(j)'
             /\ jobs'[j].status # "absent" => jobs[j].status # "absent" /\ jobs'[j].call = jobs[j].call
  <2>1. RowKept(j) /\ RowMoves(jobs[j], jobs'[j])
    BY DEF RowsKept, Moves
  <2>2. CASE jobs'[j] = NoJob
    BY <2>2 DEF RowKept, NoJob
  <2>3. CASE SameCore(jobs'[j], jobs[j])
    BY <2>1, <2>3 DEF RowKept, SameCore, Moves
  <2>4. CASE /\ jobs[j].status \in {"queued", "running"}
             /\ jobs'[j].status \notin {"absent", "queued"}
             /\ jobs'[j].call = jobs[j].call /\ jobs'[j].of \in {NoCall, jobs[j].call}
             /\ jobs'[j].unstarted => jobs[j].status = "queued" /\ jobs'[j].status = "cancelled"
    BY <2>1, <2>4 DEF RowKept, Moves
  <2> QED
    BY <2>1, <2>2, <2>3, <2>4 DEF RowMoves
<1>2. \A i, j \in Present(jobs)' : jobs'[i].call = jobs'[j].call => i = j
  BY <1>1 DEF RowsKept, Present
<1> QED
  BY <1>1, <1>2 DEF RowsKept, Moves

LEMMA InsertsAdd ==
  ASSUME Typed, Inserts
  PROVE  /\ hist.calls + 1 \in Calls /\ sat.next \in Seqs
         /\ \A j \in Seqs \ {sat.next} : jobs'[j] = jobs[j]
         /\ jobs'[sat.next].status = "queued" /\ jobs'[sat.next].call = hist.calls + 1
         /\ jobs'[sat.next].of = NoCall /\ jobs'[sat.next].unstarted = FALSE
<1>1. hist.calls + 1 \in Calls /\ jobs \in Rows /\ sat.next \in Seqs
  BY RowFacts DEF Inserts, Calls, Typed, Tables
<1> QED
  BY <1>1, InsertedRows, ZenonT(120) DEF Inserts

LEMMA InsertsKeep ==
  ASSUME Typed, RowsKept, Inserts
  PROVE  RowsKept'
<1> USE RowFacts
<1>1. sat.next \in Seqs
  BY InsertsAdd
<1>2. /\ \A j \in Seqs \ {sat.next} : jobs'[j] = jobs[j]
      /\ jobs'[sat.next].status = "queued" /\ jobs'[sat.next].call = hist.calls + 1
      /\ jobs'[sat.next].of = NoCall /\ jobs'[sat.next].unstarted = FALSE
  BY InsertsAdd
<1>3. \A j \in Seqs : RowKept(j)'
  BY <1>1, <1>2 DEF RowsKept, RowKept, Inserts
<1>4. \A i, j \in Present(jobs)' : jobs'[i].call = jobs'[j].call => i = j
  BY <1>1, <1>2 DEF RowsKept, RowKept, Present
<1> QED
  BY <1>3, <1>4 DEF RowsKept, Inserts, NoReg

LEMMA RowsStepKeeps ==
  ASSUME Typed, RowsKept, RowStep
  PROVE  RowsKept'
<1> USE RowFacts
<1>1. CASE Registers
  <2>1. \A j \in Seqs : jobs[j].status = "absent"
    BY <1>1 DEF RowsKept, RowKept, Registers, Seqs
  <2>2. \A j \in Seqs : RowKept(j)'
    BY <1>1, <2>1 DEF RowsKept, RowKept, Registers
  <2>3. Present(jobs)' = {}
    BY <1>1, <2>1 DEF Present, Registers
  <2> QED
    BY <1>1, <2>2, <2>3 DEF RowsKept, Registers, NoReg
<1>2. CASE Removes
  <2>1. \A j \in Seqs : RowKept(j)'
    BY <1>2 DEF RowKept, Removes, NoJob
  <2>2. Present(jobs)' = {}
    BY <1>2 DEF Present, Removes, NoJob
  <2> QED
    BY <1>2, <2>1, <2>2 DEF RowsKept, Removes, NoReg
<1> QED
  BY <1>1, <1>2, MovesKeep, InsertsKeep DEF RowStep

(* What is known stays known: the row goes, or keeps its call, and the     *)
(* number is not given out a second time in the registration.              *)
LEMMA KnownStays ==
  ASSUME Typed, RowsKept, RowStep,
         NEW j \in Seqs, NEW n \in Calls, NEW inc \in Nat, Known(j, n, inc)
  PROVE  Known(j, n, inc)'
<1> USE RowFacts
<1>1. /\ inc \in 1 .. regs /\ n \in 1 .. hist.calls
      /\ inc = sat.reg => j < sat.next /\ (jobs[j].status = "absent" \/ jobs[j].call = n)
  BY DEF Known
<1>2. CASE Moves
  <2>1. RowMoves(jobs[j], jobs'[j])
    BY <1>2 DEF Moves
  <2>2. jobs'[j] = NoJob \/ jobs'[j].status = jobs[j].status \/ jobs[j].status # "absent"
    BY <2>1 DEF RowMoves, SameCore
  <2>3. jobs'[j] = NoJob \/ jobs'[j].call = jobs[j].call
    BY <2>1 DEF RowMoves, SameCore
  <2> QED
    BY <1>1, <1>2, <2>2, <2>3 DEF Known, Moves, NoJob
<1>3. CASE Inserts
  <2>1. hist.calls + 1 \in Calls /\ jobs \in Rows /\ sat.next \in Seqs
    BY <1>3 DEF Inserts, Calls, Typed, Tables
  <2>2. \A i \in Seqs \ {sat.next} : jobs'[i] = jobs[i]
    BY <1>3, <2>1, InsertedRows, ZenonT(120) DEF Inserts
  <2> QED
    BY <1>1, <1>3, <2>1, <2>2 DEF Known, Inserts
<1>4. CASE Registers
  BY <1>1, <1>4 DEF Known, Registers
<1>5. CASE Removes
  BY <1>1, <1>5 DEF Known, Removes, NoReg
<1> QED
  BY <1>2, <1>3, <1>4, <1>5 DEF RowStep

LEMMA MentionsStay ==
  ASSUME Typed, RowsKept, RowStep, Mentions, regs' \in Nat,
         \A w \in Workers : worker'[w].inc <= regs',
         \A j \in Seqs, n \in Calls, inc \in Nat :
           Said(j, n, inc)' => Said(j, n, inc) \/ Known(j, n, inc)'
  PROVE  Mentions'
<1>1. ASSUME NEW j \in Seqs, NEW n \in Calls, NEW inc \in Nat, Said(j, n, inc)'
      PROVE  Known(j, n, inc)'
  <2>1. CASE Said(j, n, inc)
    <3>1. Known(j, n, inc)
      BY <2>1 DEF Mentions
    <3> QED
      BY <3>1, KnownStays
  <2> QED
    BY <1>1, <2>1
<1> QED
  BY <1>1, Zenon DEF Mentions

(* The queue, as far as a call takes up room *)
LEMMA SeqsFinite ==
  ASSUME NEW js
  PROVE  IsFiniteSet(NonTerminal(js))
<1>1. IsFiniteSet(Seqs)
  BY BoundsAssumption, FS_Interval DEF Seqs
<1>2. NonTerminal(js) \subseteq Seqs
  BY DEF NonTerminal, InStatus
<1> QED
  BY <1>1, <1>2, FS_Subset

LEMMA BacklogStays ==
  ASSUME Typed, RowsKept, RowStep, NoBacklog
  PROVE  NoBacklog'
<1> USE RowFacts
<1>0. Limit \in Nat
  BY BoundsAssumption
<1>1. ASSUME NonTerminal(jobs') \subseteq NonTerminal(jobs)
      PROVE  NoBacklog'
  <2>1. /\ Cardinality(NonTerminal(jobs')) <= Cardinality(NonTerminal(jobs))
        /\ Cardinality(NonTerminal(jobs')) \in Nat /\ Cardinality(NonTerminal(jobs)) \in Nat
    BY <1>1, SeqsFinite, FS_Subset, FS_CardinalityType
  <2>2. Cardinality(NonTerminal(jobs')) <= Limit
    BY <1>0, <2>1 DEF NoBacklog
  <2> QED
    BY <2>2 DEF NoBacklog
<1>2. CASE Moves
  <2>1. \A j \in Seqs : jobs'[j].status \in {"queued", "running"} => jobs[j].status \in {"queued", "running"}
    BY <1>2 DEF Moves, RowMoves, SameCore, NoJob
  <2> QED
    BY <1>1, <2>1 DEF NonTerminal, InStatus
<1>3. CASE Registers
  BY <1>1, <1>3 DEF Registers
<1>4. CASE Removes
  <2>1. NonTerminal(jobs') = {}
    BY <1>4 DEF Removes, NonTerminal, InStatus, NoJob
  <2> QED
    BY <1>1, <2>1
<1>5. CASE Inserts
  <2>1. hist.calls + 1 \in Calls /\ jobs \in Rows /\ sat.next \in Seqs
    BY <1>5 DEF Inserts, Calls, Typed, Tables
  <2>2. \A i \in Seqs \ {sat.next} : jobs'[i] = jobs[i]
    BY <1>5, <2>1, InsertedRows, ZenonT(120) DEF Inserts
  <2>3. NonTerminal(jobs') \subseteq NonTerminal(jobs) \cup {sat.next}
    BY <2>2 DEF NonTerminal, InStatus
  <2>4. /\ IsFiniteSet(NonTerminal(jobs) \cup {sat.next})
        /\ Cardinality(NonTerminal(jobs) \cup {sat.next}) <= Cardinality(NonTerminal(jobs)) + 1
        /\ Cardinality(NonTerminal(jobs)) \in Nat
        /\ Cardinality(NonTerminal(jobs) \cup {sat.next}) \in Nat
    <3>1. IsFiniteSet(NonTerminal(jobs))
      BY SeqsFinite
    <3>2. /\ IsFiniteSet(NonTerminal(jobs) \cup {sat.next})
          /\ Cardinality(NonTerminal(jobs) \cup {sat.next}) =
               IF sat.next \in NonTerminal(jobs) THEN Cardinality(NonTerminal(jobs))
               ELSE Cardinality(NonTerminal(jobs)) + 1
      BY <3>1, FS_AddElement
    <3>3. Cardinality(NonTerminal(jobs)) \in Nat
      BY <3>1, FS_CardinalityType
    <3> QED
      BY <3>2, <3>3
  <2>5. /\ Cardinality(NonTerminal(jobs')) <= Cardinality(NonTerminal(jobs) \cup {sat.next})
        /\ Cardinality(NonTerminal(jobs')) \in Nat
    BY <2>3, <2>4, SeqsFinite, FS_Subset, FS_CardinalityType
  <2>6. Cardinality(NonTerminal(jobs)) < Limit
    BY <1>5 DEF Inserts, Room
  <2>7. Cardinality(NonTerminal(jobs')) <= Limit
    BY <1>0, <2>4, <2>5, <2>6
  <2> QED
    BY <2>7 DEF NoBacklog
<1> QED
  BY <1>2, <1>3, <1>4, <1>5 DEF RowStep

(* SettledStays, of one step *)
SettledStep ==
  \A j \in Terminal(jobs) :
    \/ jobs'[j].status = "absent"
    \/ jobs'[j].status = jobs[j].status /\ jobs'[j].of = jobs[j].of

LEMMA SettledRowsStay ==
  ASSUME Typed, RowsKept, RowStep
  PROVE  SettledStep
<1> USE RowFacts
<1>1. \A j \in Terminal(jobs) : j \in Seqs /\ jobs[j].status \notin {"absent", "queued", "running"}
  BY DEF Terminal, Present, NonTerminal, InStatus
<1>2. CASE Moves
  BY <1>1, <1>2 DEF Moves, RowMoves, SameCore, NoJob, SettledStep
<1>3. CASE Inserts
  <2>1. hist.calls + 1 \in Calls /\ jobs \in Rows /\ sat.next \in Seqs
    BY <1>3 DEF Inserts, Calls, Typed, Tables
  <2>2. \A i \in Seqs \ {sat.next} : jobs'[i] = jobs[i]
    BY <1>3, <2>1, InsertedRows, ZenonT(120) DEF Inserts
  <2>3. jobs[sat.next].status = "absent"
    BY <2>1 DEF RowsKept, RowKept
  <2> QED
    BY <1>1, <2>2, <2>3 DEF SettledStep
<1>4. CASE Registers \/ Removes
  BY <1>1, <1>4 DEF Registers, Removes, NoJob, SettledStep
<1> QED
  BY <1>2, <1>3, <1>4 DEF RowStep

(* A call on its way to a machine has been admitted. *)
LEMMA HandedOverIsKnown ==
  ASSUME Typed, Mentions, NEW w \in Workers, NEW k \in Polls,
         NEW i \in claim[w][k].calls
  PROVE  /\ i[1] \in Seqs /\ i[2] \in Calls /\ i = <<i[1], i[2]>>
         /\ Known(i[1], i[2], worker[w].inc)
<1>1. claim[w][k] \in Claim /\ worker[w] \in Worker
  BY DEF Typed, Machines
<1>2. i \in Seqs \X Calls /\ worker[w].inc \in Nat
  BY <1>1 DEF Claim, Worker
<1>3. i[1] \in Seqs /\ i[2] \in Calls /\ i = <<i[1], i[2]>>
  BY <1>2
<1>4. SaidByWorker(w, i[1], i[2], worker[w].inc)
  BY <1>3 DEF SaidByWorker
<1> QED
  BY <1>2, <1>3, <1>4 DEF Mentions, Said

(* No answer takes anything more along, and nothing runs. *)
ClaimsLess ==
  \A w \in Workers, k \in Polls :
    /\ claim'[w][k].calls \subseteq claim[w][k].calls
    /\ claim'[w][k].phase # "answer" => claim'[w][k].calls = {}

NothingHandedOver == hist'.ran = hist.ran /\ ClaimsLess

Untouched(n) ==
  /\ hist.ran[n] = 0
  /\ \A w \in Workers, k \in Polls : ~HandedOver(n, w, k)

LEMMA UntouchedRows ==
  ASSUME Typed, RowsKept, Mentions, RowStep, RunsOnce, NEW j \in Seqs,
         jobs'[j].status # "absent",
         jobs'[j].status = "queued" \/ jobs'[j].unstarted
  PROVE  Untouched(jobs'[j].call)
<1> USE RowFacts
<1>1. \A i \in Seqs : jobs[i].status # "absent" /\ (jobs[i].status = "queued" \/ jobs[i].unstarted)
        => Untouched(jobs[i].call)
  BY DEF RunsOnce, Present, Untouched
<1>2. CASE Moves
  <2>1. /\ jobs[j].status # "absent" /\ (jobs[j].status = "queued" \/ jobs[j].unstarted)
        /\ jobs'[j].call = jobs[j].call
    <3>1. RowMoves(jobs[j], jobs'[j])
      BY <1>2 DEF Moves
    <3> QED
      BY <3>1 DEF RowMoves, SameCore, NoJob
  <2> QED
    BY <1>1, <2>1
<1>3. CASE Inserts
  <2>1. hist.calls + 1 \in Calls /\ jobs \in Rows /\ sat.next \in Seqs
    BY <1>3 DEF Inserts, Calls, Typed, Tables
  <2>2. /\ \A i \in Seqs \ {sat.next} : jobs'[i] = jobs[i]
        /\ jobs'[sat.next].status = "queued" /\ jobs'[sat.next].call = hist.calls + 1
        /\ jobs'[sat.next].of = NoCall /\ jobs'[sat.next].unstarted = FALSE
    BY <1>3, InsertsAdd
  <2>3. Untouched(hist.calls + 1)
    <3>1. hist.ran[hist.calls + 1] = 0
      BY <2>1 DEF RunsOnce
    <3>2. ASSUME NEW w \in Workers, NEW k \in Polls, HandedOver(hist.calls + 1, w, k)
          PROVE  FALSE
      <4>1. PICK i \in claim[w][k].calls : i[2] = hist.calls + 1
        BY <3>2 DEF HandedOver
      <4>2. Known(i[1], i[2], worker[w].inc)
        BY HandedOverIsKnown
      <4> QED
        BY <4>1, <4>2 DEF Known
    <3> QED
      BY <3>1, <3>2 DEF Untouched
  <2> QED
    BY <1>1, <2>2, <2>3
<1>4. CASE Registers
  BY <1>1, <1>4 DEF Registers
<1>5. CASE Removes
  BY <1>5 DEF Removes, NoJob
<1> QED
  BY <1>2, <1>3, <1>4, <1>5 DEF RowStep

LEMMA RunsStay ==
  ASSUME Typed, RowsKept, Mentions, RowStep, RunsOnce, NothingHandedOver
  PROVE  RunsOnce'
<1> USE RowFacts
<1>1. \A n, w, k : w \in Workers /\ k \in Polls /\ HandedOver(n, w, k)' => HandedOver(n, w, k)
  BY DEF HandedOver, NothingHandedOver, ClaimsLess
<1>2. hist'.calls \in Nat /\ hist'.calls >= hist.calls
  BY DEF RowStep, Moves, Inserts, Registers, Removes
<1>3. \A n \in Calls : /\ hist'.ran[n] <= 1
                       /\ n > hist'.calls => hist'.ran[n] = 0
  <2>1. \A n \in Calls : n \in Nat
    BY DEF Calls
  <2> QED
    BY <1>2, <2>1 DEF RunsOnce, NothingHandedOver
<1>4. \A n \in Calls, w \in Workers, k \in Polls : HandedOver(n, w, k)' =>
        /\ hist'.ran[n] = 0
        /\ \A v \in Workers, l \in Polls : HandedOver(n, v, l)' => v = w /\ l = k
  BY <1>1 DEF RunsOnce, NothingHandedOver
<1>5. ASSUME NEW j \in Present(jobs)', jobs'[j].status = "queued" \/ jobs'[j].unstarted
      PROVE  /\ hist'.ran[jobs'[j].call] = 0
             /\ \A w \in Workers, k \in Polls : ~HandedOver(jobs[j].call, w, k)'
  <2>1. j \in Seqs /\ jobs'[j].status # "absent"
    BY DEF Present
  <2>2. Untouched(jobs'[j].call)
    BY <1>5, <2>1, UntouchedRows
  <2> QED
    BY <1>1, <2>2 DEF Untouched, NothingHandedOver
<1> QED
  BY <1>3, <1>4, <1>5 DEF RunsOnce, NothingHandedOver, ClaimsLess

---------------------------------------------------------------------------
(* Types of what the actions assign *)

LEMMA SpendTyped ==
  ASSUME left \in [Disturbances -> Nat], NEW d \in Disturbances, Spend(d)
  PROVE  left' \in [Disturbances -> Nat]
<1>1. left[d] \in Nat /\ left[d] > 0
  BY DEF Spend
<1>2. left[d] - 1 \in Nat
  BY <1>1
<1> QED
  BY <1>2 DEF Spend

LEMMA NoDeliveryTyped ==
  ASSUME NEW retry \in BOOLEAN
  PROVE  /\ NoDelivery \in Deliver
         /\ [NoDelivery EXCEPT !.phase = "select", !.retry = retry] \in Deliver
BY DEF NoDelivery, Deliver

LEMMA BeginsTyped ==
  ASSUME deliver \in [Deliveries -> Deliver], NEW d \in Deliveries,
         NEW retry \in BOOLEAN, Begins(d, retry)
  PROVE  deliver' \in [Deliveries -> Deliver]
<1>1. [NoDelivery EXCEPT !.phase = "select", !.retry = retry] \in Deliver
  BY NoDeliveryTyped, Zenon
<1> QED
  BY <1>1 DEF Begins

LEMMA AnnounceTyped ==
  ASSUME deliver \in [Deliveries -> Deliver], NEW any, any \in BOOLEAN,
         AnnounceIf(any)
  PROVE  deliver' \in [Deliveries -> Deliver]
<1>1. CASE DeliverOutcome
  BY <1>1, BeginsTyped DEF DeliverOutcome
<1>2. CASE deliver' = deliver
  BY <1>2
<1> QED
  BY <1>1, <1>2 DEF AnnounceIf

SameName(s, t) == t.reg = s.reg /\ t.next = s.next

LEMMA SatEdits ==
  ASSUME NEW s \in SatRow, NEW a \in BOOLEAN, NEW b \in BOOLEAN
  PROVE  /\ [s EXCEPT !.online = a] \in SatRow /\ SameName(s, [s EXCEPT !.online = a])
         /\ [s EXCEPT !.granted = a] \in SatRow /\ SameName(s, [s EXCEPT !.granted = a])
         /\ [s EXCEPT !.draining = a, !.online = b] \in SatRow
         /\ SameName(s, [s EXCEPT !.draining = a, !.online = b])
BY DEF SatRow, SameName

LEMMA NoSatelliteTyped ==
  /\ NoSatellite \in SatRow /\ NoSatellite.reg = NoReg /\ NoSatellite.next = 1
  /\ \A r \in Nat : LET s == [NoSatellite EXCEPT !.reg = r, !.online = TRUE]
                    IN  s \in SatRow /\ s.reg = r /\ s.next = 1
<1>1. 1 \in 1 .. MaxSeq + 1
  BY BoundsAssumption
<1> QED
  BY <1>1, Zenon DEF NoSatellite, SatRow, NoReg

LEMMA OpPlaced ==
  ASSUME Requests, NEW o \in Agents \cup Owners, NEW q \in Op, OpKept(q),
         op' = [op EXCEPT ![o] = q], removing' = removing
  PROVE  Requests'
<1>1. op' \in [Agents \cup Owners -> Op]
  BY DEF Requests
<1>2. \A p \in Agents \cup Owners : op'[p] = IF p = o THEN q ELSE op[p]
  BY DEF Requests
<1>3. \A p \in Agents \cup Owners : OpKept(op[p])'
  BY <1>2 DEF Requests, OpKept
<1> QED
  BY <1>1, <1>3 DEF Requests

LEMMA NoOpTyped == NoOp \in Op /\ OpKept(NoOp)
BY DEF NoOp, Op, OpKept, NoReg, NoCall

LEMMA ReturnsKeeps ==
  ASSUME Requests, NEW o \in Agents \cup Owners, Returns(o), removing' = removing
  PROVE  Requests'
BY NoOpTyped, OpPlaced DEF Returns

LEMMA ToKeeps ==
  ASSUME Requests, NEW o \in Agents \cup Owners, op[o].phase \notin {"idle", "insert", "stop"},
         NEW ph \in {"mark", "read", "poll", "see", "claimed", "release", "answer", "cancel",
                    "request", "settle"},
         To(o, ph), removing' = removing
  PROVE  Requests'
<1>1. op[o] \in Op /\ OpKept(op[o])
  BY DEF Requests
<1>2. [op[o] EXCEPT !.phase = ph] \in Op /\ OpKept([op[o] EXCEPT !.phase = ph])
  BY <1>1 DEF Op, OpKept
<1>3. op' = [op EXCEPT ![o] = [op[o] EXCEPT !.phase = ph]]
  BY DEF To
<1> QED
  BY <1>2, <1>3, OpPlaced

(* A request goes on to look at the outcome of the row it read. *)
LEMMA SeesKeeps ==
  ASSUME Requests, NEW o \in Agents \cup Owners, op[o].phase \notin {"idle", "insert", "stop"},
         NEW n \in Calls \cup {NoCall},
         op' = [op EXCEPT ![o].phase = "see", ![o].saw = n], removing' = removing
  PROVE  Requests'
<1>1. op[o] \in Op /\ OpKept(op[o])
  BY DEF Requests
<1>2. PICK q : q = [op[o] EXCEPT !.phase = "see", !.saw = n]
  OBVIOUS
<1>3. q \in Op /\ OpKept(q)
  BY <1>1, <1>2 DEF Op, OpKept
<1>4. op' = [op EXCEPT ![o] = q]
  BY <1>2 DEF Requests
<1> QED
  BY <1>3, <1>4, OpPlaced

---------------------------------------------------------------------------
(* The agent's and the owner's requests *)

(* What a step away from the machines does *)
QueueStep == Tables' /\ Requests' /\ RowStep /\ hist'.ran = hist.ran

LEMMA RowsStill ==
  ASSUME Typed, jobs' = jobs, regs' = regs, SameName(sat, sat'),
         hist'.calls = hist.calls
  PROVE  RowStep
BY SameRowsMove DEF RowStep, SameName

LEMMA CoresStill ==
  ASSUME Typed, regs' = regs, SameName(sat, sat'), hist'.calls = hist.calls,
         \A j \in Seqs : SameCore(jobs'[j], jobs[j])
  PROVE  RowStep
BY DEF RowStep, Moves, RowMoves, SameName

LEMMA StartStep ==
  ASSUME Typed, NEW o \in Agents \cup Owners, Start(o)
  PROVE  QueueStep
<1>1. /\ Admitted /\ Spend("call") /\ UNCHANGED <<sat, regs, jobs, deliver, hist, removing>>
      /\ op' = [op EXCEPT ![o] = [NoOp EXCEPT !.phase = "insert", !.reg = sat.reg]]
  BY DEF Start
<1>2. sat.reg # NoReg /\ sat.reg \in Nat
  BY <1>1, RowFacts DEF Admitted, Resolves
<1>3. PICK q : q = [NoOp EXCEPT !.phase = "insert", !.reg = sat.reg]
  OBVIOUS
<1>4. q \in Op /\ OpKept(q)
  BY <1>2, <1>3, NoOpTyped DEF Op, OpKept, NoOp
<1>5. Requests'
  BY <1>1, <1>3, <1>4, OpPlaced DEF Typed
<1>6. left' \in [Disturbances -> Nat]
  BY <1>1, SpendTyped DEF Typed, Tables, Disturbances
<1>7. Tables'
  BY <1>1, <1>6 DEF Typed, Tables
<1>8. RowStep
  BY <1>1, RowsStill DEF SameName
<1> QED
  BY <1>1, <1>5, <1>7, <1>8 DEF QueueStep

LEMMA InsertJobStep ==
  ASSUME Typed, NEW o \in Agents \cup Owners, InsertJob(o)
  PROVE  QueueStep
<1>0. /\ op[o].phase = "insert" /\ UNCHANGED <<regs, deliver, left, removing>>
  BY DEF InsertJob
<1>1. CASE SameRegistration(op[o].reg) /\ StillRoom
  <2>1. /\ sat.next \in Seqs /\ hist.calls < MaxCalls
        /\ jobs' = Inserted(jobs, sat.next, hist.calls + 1)
        /\ sat' = [sat EXCEPT !.next = @ + 1]
        /\ hist' = [hist EXCEPT !.calls = @ + 1]
        /\ \/ op' = [op EXCEPT ![o].phase = "mark", ![o].waits = TRUE, ![o].seq = sat.next]
           \/ Returns(o)
    BY <1>1, Zenon DEF InsertJob
  <2>2. /\ sat \in SatRow /\ hist \in History /\ jobs \in Rows
        /\ sat.next \in Nat /\ hist.calls \in Nat /\ MaxCalls \in Nat /\ MaxSeq \in Nat
    BY RowFacts DEF Typed, Tables
  <2>3. sat.next + 1 \in 1 .. MaxSeq + 1 /\ hist.calls + 1 \in 0 .. MaxCalls
        /\ hist.calls + 1 \in Calls
    BY <2>1, <2>2 DEF Seqs, Calls
  <2>4. sat' \in SatRow /\ sat'.next = sat.next + 1 /\ sat'.reg = sat.reg
    BY <2>1, <2>2, <2>3 DEF SatRow
  <2>5. hist' \in History /\ hist'.calls = hist.calls + 1 /\ hist'.ran = hist.ran
    BY <2>1, <2>2, <2>3 DEF History
  <2>6. jobs' \in Rows
    BY <2>1, <2>2, <2>3, InsertedRows
  <2>7. Tables'
    BY <1>0, <2>4, <2>5, <2>6 DEF Typed, Tables
  <2>8. sat.reg # NoReg
    BY <1>0, <1>1 DEF SameRegistration, Typed, Requests, OpKept
  <2>9. Inserts
    BY <1>0, <1>1, <2>1, <2>4, <2>5, <2>8 DEF Inserts, StillRoom
  <2>10. ASSUME op' = [op EXCEPT ![o].phase = "mark", ![o].waits = TRUE, ![o].seq = sat.next]
         PROVE  Requests'
    <3>1. op[o] \in Op /\ op \in [Agents \cup Owners -> Op]
      BY DEF Typed, Requests
    <3>2. PICK q : q = [op[o] EXCEPT !.phase = "mark", !.waits = TRUE, !.seq = sat.next]
      OBVIOUS
    <3>3. q \in Op
      BY <2>1, <3>1, <3>2 DEF Op
    <3>4. q.phase = "mark" /\ q.seq = sat.next
      BY <3>1, <3>2 DEF Op
    <3>5. op' = [op EXCEPT ![o] = q]
      BY <2>10, <3>1, <3>2
    <3> QED
      BY <1>0, <2>1, <3>3, <3>4, <3>5, OpPlaced DEF Typed, OpKept
  <2>11. Requests'
    BY <1>0, <2>1, <2>10, ReturnsKeeps DEF Typed
  <2> QED
    BY <2>5, <2>7, <2>9, <2>11 DEF QueueStep, RowStep
<1>2. CASE ~(SameRegistration(op[o].reg) /\ StillRoom)
  <2>1. Returns(o) /\ UNCHANGED <<sat, jobs, hist>>
    BY <1>2, Zenon DEF InsertJob
  <2>2. Tables'
    BY <1>0, <2>1 DEF Typed, Tables
  <2>3. Requests'
    BY <1>0, <2>1, ReturnsKeeps DEF Typed
  <2>4. RowStep
    BY <1>0, <2>1, RowsStill DEF SameName
  <2> QED
    BY <2>1, <2>2, <2>3, <2>4 DEF QueueStep
<1> QED
  BY <1>1, <1>2

LEMMA AgainStep ==
  ASSUME Typed, NEW o \in Agents \cup Owners, NEW j \in Seqs, Again(o, j)
  PROVE  QueueStep
<1>1. Spend("again") /\ UNCHANGED <<sat, regs, jobs, deliver, hist, removing>>
  BY DEF Again
<1>2. PICK waits \in BOOLEAN :
        op' = [op EXCEPT ![o] = [NoOp EXCEPT !.seq = j, !.waits = waits,
                                   !.phase = IF waits THEN "mark" ELSE "read"]]
  BY Zenon DEF Again
<1>3. PICK q : q = [NoOp EXCEPT !.seq = j, !.waits = waits,
                                !.phase = IF waits THEN "mark" ELSE "read"]
  OBVIOUS
<1>4. q \in Op /\ OpKept(q)
  BY <1>3 DEF Op, OpKept, NoOp, NoReg, NoCall
<1>5. Requests'
  BY <1>1, <1>2, <1>3, <1>4, OpPlaced DEF Typed
<1>6. left' \in [Disturbances -> Nat]
  BY <1>1, SpendTyped DEF Typed, Tables, Disturbances
<1>7. Tables'
  BY <1>1, <1>6 DEF Typed, Tables
<1>8. RowStep
  BY <1>1, RowsStill DEF SameName
<1> QED
  BY <1>1, <1>5, <1>7, <1>8 DEF QueueStep

LEMMA QuietStep ==
  ASSUME Typed, UNCHANGED <<sat, regs, jobs, hist>>,
         deliver' \in [Deliveries -> Deliver], left' \in [Disturbances -> Nat],
         Requests'
  PROVE  QueueStep
<1>1. Tables'
  BY DEF Typed, Tables
<1>2. RowStep
  BY RowsStill DEF SameName
<1> QED
  BY <1>1, <1>2 DEF QueueStep

(* Flags and leases of rows are written, and nothing else of the tables. *)
LEMMA FlagStep ==
  ASSUME Typed, UNCHANGED <<sat, regs>>, jobs' \in Rows,
         \A j \in Seqs : SameCore(jobs'[j], jobs[j]),
         hist' \in History, hist'.calls = hist.calls, hist'.ran = hist.ran,
         deliver' \in [Deliveries -> Deliver], left' \in [Disturbances -> Nat],
         Requests'
  PROVE  QueueStep
<1>1. Tables'
  BY DEF Typed, Tables
<1>2. RowStep
  BY CoresStill DEF SameName
<1> QED
  BY <1>1, <1>2 DEF QueueStep

LEMMA SameCoreSame ==
  ASSUME NEW r
  PROVE  SameCore(r, r)
BY DEF SameCore

LEMMA MarkAwaitedStep ==
  ASSUME Typed, NEW o \in Agents \cup Owners, MarkAwaited(o)
  PROVE  QueueStep
<1>1. /\ op[o].phase = "mark" /\ jobs' = MarkedAwaited(jobs, op[o].seq) /\ To(o, "read")
      /\ UNCHANGED <<sat, regs, deliver, hist, left, removing>>
  BY DEF MarkAwaited
<1>2. op[o].seq \in Seqs /\ jobs \in Rows
  BY <1>1 DEF Typed, Requests, OpKept, Tables
<1>3. jobs' \in Rows /\ \A j \in Seqs : SameCore(jobs'[j], jobs[j])
  BY <1>1, <1>2, MarkedRows
<1>4. Requests'
  BY <1>1, ToKeeps DEF Typed
<1> QED
  BY <1>1, <1>3, <1>4, FlagStep DEF Typed, Tables

LEMMA ReadStep ==
  ASSUME Typed, NEW o \in Agents \cup Owners, Read(o)
  PROVE  QueueStep
<1>1. op[o].phase = "read" /\ UNCHANGED <<sat, regs, jobs, deliver, hist, left, removing>>
  BY DEF Read
<1>2. op[o].seq \in Seqs /\ jobs[op[o].seq].call \in Calls \cup {NoCall}
  BY <1>1 DEF Typed, Requests, OpKept, Tables, Rows, Job
<1>3. \/ Returns(o) \/ To(o, "poll")
      \/ op' = [op EXCEPT ![o].phase = "see", ![o].saw = jobs[op[o].seq].call]
  <2>1. CASE ~Readable(op[o].seq)
    BY <2>1, Zenon DEF Read
  <2>2. CASE Readable(op[o].seq) /\ op[o].seq \in Terminal(jobs)
    BY <2>2, Zenon DEF Read, Terminal
  <2>3. CASE Readable(op[o].seq) /\ op[o].seq \in NonTerminal(jobs)
    BY <2>3, Zenon DEF Read, Terminal
  <2>4. Readable(op[o].seq) => op[o].seq \in Terminal(jobs) \cup NonTerminal(jobs)
    BY <1>2 DEF Readable, Terminal, Present
  <2> QED
    BY <2>1, <2>2, <2>3, <2>4
<1>4. Requests'
  BY <1>1, <1>2, <1>3, ReturnsKeeps, ToKeeps, SeesKeeps DEF Typed
<1> QED
  BY <1>1, <1>4, QuietStep DEF Typed, Tables

LEMMA PollStep ==
  ASSUME Typed, NEW o \in Agents \cup Owners, Poll(o)
  PROVE  QueueStep
<1>1. /\ op[o].phase = "poll" /\ (To(o, "mark") \/ Returns(o))
      /\ UNCHANGED <<sat, regs, jobs, deliver, hist, left, removing>>
  BY DEF Poll
<1>2. Requests'
  BY <1>1, ReturnsKeeps, ToKeeps DEF Typed
<1> QED
  BY <1>1, <1>2, QuietStep DEF Typed, Tables

LEMMA MarkSeenStep ==
  ASSUME Typed, NEW o \in Agents \cup Owners, MarkSeen(o) \/ ReleaseAwaited(o)
  PROVE  QueueStep
<1>1. /\ op[o].phase \in {"see", "release"}
      /\ UNCHANGED <<sat, regs, deliver, hist, left, removing>>
      /\ \/ jobs' = MarkedSeen(jobs, op[o].seq)
         \/ jobs' = [jobs EXCEPT ![op[o].seq].awaited = "no"]
         \/ jobs' = jobs
      /\ \E ph \in {"claimed", "release", "answer"} : To(o, ph)
  BY DEF MarkSeen, ReleaseAwaited
<1>2. op[o].seq \in Seqs /\ jobs \in Rows /\ hist \in History
  BY <1>1 DEF Typed, Requests, OpKept, Tables
<1>3. jobs' \in Rows /\ \A j \in Seqs : SameCore(jobs'[j], jobs[j])
  <2>1. /\ MarkedSeen(jobs, op[o].seq) \in Rows
        /\ [jobs EXCEPT ![op[o].seq].awaited = "no"] \in Rows
        /\ [jobs EXCEPT ![op[o].seq].cancel = TRUE] \in Rows
        /\ \A j \in Seqs :
             /\ SameCore(MarkedSeen(jobs, op[o].seq)[j], jobs[j])
             /\ SameCore([jobs EXCEPT ![op[o].seq].awaited = "no"][j], jobs[j])
             /\ SameCore([jobs EXCEPT ![op[o].seq].cancel = TRUE][j], jobs[j])
    BY <1>2, MarkedRows, Zenon
  <2> QED
    BY <1>1, <1>2, <2>1, SameCoreSame, Zenon
<1>4. Requests'
  BY <1>1, ToKeeps DEF Typed
<1> QED
  BY <1>1, <1>2, <1>3, <1>4, FlagStep DEF Typed, Tables

LEMMA AnswerStep ==
  ASSUME Typed, NEW o \in Agents \cup Owners, Answer(o)
  PROVE  QueueStep
<1>1. /\ Returns(o) /\ UNCHANGED <<sat, regs, jobs, deliver, left, removing>>
      /\ hist' = [hist EXCEPT !.seen = @ \cup {op[o].saw}]
  BY DEF Answer
<1>2. op[o].saw \in Calls \cup {NoCall} /\ jobs \in Rows /\ hist \in History
  BY DEF Typed, Requests, Op, Tables
<1>3. hist' \in History /\ hist'.calls = hist.calls /\ hist'.ran = hist.ran
  BY <1>1, <1>2 DEF History
<1>4. Requests'
  BY <1>1, ReturnsKeeps DEF Typed
<1> QED
  BY <1>1, <1>2, <1>3, <1>4, SameCoreSame, FlagStep DEF Typed, Tables

LEMMA OpDiesStep ==
  ASSUME Typed, NEW o \in Agents \cup Owners, OpDies(o)
  PROVE  QueueStep
<1>1. /\ Spend("die") /\ Returns(o) /\ UNCHANGED <<sat, regs, jobs, deliver, removing>>
      /\ \/ hist' = [hist EXCEPT !.orphaned = @ \cup {op[o].saw}]
         \/ hist' = [hist EXCEPT !.orphaned = @]
  BY DEF OpDies
<1>2. op[o].saw \in Calls \cup {NoCall} /\ jobs \in Rows /\ hist \in History
  BY DEF Typed, Requests, Op, Tables
<1>3. hist' \in History /\ hist'.calls = hist.calls /\ hist'.ran = hist.ran
  BY <1>1, <1>2 DEF History
<1>4. Requests'
  BY <1>1, ReturnsKeeps DEF Typed
<1>5. left' \in [Disturbances -> Nat]
  BY <1>1, SpendTyped DEF Typed, Tables, Disturbances
<1> QED
  BY <1>1, <1>2, <1>3, <1>4, <1>5, SameCoreSame, FlagStep DEF Typed, Tables

LEMMA CancelStep ==
  ASSUME Typed, NEW o \in Agents \cup Owners, NEW j \in Seqs, Cancel(o, j)
  PROVE  QueueStep
<1>1. /\ Spend("cancel") /\ UNCHANGED <<sat, regs, jobs, deliver, hist, removing>>
      /\ op' = [op EXCEPT ![o] = [NoOp EXCEPT !.phase = "cancel", !.seq = j, !.reg = sat.reg]]
  BY DEF Cancel
<1>2. PICK q : q = [NoOp EXCEPT !.phase = "cancel", !.seq = j, !.reg = sat.reg]
  OBVIOUS
<1>3. q \in Op /\ OpKept(q)
  BY <1>2, RowFacts DEF Op, OpKept, NoOp, NoReg, NoCall
<1>4. Requests'
  BY <1>1, <1>2, <1>3, OpPlaced DEF Typed
<1>5. left' \in [Disturbances -> Nat]
  BY <1>1, SpendTyped DEF Typed, Tables, Disturbances
<1> QED
  BY <1>1, <1>4, <1>5, QuietStep DEF Typed, Tables

LEMMA CancelReadStep ==
  ASSUME Typed, NEW o \in Agents \cup Owners, CancelRead(o)
  PROVE  QueueStep
<1>1. op[o].phase = "cancel" /\ UNCHANGED <<sat, regs, jobs, deliver, hist, left, removing>>
  BY DEF CancelRead
<1>2. /\ op[o].seq \in Seqs /\ jobs[op[o].seq].call \in Calls \cup {NoCall}
      /\ op[o] \in Op /\ op \in [Agents \cup Owners -> Op] /\ sat.reg \in Nat
  BY <1>1, RowFacts DEF Typed, Requests, OpKept, Tables, Rows, Job
<1>3. PICK reg \in Nat : reg = IF o \in Owners THEN sat.reg ELSE op[o].reg
  BY <1>2 DEF Op
<1>4. \/ Returns(o)
      \/ op' = [op EXCEPT ![o].phase = "see", ![o].saw = jobs[op[o].seq].call]
      \/ \E ph \in {"settle", "request"} : op' = [op EXCEPT ![o].phase = ph, ![o].reg = reg]
  BY <1>2, <1>3 DEF CancelRead
<1>5. ASSUME NEW ph \in {"settle", "request"}, op' = [op EXCEPT ![o].phase = ph, ![o].reg = reg]
      PROVE  Requests'
  <2>1. PICK q : q = [op[o] EXCEPT !.phase = ph, !.reg = reg]
    OBVIOUS
  <2>2. q \in Op /\ OpKept(q)
    BY <1>2, <2>1 DEF Op, OpKept
  <2>3. op' = [op EXCEPT ![o] = q]
    BY <1>2, <1>5, <2>1
  <2> QED
    BY <1>1, <2>2, <2>3, OpPlaced DEF Typed
<1>6. Requests'
  BY <1>1, <1>2, <1>4, <1>5, ReturnsKeeps, SeesKeeps DEF Typed
<1> QED
  BY <1>1, <1>6, QuietStep DEF Typed, Tables

LEMMA RequestCancelStep ==
  ASSUME Typed, NEW o \in Agents \cup Owners, RequestCancel(o)
  PROVE  QueueStep
<1>1. /\ op[o].phase = "request" /\ Returns(o)
      /\ jobs' = jobs \/ jobs' = [jobs EXCEPT ![op[o].seq].cancel = TRUE]
      /\ UNCHANGED <<sat, regs, deliver, hist, left, removing>>
  BY DEF RequestCancel
<1>2. op[o].seq \in Seqs /\ jobs \in Rows
  BY <1>1 DEF Typed, Requests, OpKept, Tables
<1>3. jobs' \in Rows /\ \A j \in Seqs : SameCore(jobs'[j], jobs[j])
  <2>1. /\ MarkedSeen(jobs, op[o].seq) \in Rows
        /\ [jobs EXCEPT ![op[o].seq].awaited = "no"] \in Rows
        /\ [jobs EXCEPT ![op[o].seq].cancel = TRUE] \in Rows
        /\ \A j \in Seqs :
             /\ SameCore(MarkedSeen(jobs, op[o].seq)[j], jobs[j])
             /\ SameCore([jobs EXCEPT ![op[o].seq].awaited = "no"][j], jobs[j])
             /\ SameCore([jobs EXCEPT ![op[o].seq].cancel = TRUE][j], jobs[j])
    BY <1>2, MarkedRows, Zenon
  <2> QED
    BY <1>1, <1>2, <2>1, SameCoreSame, Zenon
<1>4. Requests'
  BY <1>1, ReturnsKeeps DEF Typed
<1> QED
  BY <1>1, <1>3, <1>4, FlagStep DEF Typed, Tables

(* What waits is settled as never started. *)
LEMMA StopMoves ==
  ASSUME Typed, RowsKept, NEW S, S \subseteq InStatus(jobs, "queued"),
         jobs' = Unstarted(jobs, S) \/ jobs' = Stopped(jobs, S),
         regs' = regs, SameName(sat, sat'), hist'.calls = hist.calls
  PROVE  jobs' \in Rows /\ RowStep
<1>0. jobs \in Rows
  BY DEF Typed, Tables
<1>1. /\ jobs' \in Rows /\ \A j \in Seqs \ S : jobs'[j] = jobs[j]
      /\ \A j \in Seqs \cap S : /\ jobs'[j].status = "cancelled"
                                /\ jobs'[j].call = jobs[j].call /\ jobs'[j].of = jobs[j].of
  <2>1. CASE jobs' = Unstarted(jobs, S)
    BY <1>0, <2>1, UnstartedRows
  <2>2. CASE jobs' = Stopped(jobs, S)
    BY <1>0, <2>2, StoppedRows
  <2> QED
    BY <2>1, <2>2
<1>2. ASSUME NEW j \in Seqs
      PROVE  RowMoves(jobs[j], jobs'[j])
  <2>1. CASE j \notin S
    BY <1>1, <2>1 DEF RowMoves, SameCore
  <2>2. CASE j \in S
    <3>1. jobs[j].status = "queued" /\ RowKept(j)
      BY <2>2 DEF InStatus, RowsKept
    <3> QED
      BY <1>1, <2>2, <3>1 DEF RowMoves, RowKept
  <2> QED
    BY <2>1, <2>2
<1> QED
  BY <1>1, <1>2 DEF RowStep, Moves, SameName

LEMMA CancelSettleStep ==
  ASSUME Typed, RowsKept, NEW o \in Agents \cup Owners, CancelSettle(o)
  PROVE  QueueStep
<1>1. /\ op[o].phase = "settle" /\ jobs' = Unstarted(jobs, CancelRows(o))
      /\ AnnounceIf(CancelRows(o) # {} /\ o \in Owners)
      /\ UNCHANGED <<sat, regs, hist, left, removing>>
      /\ \/ To(o, "cancel") \/ Returns(o)
         \/ op' = [op EXCEPT ![o].phase = "see", ![o].saw = jobs[op[o].seq].call]
  BY DEF CancelSettle
<1>2. op[o].seq \in Seqs /\ jobs[op[o].seq].call \in Calls \cup {NoCall}
  BY <1>1 DEF Typed, Requests, OpKept, Tables, Rows, Job
<1>3. Requests'
  BY <1>1, <1>2, ReturnsKeeps, ToKeeps, SeesKeeps DEF Typed
<1>4. jobs' \in Rows /\ RowStep
  <2>1. CancelRows(o) \subseteq InStatus(jobs, "queued")
    BY DEF CancelRows, Settleable
  <2> QED
    BY <1>1, <2>1, StopMoves DEF SameName
<1>5. deliver' \in [Deliveries -> Deliver]
  <2>1. PICK any \in BOOLEAN : any = (CancelRows(o) # {} /\ o \in Owners)
    OBVIOUS
  <2>2. AnnounceIf(any)
    BY <1>1, <2>1
  <2> QED
    BY <2>2, AnnounceTyped DEF Typed, Tables
<1>6. Tables'
  BY <1>1, <1>4, <1>5 DEF Typed, Tables
<1> QED
  BY <1>1, <1>3, <1>4, <1>6 DEF QueueStep

LEMMA SameRequests ==
  ASSUME Typed, UNCHANGED agentVars
  PROVE  Requests'
BY DEF Typed, Requests, agentVars, OpKept

LEMMA GrantStep ==
  ASSUME Typed, Grant
  PROVE  QueueStep
<1>1. /\ Spend("grant") /\ sat' = [sat EXCEPT !.granted = TRUE]
      /\ UNCHANGED <<regs, jobs, deliver, hist>> /\ UNCHANGED agentVars
  BY DEF Grant
<1>2. sat' \in SatRow /\ SameName(sat, sat')
  BY <1>1, SatEdits, Zenon DEF Typed, Tables
<1>3. left' \in [Disturbances -> Nat]
  BY <1>1, SpendTyped DEF Typed, Tables, Disturbances
<1>4. Tables'
  BY <1>1, <1>2, <1>3 DEF Typed, Tables
<1>5. RowStep
  BY <1>1, <1>2, RowsStill
<1> QED
  BY <1>1, <1>4, <1>5, SameRequests DEF QueueStep

LEMMA RevokeStep ==
  ASSUME Typed, NEW o \in Agents \cup Owners, Revoke(o)
  PROVE  QueueStep
<1>1. /\ Spend("revoke") /\ sat' = [sat EXCEPT !.granted = FALSE] /\ To(o, "stop")
      /\ UNCHANGED <<regs, jobs, deliver, hist, removing>>
  BY DEF Revoke
<1>2. sat' \in SatRow /\ SameName(sat, sat')
  BY <1>1, SatEdits, Zenon DEF Typed, Tables
<1>3. left' \in [Disturbances -> Nat]
  BY <1>1, SpendTyped DEF Typed, Tables, Disturbances
<1>4. Tables'
  BY <1>1, <1>2, <1>3 DEF Typed, Tables
<1>5. RowStep
  BY <1>1, <1>2, RowsStill
<1>6. Requests'
  <2>1. PICK q : q = [op[o] EXCEPT !.phase = "stop"]
    OBVIOUS
  <2>2. q \in Op /\ OpKept(q) /\ op' = [op EXCEPT ![o] = q]
    BY <1>1, <2>1 DEF Typed, Requests, Op, OpKept, To
  <2> QED
    BY <1>1, <2>2, OpPlaced DEF Typed
<1> QED
  BY <1>1, <1>4, <1>5, <1>6 DEF QueueStep

LEMMA RevokeStopsStep ==
  ASSUME Typed, RowsKept, NEW o \in Agents \cup Owners, RevokeStops(o)
  PROVE  QueueStep
<1>1. /\ jobs' = Stopped(jobs, Stoppable(jobs))
      /\ AnnounceIf(Stoppable(jobs) # {}) /\ Returns(o)
      /\ UNCHANGED <<sat, regs, hist, left, removing>>
  BY DEF RevokeStops, StopDispatch
<1>2. jobs' \in Rows /\ RowStep
  <2>1. Stoppable(jobs) \subseteq InStatus(jobs, "queued")
    BY DEF Stoppable
  <2> QED
    BY <1>1, <2>1, StopMoves DEF SameName
<1>3. deliver' \in [Deliveries -> Deliver]
  <2>1. PICK any \in BOOLEAN : any = (Stoppable(jobs) # {})
    OBVIOUS
  <2>2. AnnounceIf(any)
    BY <1>1, <2>1
  <2> QED
    BY <2>2, AnnounceTyped DEF Typed, Tables
<1>4. Tables'
  BY <1>1, <1>2, <1>3 DEF Typed, Tables
<1>5. Requests'
  BY <1>1, ReturnsKeeps DEF Typed
<1> QED
  BY <1>1, <1>2, <1>4, <1>5 DEF QueueStep

LEMMA RemoveStopsStep ==
  ASSUME Typed, RowsKept, RemoveStops
  PROVE  QueueStep
<1>1. /\ Spend("remove") /\ jobs' = Stopped(jobs, Stoppable(jobs))
      /\ UNCHANGED <<sat, regs, hist, op>>
      /\ \/ removing' = "yes" /\ UNCHANGED deliver
         \/ \E d \in Deliveries : Begins(d, FALSE) /\ removing' = d
  BY DEF RemoveStops
<1>2. left' \in [Disturbances -> Nat]
  BY <1>1, SpendTyped DEF Typed, Tables, Disturbances
<1>3. jobs' \in Rows /\ RowStep
  <2>1. Stoppable(jobs) \subseteq InStatus(jobs, "queued")
    BY DEF Stoppable
  <2> QED
    BY <1>1, <2>1, StopMoves DEF SameName
<1>4. deliver' \in [Deliveries -> Deliver] /\ removing' \in {"no", "yes"} \cup Deliveries
  <2>1. CASE removing' = "yes" /\ UNCHANGED deliver
    BY <2>1 DEF Typed, Tables
  <2>2. CASE \E d \in Deliveries : Begins(d, FALSE) /\ removing' = d
    BY <2>2, BeginsTyped DEF Typed, Tables
  <2> QED
    BY <1>1, <2>1, <2>2
<1>5. Tables'
  BY <1>1, <1>2, <1>3, <1>4 DEF Typed, Tables
<1>6. Requests'
  BY <1>1, <1>4 DEF Typed, Requests, OpKept
<1> QED
  BY <1>1, <1>3, <1>5, <1>6 DEF QueueStep

LEMMA RemoveDeletesStep ==
  ASSUME Typed, RemoveDeletes
  PROVE  QueueStep
<1>1. /\ removing' = "no" /\ sat' = NoSatellite /\ jobs' = [j \in Seqs |-> NoJob]
      /\ UNCHANGED <<regs, deliver, hist, left, op>>
  BY DEF RemoveDeletes
<1>2. jobs' \in Rows /\ \A j \in Seqs : jobs'[j] = NoJob
  BY <1>1, NoJobIsJob DEF Rows
<1>3. Tables'
  BY <1>1, <1>2, NoSatelliteTyped, Zenon DEF Typed, Tables
<1>4. Removes
  BY <1>1, <1>2, NoSatelliteTyped, Zenon DEF Removes
<1>5. Requests'
  BY <1>1 DEF Typed, Requests, OpKept
<1> QED
  BY <1>1, <1>3, <1>4, <1>5 DEF QueueStep, RowStep

---------------------------------------------------------------------------
(* The delivery of outcomes *)

LEMMA NothingToTellTyped ==
  ASSUME deliver \in [Deliveries -> Deliver], NEW d \in Deliveries, NEW js,
         NothingToTell(d, js)
  PROVE  deliver' \in [Deliveries -> Deliver]
<1>1. Unwoken(js) \subseteq Seqs
  BY DEF Unwoken, Terminal, Present
<1>2. [NoDelivery EXCEPT !.phase = "wake", !.seqs = Unwoken(js)] \in Deliver
  BY <1>1 DEF NoDelivery, Deliver
<1>3. NoDelivery \in Deliver
  BY DEF NoDelivery, Deliver
<1> QED
  BY <1>2, <1>3 DEF NothingToTell

LEMMA WakeRetryStep ==
  ASSUME Typed, NEW d \in Deliveries, WakeRetry(d)
  PROVE  QueueStep
<1>1. /\ (left' = left \/ Spend("hour")) /\ Begins(d, TRUE)
      /\ UNCHANGED <<sat, regs, jobs, hist>> /\ UNCHANGED agentVars
  BY DEF WakeRetry
<1>2. left' \in [Disturbances -> Nat]
  BY <1>1, SpendTyped DEF Typed, Tables, Disturbances
<1>3. deliver' \in [Deliveries -> Deliver]
  BY <1>1, BeginsTyped DEF Typed, Tables
<1> QED
  BY <1>1, <1>2, <1>3, SameRequests, QuietStep

LEMMA SelectOutcomesStep ==
  ASSUME Typed, NEW d \in Deliveries, SelectOutcomes(d)
  PROVE  QueueStep
<1>1. /\ \/ NothingToTell(d, jobs)
         \/ deliver' = [deliver EXCEPT ![d].phase = "claim", ![d].seqs = Undelivered(jobs)]
      /\ UNCHANGED <<sat, regs, jobs, hist, left>> /\ UNCHANGED agentVars
  BY DEF SelectOutcomes
<1>2. deliver \in [Deliveries -> Deliver] /\ left \in [Disturbances -> Nat]
  BY DEF Typed, Tables
<1>3. ASSUME deliver' = [deliver EXCEPT ![d].phase = "claim", ![d].seqs = Undelivered(jobs)]
      PROVE  deliver' \in [Deliveries -> Deliver]
  <2>1. Undelivered(jobs) \subseteq Seqs
    BY DEF Undelivered, Terminal, Present
  <2>2. [deliver[d] EXCEPT !.phase = "claim", !.seqs = Undelivered(jobs)] \in Deliver
    BY <1>2, <2>1, ZenonT(120) DEF Deliver
  <2> QED
    BY <1>2, <1>3, <2>2
<1>4. deliver' \in [Deliveries -> Deliver]
  BY <1>1, <1>2, <1>3, NothingToTellTyped
<1> QED
  BY <1>1, <1>2, <1>4, SameRequests, QuietStep

LEMMA ClaimOutcomesStep ==
  ASSUME Typed, RowsKept, NEW d \in Deliveries, ClaimOutcomes(d)
  PROVE  QueueStep
<1>0. PICK S : S = StillUndelivered(jobs, deliver[d].seqs)
  OBVIOUS
<1>1. /\ jobs' = Delivered(jobs, S, TRUE)
      /\ \/ NothingToTell(d, jobs)
         \/ deliver' = [deliver EXCEPT ![d].phase = "write", ![d].seqs = S,
                          ![d].told = {<<j, jobs[j].call>> : j \in S}]
      /\ UNCHANGED <<sat, regs, hist, left>> /\ UNCHANGED agentVars
  BY <1>0 DEF ClaimOutcomes
<1>2. deliver \in [Deliveries -> Deliver] /\ left \in [Disturbances -> Nat] /\ jobs \in Rows
      /\ hist \in History
  BY DEF Typed, Tables
<1>3. ASSUME deliver' = [deliver EXCEPT ![d].phase = "write", ![d].seqs = S,
                           ![d].told = {<<j, jobs[j].call>> : j \in S}]
      PROVE  deliver' \in [Deliveries -> Deliver]
  <2>1. S \subseteq Seqs /\ \A j \in S : jobs[j].status # "absent"
    BY <1>0 DEF StillUndelivered, Present
  <2>2. \A j \in S : jobs[j].call \in Calls
    BY <2>1, RowFacts DEF RowsKept, RowKept, Calls
  <2>3. PICK told : told = {<<j, jobs[j].call>> : j \in S}
    OBVIOUS
  <2>4. told \subseteq Seqs \X Calls
    BY <2>1, <2>2, <2>3
  <2>5. [deliver[d] EXCEPT !.phase = "write", !.seqs = S, !.told = told] \in Deliver
    BY <1>2, <2>1, <2>4, ZenonT(120) DEF Deliver
  <2> QED
    BY <1>2, <1>3, <2>3, <2>5
<1>4. deliver' \in [Deliveries -> Deliver]
  BY <1>1, <1>2, <1>3, NothingToTellTyped
<1>5. jobs' \in Rows /\ \A j \in Seqs : SameCore(jobs'[j], jobs[j])
  BY <1>1, <1>2, DeliveredRows
<1> QED
  BY <1>1, <1>2, <1>4, <1>5, SameRequests, FlagStep

LEMMA TrimTurnStep ==
  ASSUME Typed, NEW d \in Deliveries, TrimTurn(d)
  PROVE  QueueStep
<1>1. PICK fits \in SUBSET deliver[d].seqs :
        /\ jobs' = Release(jobs, deliver[d].seqs \ fits)
        /\ deliver' = [deliver EXCEPT ![d].seqs = fits, ![d].told = {t \in @ : t[1] \in fits}]
  BY DEF TrimTurn
<1>2. UNCHANGED <<sat, regs, hist, left>> /\ UNCHANGED agentVars
  BY DEF TrimTurn
<1>3. deliver \in [Deliveries -> Deliver] /\ left \in [Disturbances -> Nat] /\ jobs \in Rows
      /\ hist \in History
  BY DEF Typed, Tables
<1>4. deliver[d] \in Deliver /\ deliver[d].seqs \subseteq Seqs /\ deliver[d].told \subseteq Seqs \X Calls
  BY <1>3 DEF Deliver
<1>5. PICK told : told = {t \in deliver[d].told : t[1] \in fits}
  OBVIOUS
<1>6. fits \subseteq Seqs /\ told \subseteq Seqs \X Calls
  BY <1>4, <1>5
<1>7. [deliver[d] EXCEPT !.seqs = fits, !.told = told] \in Deliver
  BY <1>4, <1>6 DEF Deliver
<1>8. deliver' \in [Deliveries -> Deliver]
  BY <1>1, <1>3, <1>5, <1>7
<1>9. jobs' \in Rows /\ \A j \in Seqs : SameCore(jobs'[j], jobs[j])
  BY <1>1, <1>3, DeliveredRows DEF Release
<1> QED
  BY <1>2, <1>3, <1>8, <1>9, SameRequests, FlagStep

LEMMA WriteTurnStep ==
  ASSUME Typed, NEW d \in Deliveries, WriteTurn(d)
  PROVE  QueueStep
<1>1. /\ hist' = [hist EXCEPT !.turns = [n \in Calls |->
           IF \E t \in deliver[d].told : t[2] = n THEN @[n] + 1 ELSE @[n]]]
      /\ deliver' = [deliver EXCEPT ![d].phase = "wake"]
      /\ UNCHANGED <<sat, regs, jobs, left>> /\ UNCHANGED agentVars
  BY DEF WriteTurn
<1>2. deliver \in [Deliveries -> Deliver] /\ left \in [Disturbances -> Nat] /\ jobs \in Rows
      /\ hist \in History
  BY DEF Typed, Tables
<1>3. deliver' \in [Deliveries -> Deliver]
  BY <1>1, <1>2 DEF Deliver
<1>4. PICK turns : turns = [n \in Calls |->
         IF \E t \in deliver[d].told : t[2] = n THEN hist.turns[n] + 1 ELSE hist.turns[n]]
  OBVIOUS
<1>5. hist.turns \in [Calls -> Nat]
  BY <1>2 DEF History
<1>6. turns \in [Calls -> Nat]
  BY <1>4, <1>5
<1>7. hist' = [hist EXCEPT !.turns = turns]
  BY <1>1, <1>4
<1>8. hist' \in History /\ hist'.calls = hist.calls /\ hist'.ran = hist.ran
  BY <1>2, <1>6, <1>7 DEF History
<1> QED
  BY <1>1, <1>2, <1>3, <1>8, SameRequests, FlagStep, SameCoreSame

LEMMA WriteFailsStep ==
  ASSUME Typed, NEW d \in Deliveries, WriteFails(d)
  PROVE  QueueStep
<1>1. /\ Spend("fail") /\ jobs' = Release(jobs, deliver[d].seqs) /\ NothingToTell(d, jobs')
      /\ UNCHANGED <<sat, regs, hist>> /\ UNCHANGED agentVars
  BY DEF WriteFails
<1>2. deliver \in [Deliveries -> Deliver] /\ left \in [Disturbances -> Nat] /\ jobs \in Rows
      /\ hist \in History
  BY DEF Typed, Tables
<1>3. deliver' \in [Deliveries -> Deliver] /\ left' \in [Disturbances -> Nat]
  BY <1>1, <1>2, NothingToTellTyped, SpendTyped DEF Disturbances
<1>4. jobs' \in Rows /\ \A j \in Seqs : SameCore(jobs'[j], jobs[j])
  BY <1>1, <1>2, DeliveredRows DEF Release
<1> QED
  BY <1>1, <1>2, <1>3, <1>4, SameRequests, FlagStep

LEMMA WakeAgentStep ==
  ASSUME Typed, NEW d \in Deliveries, WakeAgent(d)
  PROVE  QueueStep
<1>1. /\ jobs' = Woken(jobs, deliver[d].seqs)
      /\ deliver' = [deliver EXCEPT ![d] = NoDelivery]
      /\ UNCHANGED <<sat, regs, hist, left>> /\ UNCHANGED agentVars
  BY DEF WakeAgent
<1>2. deliver \in [Deliveries -> Deliver] /\ left \in [Disturbances -> Nat] /\ jobs \in Rows
      /\ hist \in History
  BY DEF Typed, Tables
<1>3. deliver' \in [Deliveries -> Deliver]
  BY <1>1, <1>2, NoDeliveryTyped, Zenon
<1>4. jobs' \in Rows /\ \A j \in Seqs : SameCore(jobs'[j], jobs[j])
  BY <1>1, <1>2, DeliveredRows
<1> QED
  BY <1>1, <1>2, <1>3, <1>4, SameRequests, FlagStep

LEMMA DeliveryFailsStep ==
  ASSUME Typed, NEW d \in Deliveries, WakeFails(d) \/ DeliveryDies(d)
  PROVE  QueueStep
<1>1. /\ Spend("fail") \/ Spend("die")
      /\ deliver' = [deliver EXCEPT ![d] = NoDelivery]
      /\ UNCHANGED <<sat, regs, jobs>> /\ UNCHANGED agentVars
      /\ \/ hist' = hist
         \/ hist' = [hist EXCEPT !.orphaned =
              IF deliver[d].phase = "write" THEN @ \cup {t[2] : t \in deliver[d].told} ELSE @]
  BY DEF WakeFails, DeliveryDies
<1>2. deliver \in [Deliveries -> Deliver] /\ left \in [Disturbances -> Nat] /\ jobs \in Rows
      /\ hist \in History
  BY DEF Typed, Tables
<1>3. deliver' \in [Deliveries -> Deliver] /\ left' \in [Disturbances -> Nat]
  BY <1>1, <1>2, NoDeliveryTyped, SpendTyped, Zenon DEF Disturbances
<1>4. deliver[d].told \subseteq Seqs \X Calls
  BY <1>2 DEF Deliver
<1>5. PICK told : told = {t[2] : t \in deliver[d].told}
  OBVIOUS
<1>6. told \subseteq Calls
  BY <1>4, <1>5
<1>7. hist' = hist \/ hist' = [hist EXCEPT !.orphaned = @ \cup told]
  BY <1>1, <1>2, <1>5 DEF History
<1>8. hist' \in History /\ hist'.calls = hist.calls /\ hist'.ran = hist.ran
  BY <1>2, <1>6, <1>7 DEF History
<1> QED
  BY <1>1, <1>2, <1>3, <1>8, SameRequests, FlagStep, SameCoreSame

LEMMA AgentStep ==
  ASSUME Typed, RowsKept, AgentNext
  PROVE  QueueStep
<1>1. ASSUME NEW o \in Agents \cup Owners, OpStep(o)
      PROVE  QueueStep
  BY <1>1, InsertJobStep, MarkAwaitedStep, ReadStep, PollStep, MarkSeenStep, AnswerStep,
     CancelReadStep, RequestCancelStep, CancelSettleStep, RevokeStopsStep DEF OpStep
<1>2. ASSUME NEW d \in Deliveries, DeliveryStep(d)
      PROVE  QueueStep
  BY <1>2, WakeRetryStep, SelectOutcomesStep, ClaimOutcomesStep, TrimTurnStep, WriteTurnStep,
     WakeAgentStep DEF DeliveryStep
<1>3. CASE AgentGoes
  BY <1>1, <1>2, <1>3, RemoveDeletesStep DEF AgentGoes
<1>4. CASE \E o \in Agents \cup Owners :
             \/ Start(o) \/ OpDies(o) \/ Revoke(o)
             \/ \E j \in Seqs : Again(o, j) \/ Cancel(o, j)
  BY <1>4, StartStep, OpDiesStep, RevokeStep, AgainStep, CancelStep
<1>5. CASE \E d \in Deliveries : WriteFails(d) \/ WakeFails(d) \/ DeliveryDies(d)
  BY <1>5, WriteFailsStep, DeliveryFailsStep
<1>6. CASE Grant \/ RemoveStops
  BY <1>6, GrantStep, RemoveStopsStep
<1> QED
  BY <1>3, <1>4, <1>5, <1>6 DEF AgentNext

---------------------------------------------------------------------------
(* The sweep and time *)

LEMMA SweepUnstartedStep ==
  ASSUME Typed, RowsKept, SweepUnstarted
  PROVE  QueueStep
<1>1. /\ jobs' = Stopped(jobs, StaleQueued) /\ DeliverOutcome
      /\ UNCHANGED <<sat, regs, hist, left>> /\ UNCHANGED agentVars
  BY DEF SweepUnstarted
<1>2. deliver' \in [Deliveries -> Deliver]
  BY <1>1, BeginsTyped DEF Typed, Tables, DeliverOutcome
<1>3. jobs' \in Rows /\ RowStep
  <2>1. StaleQueued \subseteq InStatus(jobs, "queued")
    BY DEF StaleQueued, Stoppable
  <2> QED
    BY <1>1, <2>1, StopMoves DEF SameName
<1>4. Tables'
  BY <1>1, <1>2, <1>3 DEF Typed, Tables
<1> QED
  BY <1>1, <1>3, <1>4, SameRequests DEF QueueStep

(* Rows that run settle with a result of their own call or with none. *)
LEMMA SettleMoves ==
  ASSUME Typed, RowsKept, NEW S, S \subseteq InStatus(jobs, "running"),
         NEW st \in {"done", "interrupted", "cancelled"}, NEW n \in Calls \cup {NoCall},
         \A j \in S : n \in {NoCall, jobs[j].call},
         jobs' = Settled(jobs, S, st, n),
         regs' = regs, SameName(sat, sat'), hist'.calls = hist.calls
  PROVE  jobs' \in Rows /\ RowStep
<1>0. jobs \in Rows /\ st \in Statuses
  BY DEF Typed, Tables, Statuses
<1>1. /\ jobs' \in Rows /\ \A j \in Seqs \ S : jobs'[j] = jobs[j]
      /\ \A j \in Seqs \cap S : /\ jobs'[j].status = st /\ jobs'[j].of = n
                                /\ jobs'[j].call = jobs[j].call
                                /\ jobs'[j].unstarted = jobs[j].unstarted
  <2>1. Settled(jobs, S, st, n) \in Rows
    BY <1>0, SettledRows
  <2>2. ASSUME NEW j \in Seqs \ S
        PROVE  jobs'[j] = jobs[j]
    BY Zenon DEF Settled, Updated
  <2>3. ASSUME NEW j \in Seqs \cap S
        PROVE  /\ jobs'[j].status = st /\ jobs'[j].of = n
               /\ jobs'[j].call = jobs[j].call
               /\ jobs'[j].unstarted = jobs[j].unstarted
    <3>1. jobs'[j] = SettledRow(jobs[j], st, n)
      BY <1>0, SettledRows, SMTT(60)
    <3>2. jobs[j] \in Job
      BY <1>0 DEF Rows
    <3>3. /\ SettledRow(jobs[j], st, n).status = st
          /\ SettledRow(jobs[j], st, n).of = n
          /\ SettledRow(jobs[j], st, n).call = jobs[j].call
          /\ SettledRow(jobs[j], st, n).unstarted = jobs[j].unstarted
      BY <1>0, <3>2, SettledRowIsJob
    <3> QED
      BY <3>1, <3>3, Zenon
  <2> QED
    BY <2>1, <2>2, <2>3
<1>2. ASSUME NEW j \in Seqs
      PROVE  RowMoves(jobs[j], jobs'[j])
  <2>1. CASE j \notin S
    BY <1>1, <2>1 DEF RowMoves, SameCore
  <2>2. CASE j \in S
    <3>1. jobs[j].status = "running" /\ RowKept(j)
      BY <2>2 DEF InStatus, RowsKept
    <3>2. ~jobs[j].unstarted
      BY <3>1 DEF RowKept
    <3>3. ~jobs'[j].unstarted
      BY <1>1, <2>2, <3>2
    <3> QED
      BY <1>1, <2>2, <3>1, <3>3 DEF RowMoves
  <2> QED
    BY <2>1, <2>2
<1> QED
  BY <1>1, <1>2 DEF RowStep, Moves, SameName

LEMMA SweepLeaseStep ==
  ASSUME Typed, RowsKept, NEW j \in Seqs, SweepLease(j)
  PROVE  QueueStep
<1>1. /\ j \in ExpiredLeases /\ jobs' = Settled(jobs, {j}, "interrupted", NoCall)
      /\ DeliverOutcome /\ UNCHANGED <<sat, regs, hist, left>> /\ UNCHANGED agentVars
  BY DEF SweepLease
<1>2. deliver' \in [Deliveries -> Deliver]
  BY <1>1, BeginsTyped DEF Typed, Tables, DeliverOutcome
<1>3. jobs' \in Rows /\ RowStep
  <2>1. {j} \subseteq InStatus(jobs, "running")
    BY <1>1 DEF ExpiredLeases
  <2>2. NoCall \in Calls \cup {NoCall} /\ \A i \in {j} : NoCall \in {NoCall, jobs[i].call}
    OBVIOUS
  <2> QED
    BY <1>1, <2>1, <2>2, SettleMoves DEF SameName
<1>4. Tables'
  BY <1>1, <1>2, <1>3 DEF Typed, Tables
<1> QED
  BY <1>1, <1>3, <1>4, SameRequests DEF QueueStep

LEMMA PurgeExpiredStep ==
  ASSUME Typed, PurgeExpired
  PROVE  QueueStep
<1>1. /\ jobs' = [j \in Seqs |-> IF j \in Purgeable(jobs) THEN NoJob ELSE jobs[j]]
      /\ UNCHANGED <<sat, regs, deliver, hist, left>> /\ UNCHANGED agentVars
  BY DEF PurgeExpired
<1>2. jobs' \in Rows
  BY <1>1, NoJobIsJob DEF Typed, Tables, Rows
<1>3. \A j \in Seqs : (jobs'[j] = NoJob /\ jobs[j].delivered) \/ jobs'[j] = jobs[j]
  BY <1>1 DEF Purgeable
<1>4. RowStep
  BY <1>1, <1>3 DEF RowStep, Moves, RowMoves, SameCore
<1>5. Tables'
  BY <1>1, <1>2 DEF Typed, Tables
<1> QED
  BY <1>1, <1>4, <1>5, SameRequests DEF QueueStep

LEMMA AgesStep ==
  ASSUME Typed, NEW j \in Seqs, NEW row \in Job, SameCore(row, jobs[j]), RowAges(j, row),
         left' \in [Disturbances -> Nat]
  PROVE  QueueStep
<1>1. /\ jobs' = [jobs EXCEPT ![j] = row] /\ UNCHANGED <<sat, regs, deliver, hist>>
      /\ UNCHANGED agentVars
  BY DEF RowAges
<1>2. jobs \in Rows /\ deliver \in [Deliveries -> Deliver] /\ hist \in History
  BY DEF Typed, Tables
<1>3. jobs' \in Rows
  BY <1>1, <1>2 DEF Rows
<1>4. \A i \in Seqs : jobs'[i] = IF i = j THEN row ELSE jobs[i]
  BY <1>1, <1>2 DEF Rows
<1>5. \A i \in Seqs : SameCore(jobs'[i], jobs[i])
  BY <1>4, SameCoreSame
<1> QED
  BY <1>1, <1>2, <1>3, <1>5, SameRequests, FlagStep

LEMMA LateTyped ==
  ASSUME Typed, NEW b,
         b => left["late"] > 0,
         left' = IF b THEN [left EXCEPT !["late"] = @ - 1] ELSE left
  PROVE  left' \in [Disturbances -> Nat]
<1>1. CASE b
  <2>1. Spend("late")
    BY <1>1 DEF Spend
  <2> QED
    BY <2>1, SpendTyped DEF Typed, Tables, Disturbances
<1>2. CASE ~b
  BY <1>2 DEF Typed, Tables
<1> QED
  BY <1>1, <1>2

LEMMA TimeStep ==
  ASSUME Typed, NEW j \in Seqs,
         LeaseLapses(j) \/ AwaitLapses(j) \/ CancelAges(j) \/ JobExpires(j)
  PROVE  QueueStep
<1>0. jobs[j] \in Job /\ left \in [Disturbances -> Nat]
  BY DEF Typed, Tables, Rows
<1>1. /\ [jobs[j] EXCEPT !.lease = "lapsed"] \in Job /\ [jobs[j] EXCEPT !.awaited = "lapsed"] \in Job
      /\ [jobs[j] EXCEPT !.sent = "old"] \in Job /\ [jobs[j] EXCEPT !.expired = TRUE] \in Job
  BY <1>0 DEF Job
<1>2. /\ SameCore([jobs[j] EXCEPT !.lease = "lapsed"], jobs[j])
      /\ SameCore([jobs[j] EXCEPT !.awaited = "lapsed"], jobs[j])
      /\ SameCore([jobs[j] EXCEPT !.sent = "old"], jobs[j])
      /\ SameCore([jobs[j] EXCEPT !.expired = TRUE], jobs[j])
  BY <1>0, RowCore
<1>3. CASE LeaseLapses(j)
  <2>1. left' \in [Disturbances -> Nat]
    <3>1. /\ Renewed(j) => left["late"] > 0
          /\ left' = IF Renewed(j) THEN [left EXCEPT !["late"] = @ - 1] ELSE left
      BY <1>3 DEF LeaseLapses
    <3> QED
      BY <3>1, LateTyped, Zenon
  <2>2. RowAges(j, [jobs[j] EXCEPT !.lease = "lapsed"])
    BY <1>3 DEF LeaseLapses
  <2> QED
    BY <1>1, <1>2, <2>1, <2>2, AgesStep, Zenon
<1>4. CASE AwaitLapses(j)
  <2>1. left' \in [Disturbances -> Nat]
    <3>1. /\ Awaiting(j) => left["late"] > 0
          /\ left' = IF Awaiting(j) THEN [left EXCEPT !["late"] = @ - 1] ELSE left
      BY <1>4 DEF AwaitLapses
    <3> QED
      BY <3>1, LateTyped, Zenon
  <2>2. RowAges(j, [jobs[j] EXCEPT !.awaited = "lapsed"])
    BY <1>4 DEF AwaitLapses
  <2> QED
    BY <1>1, <1>2, <2>1, <2>2, AgesStep, Zenon
<1>5. CASE CancelAges(j)
  <2>1. left' = left /\ RowAges(j, [jobs[j] EXCEPT !.sent = "old"])
    BY <1>5 DEF CancelAges
  <2>2. left' \in [Disturbances -> Nat]
    BY <1>0, <2>1
  <2> QED
    BY <1>1, <1>2, <2>1, <2>2, AgesStep, Zenon
<1>6. CASE JobExpires(j)
  <2>1. left' = left \/ Spend("week")
    BY <1>6 DEF JobExpires
  <2>2. RowAges(j, [jobs[j] EXCEPT !.expired = TRUE])
    BY <1>6 DEF JobExpires
  <2>3. left' \in [Disturbances -> Nat]
    BY <1>0, <2>1, SpendTyped DEF Disturbances
  <2> QED
    BY <1>1, <1>2, <2>2, <2>3, AgesStep, Zenon
<1> QED
  BY <1>3, <1>4, <1>5, <1>6

LEMMA GoesOfflineStep ==
  ASSUME Typed, GoesOffline
  PROVE  QueueStep
<1>1. /\ sat' = [sat EXCEPT !.online = FALSE]
      /\ UNCHANGED <<regs, jobs, deliver, hist, left>> /\ UNCHANGED agentVars
  BY DEF GoesOffline
<1>2. sat' \in SatRow /\ SameName(sat, sat')
  BY <1>1, SatEdits, Zenon DEF Typed, Tables
<1>3. Tables'
  BY <1>1, <1>2 DEF Typed, Tables
<1>4. RowStep
  BY <1>1, <1>2, RowsStill
<1> QED
  BY <1>1, <1>3, <1>4, SameRequests DEF QueueStep

LEMMA ServerStep ==
  ASSUME Typed, RowsKept, ServerGoes
  PROVE  QueueStep /\ UNCHANGED workerVars
<1>1. UNCHANGED workerVars
  BY DEF ServerGoes, SweepUnstarted, PurgeExpired, GoesOffline, SweepLease, LeaseLapses, AwaitLapses,
         CancelAges, JobExpires, RowAges
<1>2. QueueStep
  BY SweepUnstartedStep, PurgeExpiredStep, GoesOfflineStep, SweepLeaseStep, TimeStep DEF ServerGoes
<1> QED
  BY <1>1, <1>2

---------------------------------------------------------------------------
(* The machines *)

MachineStep == /\ Tables' /\ Machines' /\ RowStep /\ Mentions'
               /\ RunsOnce' /\ WorkersKept'

(* The process w becomes v and says nothing new by that. *)
Tells(w, v) ==
  /\ v \in Worker /\ v.inc <= regs' /\ Len(v.unsent) <= MaxUnsent
  /\ v.asked \subseteq {j \in Seqs : v.held[j] # NoCall}
  /\ v.inc = worker[w].inc \/ worker[w].inc = NoReg
  /\ \A j \in Seqs : v.held[j] # NoCall => Said(j, v.held[j], v.inc)
  /\ \A i \in 1 .. Len(v.unsent) :
       Said(v.unsent[i].seq, v.unsent[i].call, v.unsent[i].inc)

ReportsTold ==
  /\ reports' \subseteq Report /\ drains' \subseteq Workers
  /\ \A r \in reports' : r \in reports \/ Said(r.seq, r.call, r.inc)

ClaimsTyped == claim' \in [Workers -> [Polls -> Claim]]

(* Who serves no registration has been handed nothing. *)
LEMMA UnregisteredIsIdle ==
  ASSUME Typed, Mentions, NEW w \in Workers, worker[w].inc = NoReg
  PROVE  /\ \A j \in Seqs : worker[w].held[j] = NoCall
         /\ \A k \in Polls : claim[w][k].calls = {}
<1>0. worker[w] \in Worker
  BY DEF Typed, Machines
<1>1. ASSUME NEW j \in Seqs, worker[w].held[j] # NoCall
      PROVE  FALSE
  <2>1. worker[w].held[j] \in Calls /\ worker[w].inc \in Nat
    BY <1>0, <1>1 DEF Worker
  <2>2. Said(j, worker[w].held[j], worker[w].inc)
    BY DEF Said, SaidByWorker
  <2>3. Known(j, worker[w].held[j], worker[w].inc)
    BY <2>1, <2>2 DEF Mentions
  <2> QED
    BY <2>3, RowFacts DEF Known, NoReg
<1>2. ASSUME NEW k \in Polls, NEW i \in claim[w][k].calls
      PROVE  FALSE
  <2>1. Known(i[1], i[2], worker[w].inc)
    BY HandedOverIsKnown
  <2> QED
    BY <2>1, RowFacts DEF Known, NoReg
<1> QED
  BY <1>1, <1>2

LEMMA SaidLess ==
  ASSUME Typed, Mentions, NEW w \in Workers, NEW v, Tells(w, v),
         worker' = [worker EXCEPT ![w] = v], ClaimsLess, ReportsTold,
         NEW j \in Seqs, NEW n \in Calls, NEW inc \in Nat, Said(j, n, inc)'
  PROVE  Said(j, n, inc)
<1>0. /\ worker \in [Workers -> Worker] /\ n # NoCall
  BY BoundsAssumption DEF Typed, Machines, Calls, NoCall
<1>1. CASE SaidByReport(j, n, inc)'
  <2>1. PICK r \in reports' : r.seq = j /\ r.call = n /\ r.inc = inc
    BY <1>1 DEF SaidByReport
  <2>2. CASE r \in reports
    BY <2>1, <2>2 DEF Said, SaidByReport
  <2>3. CASE Said(r.seq, r.call, r.inc)
    BY <2>1, <2>3
  <2> QED
    BY <2>2, <2>3 DEF ReportsTold
<1>2. ASSUME NEW x \in Workers, SaidByWorker(x, j, n, inc)', x # w
      PROVE  SaidByWorker(x, j, n, inc)
  <2>1. worker'[x] = worker[x]
    BY <1>0, <1>2
  <2>2. \A k \in Polls : claim'[x][k].calls \subseteq claim[x][k].calls
    BY DEF ClaimsLess
  <2> QED
    BY <1>2, <2>1, <2>2 DEF SaidByWorker
<1>3. ASSUME SaidByWorker(w, j, n, inc)'
      PROVE  Said(j, n, inc)
  <2>1. worker'[w] = v
    BY <1>0
  <2>2. CASE v.inc = inc /\ v.held[j] = n
    BY <1>0, <2>2 DEF Tells
  <2>3. CASE \E i \in 1 .. Len(v.unsent) : v.unsent[i].seq = j /\ v.unsent[i].call = n /\ v.unsent[i].inc = inc
    BY <2>3, SMTT(60) DEF Tells
  <2>4. CASE v.inc = inc /\ \E k \in Polls : <<j, n>> \in claim'[w][k].calls
    <3>1. PICK k \in Polls : <<j, n>> \in claim[w][k].calls
      BY <2>4 DEF ClaimsLess
    <3>2. worker[w].inc # NoReg
      BY <3>1, UnregisteredIsIdle
    <3>3. v.inc = worker[w].inc
      BY <3>2 DEF Tells
    <3> QED
      BY <2>4, <3>1, <3>3 DEF Said, SaidByWorker
  <2> QED
    BY <1>3, <2>1, <2>2, <2>3, <2>4 DEF SaidByWorker
<1> QED
  BY <1>1, <1>2, <1>3 DEF Said

LEMMA RegsGrow ==
  ASSUME Typed, RowStep
  PROVE  regs' \in Nat /\ regs <= regs'
BY RowFacts DEF RowStep, Moves, Inserts, Registers, Removes

LEMMA WorkerPlaced ==
  ASSUME Typed, RowsKept, Mentions, WorkersKept, RowStep,
         NEW w \in Workers, NEW v, Tells(w, v), worker' = [worker EXCEPT ![w] = v],
         ClaimsTyped, ClaimsLess, ReportsTold
  PROVE  Machines' /\ Mentions' /\ WorkersKept'
<1>0. worker \in [Workers -> Worker] /\ v \in Worker
  BY DEF Typed, Machines, Tells
<1>1. Machines'
  <2>1. worker' \in [Workers -> Worker]
    BY <1>0
  <2> QED
    BY <2>1 DEF Machines, ClaimsTyped, ReportsTold
<1>2. Mentions'
  <2>1. \A x \in Workers : worker'[x].inc <= regs'
    <3>1. \A x \in Workers : worker[x].inc \in Nat /\ worker[x].inc <= regs
      BY <1>0 DEF Mentions, Worker
    <3> QED
      BY <1>0, <3>1, RegsGrow, RowFacts DEF Tells
  <2> QED
    BY <2>1, SaidLess, MentionsStay, RegsGrow
<1>3. WorkersKept'
  <2>1. \A x \in Workers : worker'[x] = IF x = w THEN v ELSE worker[x]
    BY <1>0
  <2> QED
    BY <2>1 DEF WorkersKept, Tells, Running
<1> QED
  BY <1>1, <1>2, <1>3

LEMMA PlainStep ==
  ASSUME Typed, RowsKept, Mentions, RunsOnce, WorkersKept, RowStep, Tables',
         NEW w \in Workers, NEW v, Tells(w, v), worker' = [worker EXCEPT ![w] = v],
         ClaimsTyped, NothingHandedOver, ReportsTold
  PROVE  MachineStep
<1>1. ClaimsLess
  BY DEF NothingHandedOver
<1> QED
  BY <1>1, WorkerPlaced, RunsStay DEF MachineStep

LEMMA TellsSame ==
  ASSUME Typed, RowStep, Mentions, WorkersKept, NEW w \in Workers
  PROVE  Tells(w, worker[w])
<1>1. worker[w] \in Worker
  BY DEF Typed, Machines
<1>2. worker[w].inc <= regs'
  BY <1>1, RegsGrow, RowFacts DEF Mentions, Worker
<1>3. \A i \in 1 .. Len(worker[w].unsent) :
        Said(worker[w].unsent[i].seq, worker[w].unsent[i].call, worker[w].unsent[i].inc)
  BY DEF Said, SaidByWorker
<1>4. \A j \in Seqs : Said(j, worker[w].held[j], worker[w].inc)
  BY DEF Said, SaidByWorker
<1> QED
  BY <1>1, <1>2, <1>3, <1>4 DEF Tells, WorkersKept, Running

LEMMA StillStep ==
  ASSUME Typed, RowsKept, Mentions, RunsOnce, WorkersKept, RowStep, Tables',
         worker' = worker, ClaimsTyped, NothingHandedOver, ReportsTold
  PROVE  MachineStep
<1>1. First \in Workers
  BY WorkerAssumption
<1>2. worker' = [worker EXCEPT ![First] = worker[First]]
  BY DEF Typed, Machines
<1> QED
  BY <1>1, <1>2, TellsSame, PlainStep

(* The invariant, but for what only the theorems need *)
QueueKept == Typed /\ RowsKept /\ Mentions /\ RunsOnce /\ WorkersKept

LEMMA ClaimsSame ==
  ASSUME QueueKept, claim' = claim, hist'.ran = hist.ran
  PROVE  ClaimsTyped /\ NothingHandedOver
BY DEF QueueKept, Typed, Machines, ClaimsTyped, NothingHandedOver, ClaimsLess, RunsOnce

LEMMA ReportsSame ==
  ASSUME QueueKept, UNCHANGED <<reports, drains>>
  PROVE  ReportsTold
BY DEF QueueKept, Typed, Machines, ReportsTold

LEMMA NoClaimTyped == NoClaim \in Claim /\ NoClaim.calls = {}
<1>1. 0 \in 0 .. Limit
  BY BoundsAssumption
<1> QED
  BY <1>1 DEF NoClaim, Claim

LEMMA ClaimPlaced ==
  ASSUME QueueKept, NEW w \in Workers, NEW k \in Polls, NEW c \in Claim, c.calls = {},
         claim' = [claim EXCEPT ![w][k] = c], hist'.ran = hist.ran
  PROVE  ClaimsTyped /\ NothingHandedOver
<1>1. claim \in [Workers -> [Polls -> Claim]]
  BY DEF QueueKept, Typed, Machines
<1>2. ClaimsTyped
  BY <1>1 DEF ClaimsTyped
<1>3. \A x \in Workers, l \in Polls : claim'[x][l] = IF x = w /\ l = k THEN c ELSE claim[x][l]
  BY <1>1
<1>4. NothingHandedOver
  BY <1>3 DEF NothingHandedOver, ClaimsLess, QueueKept, RunsOnce
<1> QED
  BY <1>2, <1>4

LEMMA TellsEdits ==
  ASSUME QueueKept, RowStep, NEW w \in Workers,
         NEW p \in {"off", "up", "draining", "gone"}, NEW b \in BOOLEAN
  PROVE  /\ Tells(w, [worker[w] EXCEPT !.phase = p])
         /\ Tells(w, [worker[w] EXCEPT !.connected = b])
<1>1. worker[w] \in Worker /\ Tells(w, worker[w])
  BY TellsSame DEF QueueKept, Typed, Machines
<1>2. ASSUME NEW v \in Worker, v.inc = worker[w].inc, v.held = worker[w].held,
             v.asked = worker[w].asked, v.unsent = worker[w].unsent
      PROVE  Tells(w, v)
  BY <1>1, <1>2 DEF Tells
<1>3. PICK v : v = [worker[w] EXCEPT !.phase = p]
  OBVIOUS
<1>4. v \in Worker /\ v.inc = worker[w].inc /\ v.held = worker[w].held
      /\ v.asked = worker[w].asked /\ v.unsent = worker[w].unsent
  BY <1>1, <1>3 DEF Worker
<1>5. PICK u : u = [worker[w] EXCEPT !.connected = b]
  OBVIOUS
<1>6. u \in Worker /\ u.inc = worker[w].inc /\ u.held = worker[w].held
      /\ u.asked = worker[w].asked /\ u.unsent = worker[w].unsent
  BY <1>1, <1>5 DEF Worker
<1> QED
  BY <1>2, <1>3, <1>4, <1>5, <1>6

(* Only the process and the budget change. *)
LEMMA ProcessStep ==
  ASSUME QueueKept, NEW w \in Workers, NEW v, RowStep => Tells(w, v),
         worker' = [worker EXCEPT ![w] = v], left' \in [Disturbances -> Nat],
         UNCHANGED <<sat, regs, jobs, deliver, hist>>, ClaimsTyped, NothingHandedOver,
         ReportsTold
  PROVE  MachineStep
<1>1. RowStep
  BY RowsStill DEF SameName, QueueKept
<1>2. Tables'
  BY DEF QueueKept, Typed, Tables
<1> QED
  BY <1>1, <1>2, PlainStep DEF QueueKept

LEMMA StartProcessStep ==
  ASSUME QueueKept, NEW w \in Workers, StartProcess(w)
  PROVE  MachineStep
<1>1. /\ left' = left \/ Spend("second")
      /\ worker' = [worker EXCEPT ![w].phase = "up"]
      /\ UNCHANGED <<sat, regs, jobs, deliver, hist, claim, reports, drains>>
  BY DEF StartProcess
<1>2. left' \in [Disturbances -> Nat]
  BY <1>1, SpendTyped DEF QueueKept, Typed, Tables, Disturbances
<1>3. worker' = [worker EXCEPT ![w] = [worker[w] EXCEPT !.phase = "up"]]
  BY <1>1
<1>4. RowStep => Tells(w, [worker[w] EXCEPT !.phase = "up"])
  BY TellsEdits
<1> QED
  BY <1>1, <1>2, <1>3, <1>4, ClaimsSame, ReportsSame, ProcessStep

(* The name is taken, or served again. *)
LEMMA UpsertStep ==
  ASSUME QueueKept, Upsert, UNCHANGED <<jobs, deliver, hist>>, left' \in [Disturbances -> Nat]
  PROVE  Tables' /\ RowStep /\ sat'.reg \in Nat /\ sat'.reg <= regs'
<1>1. CASE sat.reg = NoReg
  <2>1. regs' = regs + 1 /\ sat' = [NoSatellite EXCEPT !.reg = regs', !.online = TRUE]
    BY <1>1 DEF Upsert
  <2>2. regs' \in Nat
    BY <2>1, RowFacts DEF QueueKept
  <2>3. sat' \in SatRow /\ sat'.reg = regs' /\ sat'.next = 1
    BY <2>1, <2>2, NoSatelliteTyped, Zenon
  <2>4. Tables'
    BY <2>2, <2>3 DEF QueueKept, Typed, Tables
  <2>5. Registers
    BY <1>1, <2>1, <2>3 DEF Registers
  <2> QED
    BY <2>2, <2>3, <2>4, <2>5 DEF RowStep
<1>2. CASE sat.reg # NoReg
  <2>1. sat' = [sat EXCEPT !.online = TRUE] /\ regs' = regs
    BY <1>2 DEF Upsert
  <2>2. sat' \in SatRow /\ SameName(sat, sat')
    BY <2>1, SatEdits, Zenon DEF QueueKept, Typed, Tables
  <2>3. Tables'
    BY <2>1, <2>2 DEF QueueKept, Typed, Tables
  <2>4. RowStep
    BY <2>1, <2>2, RowsStill DEF QueueKept
  <2> QED
    BY <2>1, <2>2, <2>3, <2>4, RowFacts DEF QueueKept, RowsKept, SameName
<1> QED
  BY <1>1, <1>2

LEMMA ConnectFailsStep ==
  ASSUME QueueKept, NEW w \in Workers, ConnectFails(w)
  PROVE  MachineStep
<1>1. Spend("net") /\ Upsert /\ UNCHANGED <<jobs, deliver, hist, worker, claim, reports, drains>>
  BY DEF ConnectFails
<1>2. left' \in [Disturbances -> Nat]
  BY <1>1, SpendTyped DEF QueueKept, Typed, Tables, Disturbances
<1>3. Tables' /\ RowStep
  BY <1>1, <1>2, UpsertStep
<1>4. ClaimsTyped /\ NothingHandedOver /\ ReportsTold
  BY <1>1, ClaimsSame, ReportsSame
<1> QED
  BY <1>1, <1>3, <1>4, StillStep DEF QueueKept

LEMMA ConnectStep ==
  ASSUME QueueKept, NEW w \in Workers, Connect(w)
  PROVE  MachineStep
<1>0. UNCHANGED <<jobs, deliver, hist, left, claim, reports, drains>>
  BY DEF Connect
<1>1. ClaimsTyped /\ NothingHandedOver /\ ReportsTold /\ left' \in [Disturbances -> Nat]
  BY <1>0, ClaimsSame, ReportsSame DEF QueueKept, Typed, Tables
<1>2. CASE /\ worker[w].inc = NoReg /\ Upsert
           /\ worker' = [worker EXCEPT ![w].connected = TRUE, ![w].inc = sat'.reg]
  <2>1. Tables' /\ RowStep /\ sat'.reg \in Nat /\ sat'.reg <= regs'
    BY <1>0, <1>1, <1>2, UpsertStep
  <2>2. worker \in [Workers -> Worker] /\ worker[w] \in Worker
    BY DEF QueueKept, Typed, Machines
  <2>3. PICK v : v = [worker[w] EXCEPT !.connected = TRUE, !.inc = sat'.reg]
    OBVIOUS
  <2>4. /\ v \in Worker /\ v.inc = sat'.reg /\ v.held = worker[w].held
        /\ v.asked = worker[w].asked /\ v.unsent = worker[w].unsent
    BY <2>1, <2>2, <2>3 DEF Worker
  <2>5. \A j \in Seqs : worker[w].held[j] = NoCall
    BY <1>2, UnregisteredIsIdle DEF QueueKept
  <2>6. Tells(w, worker[w])
    BY <2>1, TellsSame DEF QueueKept
  <2>7. Tells(w, v)
    BY <1>2, <2>1, <2>4, <2>5, <2>6 DEF Tells
  <2>8. worker' = [worker EXCEPT ![w] = v]
    BY <1>2, <2>2, <2>3
  <2> QED
    BY <1>1, <2>1, <2>7, <2>8, PlainStep DEF QueueKept
<1>3. CASE /\ sat' = [sat EXCEPT !.online = TRUE] /\ UNCHANGED regs
           /\ worker' = [worker EXCEPT ![w].connected = TRUE]
  <2>1. sat' \in SatRow /\ SameName(sat, sat')
    BY <1>3, SatEdits, Zenon DEF QueueKept, Typed, Tables
  <2>2. Tables'
    BY <1>0, <1>3, <2>1 DEF QueueKept, Typed, Tables
  <2>3. RowStep
    BY <1>0, <1>3, <2>1, RowsStill DEF QueueKept
  <2>4. worker' = [worker EXCEPT ![w] = [worker[w] EXCEPT !.connected = TRUE]]
    BY <1>3
  <2>5. Tells(w, [worker[w] EXCEPT !.connected = TRUE])
    BY <2>3, TellsEdits
  <2> QED
    BY <1>1, <2>2, <2>3, <2>4, <2>5, PlainStep DEF QueueKept
<1>4. CASE /\ worker' = [worker EXCEPT ![w].phase = "draining"]
           /\ UNCHANGED <<sat, regs>>
  <2>1. worker' = [worker EXCEPT ![w] = [worker[w] EXCEPT !.phase = "draining"]]
    BY <1>4
  <2>2. RowStep => Tells(w, [worker[w] EXCEPT !.phase = "draining"])
    BY TellsEdits
  <2> QED
    BY <1>0, <1>1, <1>4, <2>1, <2>2, ProcessStep
<1> QED
  BY <1>2, <1>3, <1>4 DEF Connect

LEMMA OpenClaimStep ==
  ASSUME QueueKept, NEW w \in Workers, NEW k \in Polls, OpenClaim(w, k)
  PROVE  MachineStep
<1>1. /\ claim' = [claim EXCEPT ![w][k] = [NoClaim EXCEPT !.phase = "open", !.capacity = Capacity(w)]]
      /\ UNCHANGED <<sat, regs, jobs, deliver, hist, left, worker, reports, drains>>
  BY DEF OpenClaim
<1>2. Capacity(w) \in 0 .. Limit
  <2>1. IsFiniteSet(Running(w))
    <3>1. IsFiniteSet(Seqs)
      BY BoundsAssumption, FS_Interval DEF Seqs
    <3>2. Running(w) \subseteq Seqs
      BY DEF Running
    <3> QED
      BY <3>1, <3>2, FS_Subset
  <2>2. Cardinality(Running(w)) \in Nat /\ Limit \in Nat
    BY <2>1, FS_CardinalityType, BoundsAssumption
  <2> QED
    BY <2>2 DEF Capacity
<1>3. PICK c : c = [NoClaim EXCEPT !.phase = "open", !.capacity = Capacity(w)]
  OBVIOUS
<1>4. c \in Claim /\ c.calls = {}
  BY <1>2, <1>3, NoClaimTyped DEF Claim
<1>5. ClaimsTyped /\ NothingHandedOver
  BY <1>1, <1>3, <1>4, ClaimPlaced
<1>6. Tables' /\ RowStep
  BY <1>1, RowsStill DEF QueueKept, Typed, Tables, SameName
<1> QED
  BY <1>1, <1>5, <1>6, ReportsSame, StillStep DEF QueueKept

LEMMA ClaimEndsStep ==
  ASSUME QueueKept, NEW w \in Workers, NEW k \in Polls, ClaimEnds(w, k)
  PROVE  MachineStep
<1>1. /\ claim' = [claim EXCEPT ![w][k] = NoClaim]
      /\ UNCHANGED <<sat, regs, jobs, deliver, hist, left, worker, reports, drains>>
  BY DEF ClaimEnds
<1>2. ClaimsTyped /\ NothingHandedOver
  BY <1>1, NoClaimTyped, ClaimPlaced
<1>3. Tables' /\ RowStep
  BY <1>1, RowsStill DEF QueueKept, Typed, Tables, SameName
<1> QED
  BY <1>1, <1>2, <1>3, ReportsSame, StillStep DEF QueueKept

LEMMA ClaimLostStep ==
  ASSUME QueueKept, NEW w \in Workers, NEW k \in Polls, ClaimLost(w, k)
  PROVE  MachineStep
<1>1. /\ claim' = [claim EXCEPT ![w][k] = NoClaim] /\ Spend("net")
      /\ worker' = [worker EXCEPT ![w].connected = FALSE]
      /\ UNCHANGED <<sat, regs, jobs, deliver, hist, reports, drains>>
  BY DEF ClaimLost
<1>2. ClaimsTyped /\ NothingHandedOver
  BY <1>1, NoClaimTyped, ClaimPlaced
<1>3. left' \in [Disturbances -> Nat]
  BY <1>1, SpendTyped DEF QueueKept, Typed, Tables, Disturbances
<1>4. worker' = [worker EXCEPT ![w] = [worker[w] EXCEPT !.connected = FALSE]]
  BY <1>1
<1>5. RowStep => Tells(w, [worker[w] EXCEPT !.connected = FALSE])
  BY TellsEdits
<1> QED
  BY <1>1, <1>2, <1>3, <1>4, <1>5, ReportsSame, ProcessStep

LEMMA ReportOfTyped ==
  ASSUME QueueKept, NEW w \in Workers, NEW j \in Seqs, worker[w].held[j] # NoCall,
         NEW outcome \in {"done", "interrupted", "cancelled"}
  PROVE  /\ ReportOf(w, j, outcome) \in Report
         /\ Said(ReportOf(w, j, outcome).seq, ReportOf(w, j, outcome).call,
                 ReportOf(w, j, outcome).inc)
<1>1. worker[w] \in Worker
  BY DEF QueueKept, Typed, Machines
<1>2. worker[w].held[j] \in Calls /\ worker[w].inc \in Nat
  BY <1>1 DEF Worker
<1>3. Said(j, worker[w].held[j], worker[w].inc)
  BY DEF Said, SaidByWorker
<1> QED
  BY <1>2, <1>3 DEF ReportOf, Report

LEMMA FinishStep ==
  ASSUME QueueKept, NEW w \in Workers, NEW j \in Seqs, Finish(w, j)
  PROVE  MachineStep
<1>1. /\ worker[w].held[j] # NoCall
      /\ \E outcome \in OutcomesOf(w, j) : reports' = reports \cup {ReportOf(w, j, outcome)}
      /\ worker' = [worker EXCEPT ![w].held[j] = NoCall, ![w].asked = @ \ {j}]
      /\ UNCHANGED <<sat, regs, jobs, deliver, hist, left, claim, drains>>
  BY DEF Finish
<1>2. PICK outcome \in {"done", "interrupted", "cancelled"} :
        reports' = reports \cup {ReportOf(w, j, outcome)}
  BY <1>1 DEF OutcomesOf
<1>3. PICK r \in Report : r = ReportOf(w, j, outcome) /\ Said(r.seq, r.call, r.inc)
  BY <1>1, ReportOfTyped
<1>4. ReportsTold
  BY <1>1, <1>2, <1>3 DEF ReportsTold, QueueKept, Typed, Machines
<1>5. worker \in [Workers -> Worker] /\ worker[w] \in Worker
  BY DEF QueueKept, Typed, Machines
<1>6. PICK v : v = [worker[w] EXCEPT !.held[j] = NoCall, !.asked = @ \ {j}]
  OBVIOUS
<1>7. worker' = [worker EXCEPT ![w] = v]
  BY <1>1, <1>5, <1>6
<1>8. /\ v \in Worker /\ v.inc = worker[w].inc /\ v.unsent = worker[w].unsent
      /\ v.held = [worker[w].held EXCEPT ![j] = NoCall] /\ v.asked = worker[w].asked \ {j}
  BY <1>5, <1>6 DEF Worker
<1>9. ASSUME RowStep PROVE Tells(w, v)
  <2>1. Tells(w, worker[w])
    BY <1>9, TellsSame DEF QueueKept
  <2>2. worker[w].held \in [Seqs -> Calls \cup {NoCall}]
    BY <1>5 DEF Worker
  <2>3. \A i \in Seqs : v.held[i] = IF i = j THEN NoCall ELSE worker[w].held[i]
    BY <1>8, <2>2
  <2> QED
    BY <1>8, <2>1, <2>3 DEF Tells
<1>10. left' \in [Disturbances -> Nat]
  BY <1>1 DEF QueueKept, Typed, Tables
<1> QED
  BY <1>1, <1>4, <1>7, <1>9, <1>10, ClaimsSame, ProcessStep

(* A report settles the row of the call it reports, if any. *)
LEMMA SettleReportStep ==
  ASSUME QueueKept, NEW r \in reports, SettleReport(r), UNCHANGED <<sat, regs, hist>>,
         left' \in [Disturbances -> Nat]
  PROVE  Tables' /\ RowStep
<1>1. /\ jobs' = Settled(jobs, ReportRows(r), r.outcome, r.call)
      /\ AnnounceIf(ReportRows(r) # {})
  BY DEF SettleReport
<1>2. /\ r.seq \in Seqs /\ r.call \in Calls /\ r.inc \in Nat
      /\ r.outcome \in {"done", "interrupted", "cancelled"}
  BY DEF QueueKept, Typed, Machines, Report
<1>3. ReportRows(r) \subseteq InStatus(jobs, "running")
  BY DEF ReportRows, Settleable
<1>4. ASSUME NEW j \in ReportRows(r)
      PROVE  r.call \in {NoCall, jobs[j].call}
  <2>1. j = r.seq /\ sat.reg = r.inc /\ jobs[j].status = "running"
    BY DEF ReportRows, Settleable, SameRegistration, InStatus
  <2>2. Said(r.seq, r.call, r.inc)
    BY DEF Said, SaidByReport
  <2>3. Known(r.seq, r.call, r.inc)
    BY <1>2, <2>2 DEF QueueKept, Mentions
  <2> QED
    BY <2>1, <2>3 DEF Known
<1>5. jobs' \in Rows /\ RowStep
  BY <1>1, <1>2, <1>3, <1>4, SettleMoves DEF QueueKept, SameName
<1>6. deliver' \in [Deliveries -> Deliver]
  <2>1. PICK any \in BOOLEAN : any = (ReportRows(r) # {})
    OBVIOUS
  <2>2. AnnounceIf(any)
    BY <1>1, <2>1
  <2> QED
    BY <2>2, AnnounceTyped DEF QueueKept, Typed, Tables
<1>7. Tables'
  BY <1>5, <1>6 DEF QueueKept, Typed, Tables
<1> QED
  BY <1>5, <1>7

LEMMA ReportArrivesStep ==
  ASSUME QueueKept, NEW r \in reports, ReportArrives(r)
  PROVE  MachineStep
<1>1. /\ SettleReport(r) /\ reports' = reports \ {r}
      /\ UNCHANGED <<sat, regs, hist, left, worker, claim, drains>>
  BY DEF ReportArrives
<1>2. left' \in [Disturbances -> Nat]
  BY <1>1 DEF QueueKept, Typed, Tables
<1>3. Tables' /\ RowStep
  BY <1>1, <1>2, SettleReportStep
<1>4. ReportsTold
  BY <1>1 DEF ReportsTold, QueueKept, Typed, Machines
<1> QED
  BY <1>1, <1>3, <1>4, ClaimsSame, StillStep DEF QueueKept

(* The process w keeps the outcomes u, all of them said before. *)
LEMMA TellsUnsent ==
  ASSUME QueueKept, RowStep, NEW w \in Workers, NEW u \in Seq(Report), Len(u) <= MaxUnsent,
         \A i \in 1 .. Len(u) : Said(u[i].seq, u[i].call, u[i].inc)
  PROVE  Tells(w, [worker[w] EXCEPT !.unsent = u])
<1>1. worker[w] \in Worker /\ Tells(w, worker[w])
  BY TellsSame DEF QueueKept, Typed, Machines
<1>2. PICK v : v = [worker[w] EXCEPT !.unsent = u]
  OBVIOUS
<1>3. v \in Worker /\ v.inc = worker[w].inc /\ v.held = worker[w].held
      /\ v.asked = worker[w].asked /\ v.unsent = u
  BY <1>1, <1>2 DEF Worker
<1>4. Tells(w, v)
  BY <1>1, <1>3 DEF Tells
<1> QED
  BY <1>2, <1>4

LEMMA UnsentTyped ==
  ASSUME QueueKept, NEW w \in Workers
  PROVE  /\ worker[w].unsent \in Seq(Report) /\ Len(worker[w].unsent) \in Nat
         /\ Len(worker[w].unsent) <= MaxUnsent /\ MaxUnsent \in Nat \ {0}
         /\ \A i \in 1 .. Len(worker[w].unsent) :
              Said(worker[w].unsent[i].seq, worker[w].unsent[i].call, worker[w].unsent[i].inc)
<1>1. worker[w] \in Worker
  BY DEF QueueKept, Typed, Machines
<1>2. worker[w].unsent \in Seq(Report)
  BY <1>1 DEF Worker
<1>3. \A i \in 1 .. Len(worker[w].unsent) :
        Said(worker[w].unsent[i].seq, worker[w].unsent[i].call, worker[w].unsent[i].inc)
  BY DEF Said, SaidByWorker
<1> QED
  BY <1>2, <1>3, WorkerAssumption, SMTT(60) DEF QueueKept, WorkersKept

LEMMA KeptTyped ==
  ASSUME QueueKept, NEW w \in Workers, NEW r \in Report, Said(r.seq, r.call, r.inc)
  PROVE  /\ Kept(w, r) \in Seq(Report) /\ Len(Kept(w, r)) <= MaxUnsent
         /\ \A i \in 1 .. Len(Kept(w, r)) :
              Said(Kept(w, r)[i].seq, Kept(w, r)[i].call, Kept(w, r)[i].inc)
<1>0. PICK u \in Seq(Report) : u = worker[w].unsent
  BY UnsentTyped
<1>1. /\ Len(u) \in Nat /\ Len(u) <= MaxUnsent /\ MaxUnsent \in Nat \ {0}
      /\ \A i \in 1 .. Len(u) : Said(u[i].seq, u[i].call, u[i].inc)
  BY <1>0, UnsentTyped
<1>2. PICK t \in Seq(Report) : t = IF Len(u) >= MaxUnsent THEN Tail(u) ELSE u
  <2>1. CASE Len(u) >= MaxUnsent
    <3>1. u # <<>>
      BY <1>1, <2>1
    <3>2. Tail(u) \in Seq(Report)
      BY <3>1
    <3> QED
      BY <2>1, <3>2
  <2> QED
    BY <2>1
<1>3. Len(t) \in Nat /\ Len(t) < MaxUnsent /\ \A i \in 1 .. Len(t) : Said(t[i].seq, t[i].call, t[i].inc)
  <2>1. CASE Len(u) >= MaxUnsent
    <3>1. u # <<>> /\ t = Tail(u)
      BY <1>1, <1>2, <2>1
    <3>2. Len(t) = Len(u) - 1 /\ \A i \in 1 .. Len(t) : t[i] = u[i + 1]
      BY <3>1
    <3>3. \A i \in 1 .. Len(t) : i + 1 \in 1 .. Len(u)
      BY <1>1, <3>2
    <3> QED
      BY <1>1, <3>2, <3>3, SMTT(60)
  <2>2. CASE ~(Len(u) >= MaxUnsent)
    BY <1>1, <1>2, <2>2
  <2> QED
    BY <2>1, <2>2
<1>4. Kept(w, r) = Append(t, r)
  BY <1>0, <1>2 DEF Kept
<1>5. /\ Append(t, r) \in Seq(Report) /\ Len(Append(t, r)) = Len(t) + 1
      /\ \A i \in 1 .. Len(t) + 1 : Append(t, r)[i] = IF i = Len(t) + 1 THEN r ELSE t[i]
  OBVIOUS
<1>6. \A i \in 1 .. Len(t) + 1 : i = Len(t) + 1 \/ i \in 1 .. Len(t)
  BY <1>3
<1>7. \A i \in 1 .. Len(t) + 1 : Said(Append(t, r)[i].seq, Append(t, r)[i].call, Append(t, r)[i].inc)
  BY <1>3, <1>5, <1>6
<1> QED
  BY <1>1, <1>3, <1>4, <1>5, <1>7

LEMMA ReportLostStep ==
  ASSUME QueueKept, NEW r \in reports, ReportLost(r)
  PROVE  MachineStep
<1>1. /\ Spend("net") /\ reports' = reports \ {r}
      /\ SettleReport(r) \/ UNCHANGED <<jobs, deliver>>
      /\ worker' = IF Alive(r.from) THEN [worker EXCEPT ![r.from].unsent = Kept(r.from, r)] ELSE worker
      /\ UNCHANGED <<sat, regs, hist, claim, drains>>
  BY DEF ReportLost
<1>2. left' \in [Disturbances -> Nat]
  BY <1>1, SpendTyped DEF QueueKept, Typed, Tables, Disturbances
<1>3. Tables' /\ RowStep
  <2>1. CASE SettleReport(r)
    BY <1>1, <1>2, <2>1, SettleReportStep
  <2>2. CASE UNCHANGED <<jobs, deliver>>
    BY <1>1, <1>2, <2>2, RowsStill DEF QueueKept, Typed, Tables, SameName
  <2> QED
    BY <1>1, <2>1, <2>2
<1>4. ReportsTold
  BY <1>1 DEF ReportsTold, QueueKept, Typed, Machines
<1>5. ClaimsTyped /\ NothingHandedOver
  BY <1>1, ClaimsSame
<1>6. CASE worker' = worker
  BY <1>3, <1>4, <1>5, <1>6, StillStep DEF QueueKept
<1>7. CASE worker' = [worker EXCEPT ![r.from].unsent = Kept(r.from, r)]
  <2>1. r \in Report /\ r.from \in Workers
    BY DEF QueueKept, Typed, Machines, Report
  <2>2. Said(r.seq, r.call, r.inc)
    BY DEF Said, SaidByReport
  <2>3. Tells(r.from, [worker[r.from] EXCEPT !.unsent = Kept(r.from, r)])
    BY <1>3, <2>1, <2>2, KeptTyped, TellsUnsent
  <2>4. worker' = [worker EXCEPT ![r.from] = [worker[r.from] EXCEPT !.unsent = Kept(r.from, r)]]
    BY <1>7
  <2> QED
    BY <1>3, <1>4, <1>5, <2>1, <2>3, <2>4, PlainStep DEF QueueKept
<1> QED
  BY <1>1, <1>6, <1>7

LEMMA HeadSaid ==
  ASSUME QueueKept, NEW w \in Workers, worker[w].unsent # <<>>
  PROVE  LET r == Head(worker[w].unsent)
         IN  r \in Report /\ Said(r.seq, r.call, r.inc)
<1>0. PICK u \in Seq(Report) : u = worker[w].unsent
  BY UnsentTyped
<1>1. u # <<>> /\ Len(u) \in Nat /\ \A i \in 1 .. Len(u) : Said(u[i].seq, u[i].call, u[i].inc)
  BY <1>0, UnsentTyped
<1>2. 1 \in 1 .. Len(u) /\ Head(u) = u[1] /\ Head(u) \in Report
  BY <1>1
<1> QED
  BY <1>0, <1>1, <1>2

LEMMA FlushUnsentStep ==
  ASSUME QueueKept, NEW w \in Workers, FlushUnsent(w)
  PROVE  MachineStep
<1>1. /\ worker[w].unsent # <<>> /\ reports' = reports \cup {Head(worker[w].unsent)}
      /\ worker' = [worker EXCEPT ![w].unsent = Tail(@)]
      /\ UNCHANGED <<sat, regs, jobs, deliver, hist, left, claim, drains>>
  BY DEF FlushUnsent
<1>2. ReportsTold
  BY <1>1, HeadSaid DEF ReportsTold, QueueKept, Typed, Machines
<1>3. PICK u \in Seq(Report) : u = worker[w].unsent
  BY UnsentTyped
<1>4. /\ u # <<>> /\ Len(u) \in Nat /\ Len(u) <= MaxUnsent /\ MaxUnsent \in Nat
      /\ \A i \in 1 .. Len(u) : Said(u[i].seq, u[i].call, u[i].inc)
  BY <1>1, <1>3, UnsentTyped
<1>5. PICK t \in Seq(Report) : t = Tail(u)
  <2>1. Tail(u) \in Seq(Report)
    BY <1>4
  <2> QED
    BY <2>1
<1>6. Len(t) = Len(u) - 1 /\ \A i \in 1 .. Len(t) : t[i] = u[i + 1]
  BY <1>4, <1>5
<1>7. \A i \in 1 .. Len(t) : i + 1 \in 1 .. Len(u)
  BY <1>4, <1>6
<1>8. Len(t) <= MaxUnsent /\ \A i \in 1 .. Len(t) : Said(t[i].seq, t[i].call, t[i].inc)
  BY <1>4, <1>6, <1>7
<1>9. RowStep => Tells(w, [worker[w] EXCEPT !.unsent = t])
  BY <1>8, TellsUnsent
<1>10. worker' = [worker EXCEPT ![w] = [worker[w] EXCEPT !.unsent = t]]
  BY <1>1, <1>3, <1>5
<1>11. left' \in [Disturbances -> Nat]
  BY <1>1 DEF QueueKept, Typed, Tables
<1> QED
  BY <1>1, <1>2, <1>9, <1>10, <1>11, ClaimsSame, ProcessStep

LEMMA HeartbeatStep ==
  ASSUME QueueKept, NEW w \in Workers, Heartbeat(w)
  PROVE  MachineStep
<1>1. /\ sat' = [sat EXCEPT !.online = TRUE]
      /\ jobs' = [j \in Seqs |-> IF j \in Lapsed(w) THEN [jobs[j] EXCEPT !.lease = "live"] ELSE jobs[j]]
      /\ UNCHANGED <<regs, deliver, hist, left>> /\ UNCHANGED workerVars
  BY DEF Heartbeat, Updated
<1>2. sat' \in SatRow /\ SameName(sat, sat')
  BY <1>1, SatEdits, Zenon DEF QueueKept, Typed, Tables
<1>3. \A j \in Seqs : jobs[j] \in Job
  BY DEF QueueKept, Typed, Tables, Rows
<1>4. \A j \in Seqs : [jobs[j] EXCEPT !.lease = "live"] \in Job
  BY <1>3 DEF Job
<1>5. \A j \in Seqs : SameCore([jobs[j] EXCEPT !.lease = "live"], jobs[j])
  BY <1>3, RowCore
<1>6. jobs' \in Rows
  BY <1>1, <1>3, <1>4 DEF Rows
<1>7. \A j \in Seqs : jobs'[j] = [jobs[j] EXCEPT !.lease = "live"] \/ jobs'[j] = jobs[j]
  BY <1>1
<1>8. \A j \in Seqs : SameCore(jobs'[j], jobs[j])
  BY <1>5, <1>7, SameCoreSame, Zenon
<1>9. RowStep
  BY <1>1, <1>2, <1>8, CoresStill DEF QueueKept
<1>10. Tables'
  BY <1>1, <1>2, <1>6 DEF QueueKept, Typed, Tables
<1>11. ClaimsTyped /\ NothingHandedOver /\ ReportsTold /\ worker' = worker
  BY <1>1, ClaimsSame, ReportsSame DEF workerVars
<1> QED
  BY <1>9, <1>10, <1>11, StillStep DEF QueueKept

LEMMA DrainStep ==
  ASSUME QueueKept, NEW w \in Workers, Drain(w)
  PROVE  MachineStep
<1>1. /\ Spend("stop") /\ worker' = [worker EXCEPT ![w].phase = "draining"]
      /\ drains' = drains \cup {w}
      /\ UNCHANGED <<sat, regs, jobs, deliver, hist, claim, reports>>
  BY DEF Drain
<1>2. left' \in [Disturbances -> Nat]
  BY <1>1, SpendTyped DEF QueueKept, Typed, Tables, Disturbances
<1>3. worker' = [worker EXCEPT ![w] = [worker[w] EXCEPT !.phase = "draining"]]
  BY <1>1
<1>4. RowStep => Tells(w, [worker[w] EXCEPT !.phase = "draining"])
  BY TellsEdits
<1>5. ReportsTold
  BY <1>1 DEF ReportsTold, QueueKept, Typed, Machines
<1> QED
  BY <1>1, <1>2, <1>3, <1>4, <1>5, ClaimsSame, ProcessStep

LEMMA DrainEndsStep ==
  ASSUME QueueKept, NEW w \in Workers, DrainArrives(w) \/ DrainLost(w)
  PROVE  MachineStep
<1>1. /\ left' = left \/ Spend("net")
      /\ sat' = sat \/ sat' = [sat EXCEPT !.draining = TRUE, !.online = TRUE]
      /\ drains' = drains \ {w}
      /\ UNCHANGED <<regs, jobs, deliver, hist, worker, claim, reports>>
  BY DEF DrainArrives, DrainLost
<1>2. left' \in [Disturbances -> Nat]
  BY <1>1, SpendTyped DEF QueueKept, Typed, Tables, Disturbances
<1>3. sat' \in SatRow /\ SameName(sat, sat')
  <2>1. sat \in SatRow /\ SameName(sat, sat)
    BY DEF QueueKept, Typed, Tables, SameName
  <2> QED
    BY <1>1, <2>1, SatEdits, Zenon
<1>4. Tables'
  BY <1>1, <1>2, <1>3 DEF QueueKept, Typed, Tables
<1>5. RowStep
  BY <1>1, <1>3, RowsStill DEF QueueKept
<1>6. ReportsTold
  BY <1>1 DEF ReportsTold, QueueKept, Typed, Machines
<1> QED
  BY <1>1, <1>4, <1>5, <1>6, ClaimsSame, StillStep DEF QueueKept

(* A process that has ended says nothing any more. *)
LEMMA GoneStep ==
  ASSUME QueueKept, NEW w \in Workers, worker' = Gone(w),
         left' = left \/ (\E d \in Disturbances : Spend(d)),
         UNCHANGED <<sat, regs, jobs, deliver, hist, claim>>, ReportsTold
  PROVE  MachineStep
<1>0. worker[w] \in Worker /\ worker[w].inc \in Nat
  BY DEF QueueKept, Typed, Machines, Worker
<1>1. PICK v : v = [NoWorker EXCEPT !.phase = "gone", !.inc = worker[w].inc]
  OBVIOUS
<1>2. worker' = [worker EXCEPT ![w] = v]
  BY <1>1 DEF Gone
<1>3. /\ v \in Worker /\ v.inc = worker[w].inc /\ v.asked = {} /\ v.unsent = <<>>
      /\ v.held = [j \in Seqs |-> NoCall]
  <2>1. <<>> \in Seq(Report)
    OBVIOUS
  <2>2. [j \in Seqs |-> NoCall] \in [Seqs -> Calls \cup {NoCall}]
    OBVIOUS
  <2> QED
    BY <1>0, <1>1, <2>1, <2>2 DEF NoWorker, Worker, NoReg
<1>4. ASSUME RowStep PROVE Tells(w, v)
  <2>1. Tells(w, worker[w])
    BY <1>4, TellsSame DEF QueueKept
  <2>2. Len(v.unsent) = 0 /\ MaxUnsent \in Nat
    BY <1>3, WorkerAssumption
  <2>3. \A j \in Seqs : v.held[j] = NoCall
    BY <1>3
  <2> QED
    BY <1>3, <2>1, <2>2, <2>3 DEF Tells
<1>5. left' \in [Disturbances -> Nat]
  BY SpendTyped DEF QueueKept, Typed, Tables
<1> QED
  BY <1>2, <1>4, <1>5, ClaimsSame, ProcessStep

LEMMA ExitStep ==
  ASSUME QueueKept, NEW w \in Workers, Exit(w)
  PROVE  MachineStep
<1>1. /\ reports' = reports \cup LastReport(w) /\ worker' = Gone(w)
      /\ UNCHANGED <<sat, regs, jobs, deliver, hist, left, claim, drains>>
  BY DEF Exit
<1>2. \A r \in LastReport(w) : r \in Report /\ Said(r.seq, r.call, r.inc)
  BY HeadSaid DEF LastReport
<1>3. ReportsTold
  BY <1>1, <1>2 DEF ReportsTold, QueueKept, Typed, Machines
<1> QED
  BY <1>1, <1>3, GoneStep

LEMMA ForceStopStep ==
  ASSUME QueueKept, NEW w \in Workers, ForceStop(w)
  PROVE  MachineStep
<1>1. /\ Spend("stop") /\ worker' = Gone(w)
      /\ reports' = reports \cup {ReportOf(w, j, "interrupted") : j \in Running(w)}
      /\ UNCHANGED <<sat, regs, jobs, deliver, hist, claim, drains>>
  BY DEF ForceStop
<1>2. \A r \in {ReportOf(w, j, "interrupted") : j \in Running(w)} :
        r \in Report /\ Said(r.seq, r.call, r.inc)
  BY ReportOfTyped DEF Running
<1>3. ReportsTold
  BY <1>1, <1>2 DEF ReportsTold, QueueKept, Typed, Machines
<1> QED
  BY <1>1, <1>3, GoneStep DEF Disturbances

LEMMA KillStep ==
  ASSUME QueueKept, NEW w \in Workers, Kill(w)
  PROVE  MachineStep
<1>1. /\ Spend("kill") /\ worker' = Gone(w)
      /\ UNCHANGED <<sat, regs, jobs, deliver, hist, claim, reports, drains>>
  BY DEF Kill
<1> QED
  BY <1>1, ReportsSame, GoneStep DEF Disturbances

---------------------------------------------------------------------------
(* The handover *)

LEMMA AskedTyped ==
  ASSUME QueueKept, NEW w \in Workers, NEW cancels
  PROVE  Asked(w, cancels).asked = worker[w].asked \cup (cancels \cap Running(w))
BY DEF Asked, QueueKept, Typed, Machines, Worker

(* What the process w runs once it has the answer of its poll k *)
RunsNow(w, k) ==
  [Started(w, claim[w][k].calls) EXCEPT !.asked = Asked(w, claim[w][k].cancels).asked]

LEMMA StartedTells ==
  ASSUME QueueKept, RowStep, NEW w \in Workers, NEW k \in Polls
  PROVE  Tells(w, RunsNow(w, k))
<1>1. worker[w] \in Worker /\ Tells(w, worker[w]) /\ claim[w][k] \in Claim
  BY TellsSame DEF QueueKept, Typed, Machines
<1>2. PICK items \in SUBSET (Seqs \X Calls) : items = claim[w][k].calls
  BY <1>1 DEF Claim
<1>3. PICK held : held = [j \in Seqs |->
        IF \E i \in items : i[1] = j THEN (CHOOSE i \in items : i[1] = j)[2]
        ELSE worker[w].held[j]]
  OBVIOUS
<1>4. ASSUME NEW j \in Seqs
      PROVE  /\ held[j] \in Calls \cup {NoCall}
             /\ held[j] # NoCall => Said(j, held[j], worker[w].inc)
             /\ worker[w].held[j] # NoCall => held[j] # NoCall
  <2>1. CASE \E i \in items : i[1] = j
    <3>1. PICK i \in items : i[1] = j /\ held[j] = i[2]
      <4>1. /\ (CHOOSE i \in items : i[1] = j) \in items
            /\ (CHOOSE i \in items : i[1] = j)[1] = j
        BY <2>1, Zenon
      <4>2. held[j] = (CHOOSE i \in items : i[1] = j)[2]
        BY <1>3, <2>1
      <4> QED
        BY <4>1, <4>2
    <3>2. i = <<j, held[j]>> /\ held[j] \in Calls
      BY <1>2, <3>1
    <3>3. held[j] # NoCall
      BY <3>2, BoundsAssumption DEF Calls, NoCall
    <3>4. Said(j, held[j], worker[w].inc)
      BY <1>2, <3>1, <3>2 DEF Said, SaidByWorker
    <3> QED
      BY <3>2, <3>3, <3>4
  <2>2. CASE ~\E i \in items : i[1] = j
    <3>1. held[j] = worker[w].held[j]
      BY <1>3, <2>2
    <3> QED
      BY <1>1, <3>1 DEF Tells, Worker
  <2> QED
    BY <2>1, <2>2
<1>5. held \in [Seqs -> Calls \cup {NoCall}]
  BY <1>3, <1>4
<1>6. PICK asked : asked = worker[w].asked \cup (claim[w][k].cancels \cap Running(w))
  OBVIOUS
<1>7. asked \subseteq {j \in Seqs : held[j] # NoCall}
  BY <1>1, <1>4, <1>6 DEF Tells, Running
<1>8. PICK v : v = [worker[w] EXCEPT !.held = held, !.asked = asked]
  OBVIOUS
<1>9. RunsNow(w, k) = v
  <2>1. Started(w, items) = [worker[w] EXCEPT !.held = held]
    BY <1>3 DEF Started
  <2>2. RunsNow(w, k) = [Started(w, items) EXCEPT !.asked = asked]
    BY <1>2, <1>6, AskedTyped DEF RunsNow
  <2> QED
    BY <1>1, <1>8, <2>1, <2>2 DEF Worker
<1>10. /\ v \in Worker /\ v.inc = worker[w].inc /\ v.held = held
       /\ v.asked = asked /\ v.unsent = worker[w].unsent
  BY <1>1, <1>5, <1>7, <1>8 DEF Worker
<1>11. Tells(w, v)
  BY <1>1, <1>4, <1>7, <1>10 DEF Tells
<1> QED
  BY <1>9, <1>11

LEMMA AskedTells ==
  ASSUME QueueKept, RowStep, NEW w \in Workers, NEW cancels
  PROVE  Tells(w, Asked(w, cancels))
<1>1. worker[w] \in Worker /\ Tells(w, worker[w])
  BY TellsSame DEF QueueKept, Typed, Machines
<1>2. PICK asked : asked = worker[w].asked \cup (cancels \cap Running(w))
  OBVIOUS
<1>3. asked \subseteq {j \in Seqs : worker[w].held[j] # NoCall}
  BY <1>1, <1>2 DEF Tells, Running
<1>4. PICK v : v = [worker[w] EXCEPT !.asked = asked]
  OBVIOUS
<1>5. Asked(w, cancels) = v
  BY <1>2, <1>4 DEF Asked
<1>6. /\ v \in Worker /\ v.inc = worker[w].inc /\ v.held = worker[w].held
      /\ v.asked = asked /\ v.unsent = worker[w].unsent
  BY <1>1, <1>3, <1>4 DEF Worker
<1>7. Tells(w, v)
  BY <1>1, <1>3, <1>6 DEF Tells
<1> QED
  BY <1>5, <1>7

LEMMA ClaimAnsweredStep ==
  ASSUME QueueKept, NEW w \in Workers, NEW k \in Polls, ClaimAnswered(w, k)
  PROVE  MachineStep
<1>0. /\ claim' = [claim EXCEPT ![w][k] = NoClaim]
      /\ UNCHANGED <<sat, regs, jobs, deliver, left, reports, drains>>
  BY DEF ClaimAnswered
<1>1. left' \in [Disturbances -> Nat] /\ ReportsTold
  BY <1>0, ReportsSame DEF QueueKept, Typed, Tables
<1>2. CASE UNCHANGED <<worker, hist>>
  <2>1. ClaimsTyped /\ NothingHandedOver
    BY <1>0, <1>2, NoClaimTyped, ClaimPlaced
  <2>2. Tables' /\ RowStep
    BY <1>0, <1>2, RowsStill DEF QueueKept, Typed, Tables, SameName
  <2> QED
    BY <1>1, <1>2, <2>1, <2>2, StillStep DEF QueueKept
<1>3. CASE worker' = [worker EXCEPT ![w].phase = "draining"] /\ UNCHANGED hist
  <2>1. ClaimsTyped /\ NothingHandedOver
    BY <1>0, <1>3, NoClaimTyped, ClaimPlaced
  <2>2. worker' = [worker EXCEPT ![w] = [worker[w] EXCEPT !.phase = "draining"]]
    BY <1>3
  <2>3. RowStep => Tells(w, [worker[w] EXCEPT !.phase = "draining"])
    BY TellsEdits
  <2> QED
    BY <1>0, <1>1, <1>3, <2>1, <2>2, <2>3, ProcessStep
<1>4. CASE worker' = [worker EXCEPT ![w] = Asked(w, claim[w][k].cancels)] /\ UNCHANGED hist
  <2>1. ClaimsTyped /\ NothingHandedOver
    BY <1>0, <1>4, NoClaimTyped, ClaimPlaced
  <2>2. RowStep => Tells(w, Asked(w, claim[w][k].cancels))
    BY AskedTells
  <2> QED
    BY <1>0, <1>1, <1>4, <2>1, <2>2, ProcessStep
<1>5. CASE /\ worker' = [worker EXCEPT ![w] = RunsNow(w, k)]
           /\ hist' = [hist EXCEPT !.ran = [n \in Calls |->
                IF n \in {i[2] : i \in claim[w][k].calls} THEN @[n] + 1 ELSE @[n]]]
  <2>0. hist \in History /\ claim \in [Workers -> [Polls -> Claim]] /\ claim[w][k] \in Claim
    BY DEF QueueKept, Typed, Tables, Machines
  <2>1. PICK ran : ran = [n \in Calls |->
          IF HandedOver(n, w, k) THEN hist.ran[n] + 1 ELSE hist.ran[n]]
    OBVIOUS
  <2>2. hist' = [hist EXCEPT !.ran = ran]
    <3>1. \A n \in Calls : n \in {i[2] : i \in claim[w][k].calls} <=> HandedOver(n, w, k)
      BY DEF HandedOver
    <3>2. ran = [n \in Calls |-> IF n \in {i[2] : i \in claim[w][k].calls}
                                 THEN hist.ran[n] + 1 ELSE hist.ran[n]]
      BY <2>1, <3>1
    <3> QED
      BY <1>5, <3>2
  <2>3. hist.ran \in [Calls -> Nat]
    BY <2>0 DEF History
  <2>4. ran \in [Calls -> Nat]
    BY <2>1, <2>3
  <2>5. hist' \in History /\ hist'.calls = hist.calls /\ hist'.ran = ran
    BY <2>0, <2>2, <2>4 DEF History
  <2>6. Tables' /\ RowStep
    BY <1>0, <2>5, RowsStill DEF QueueKept, Typed, Tables, SameName
  <2>7. ClaimsTyped /\ \A x \in Workers, l \in Polls :
                          claim'[x][l] = IF x = w /\ l = k THEN NoClaim ELSE claim[x][l]
    BY <1>0, <2>0, NoClaimTyped DEF ClaimsTyped
  <2>8. ClaimsLess
    BY <2>7, NoClaimTyped DEF ClaimsLess, QueueKept, RunsOnce
  <2>9. Machines' /\ Mentions' /\ WorkersKept'
    BY <1>1, <1>5, <2>6, <2>7, <2>8, StartedTells, WorkerPlaced DEF QueueKept
  <2>10. RunsOnce'
    <3>1. \A n, x, l : x \in Workers /\ l \in Polls /\ HandedOver(n, x, l)' =>
            HandedOver(n, x, l) /\ ~(x = w /\ l = k)
      BY <2>7, NoClaimTyped DEF HandedOver
    <3>2. ASSUME NEW n \in Calls, HandedOver(n, w, k)
          PROVE  hist.ran[n] = 0 /\ n <= hist.calls
      <4>1. PICK i \in claim[w][k].calls : i[2] = n
        BY <3>2 DEF HandedOver
      <4>2. Known(i[1], i[2], worker[w].inc)
        BY HandedOverIsKnown DEF QueueKept
      <4> QED
        BY <3>2, <4>1, <4>2, RowFacts DEF QueueKept, RunsOnce, Known
    <3>3. \A n \in Calls : n \in Nat
      BY BoundsAssumption DEF Calls
    <3>4. \A n \in Calls : ran[n] <= 1 /\ (n > hist'.calls => ran[n] = 0)
      BY <2>1, <2>3, <2>5, <3>2, <3>3, RowFacts DEF QueueKept, RunsOnce
    <3>5. \A n \in Calls, x \in Workers, l \in Polls : HandedOver(n, x, l)' =>
            /\ ran[n] = 0
            /\ \A v \in Workers, m \in Polls : HandedOver(n, v, m)' => v = x /\ m = l
      <4>1. SUFFICES ASSUME NEW n \in Calls, NEW x \in Workers, NEW l \in Polls, HandedOver(n, x, l)'
                     PROVE  /\ ran[n] = 0
                            /\ \A v \in Workers, m \in Polls : HandedOver(n, v, m)' => v = x /\ m = l
        OBVIOUS
      <4>2. HandedOver(n, x, l) /\ ~(x = w /\ l = k)
        BY <3>1, <4>1
      <4>3. hist.ran[n] = 0 /\ \A v \in Workers, m \in Polls : HandedOver(n, v, m) => v = x /\ m = l
        BY <4>2 DEF QueueKept, RunsOnce
      <4>4. ~HandedOver(n, w, k)
        BY <4>2, <4>3
      <4> QED
        BY <2>1, <3>1, <4>3, <4>4
    <3>6. ASSUME NEW j \in Present(jobs), jobs[j].status = "queued" \/ jobs[j].unstarted
          PROVE  /\ ran[jobs[j].call] = 0
                 /\ \A x \in Workers, l \in Polls : ~HandedOver(jobs[j].call, x, l)'
      <4>1. /\ hist.ran[jobs[j].call] = 0
            /\ \A x \in Workers, l \in Polls : ~HandedOver(jobs[j].call, x, l)
        BY <3>6 DEF QueueKept, RunsOnce
      <4>2. jobs[j].call \in Calls
        BY RowFacts DEF QueueKept, RowsKept, RowKept, Present, Calls
      <4>3. ran[jobs[j].call] = 0
        BY <2>1, <4>1, <4>2
      <4> QED
        BY <1>0, <3>1, <4>1, <4>3
    <3> QED
      BY <1>0, <2>5, <2>8, <3>4, <3>5, <3>6 DEF RunsOnce, ClaimsLess
  <2> QED
    BY <2>6, <2>9, <2>10 DEF MachineStep
<1> QED
  BY <1>2, <1>3, <1>4, <1>5 DEF ClaimAnswered, RunsNow

LEMMA ClaimRefusedStep ==
  ASSUME QueueKept, NEW w \in Workers, NEW k \in Polls, claim[w][k].phase = "open",
         claim' = [claim EXCEPT ![w][k].phase = "answer", ![w][k].removed = TRUE],
         UNCHANGED <<sat, jobs, regs, deliver, hist, left, worker, reports, drains>>
  PROVE  MachineStep
<1>1. claim \in [Workers -> [Polls -> Claim]] /\ claim[w][k] \in Claim
  BY DEF QueueKept, Typed, Machines
<1>2. PICK c : c = [claim[w][k] EXCEPT !.phase = "answer", !.removed = TRUE]
  OBVIOUS
<1>3. c \in Claim /\ c.calls = claim[w][k].calls
  BY <1>1, <1>2 DEF Claim
<1>4. claim[w][k].calls = {}
  BY DEF QueueKept, RunsOnce
<1>5. claim' = [claim EXCEPT ![w][k] = c]
  BY <1>1, <1>2
<1>6. ClaimsTyped /\ NothingHandedOver
  <2>1. c.calls = {} /\ hist'.ran = hist.ran
    BY <1>3, <1>4
  <2> QED
    BY <1>3, <1>5, <2>1, ClaimPlaced, ZenonT(120)
<1>7. Tables' /\ RowStep
  BY RowsStill DEF QueueKept, Typed, Tables, SameName
<1> QED
  BY <1>6, <1>7, ReportsSame, StillStep DEF QueueKept

(* Claimed rows and nothing else change their core. *)
LEMMA ClaimMoves ==
  ASSUME QueueKept, NEW cancels, NEW S, S \subseteq InStatus(jobs, "queued"),
         jobs' = Claimed(CancelSent(jobs, cancels), S),
         regs' = regs, SameName(sat, sat'), hist'.calls = hist.calls
  PROVE  /\ jobs' \in Rows /\ RowStep
         /\ \A j \in Seqs \ S : SameCore(jobs'[j], jobs[j])
         /\ \A j \in Seqs : jobs'[j].call = jobs[j].call
         /\ \A j \in S : jobs'[j].status = "running" /\ ~jobs'[j].unstarted
<1>0. jobs \in Rows
  BY DEF QueueKept, Typed, Tables
<1>1. PICK u \in Rows : /\ u = CancelSent(jobs, cancels)
                        /\ \A j \in Seqs : SameCore(u[j], jobs[j])
  BY <1>0, CancelSentRows
<1>2. jobs' = Claimed(u, S)
  BY <1>1
<1>3. jobs' \in Rows /\ \A j \in Seqs \ S : jobs'[j] = u[j]
  BY <1>2, ClaimedRows
<1>4. \A j \in Seqs \ S : SameCore(jobs'[j], jobs[j])
  BY <1>1, <1>3
<1>5. ASSUME NEW j \in S
      PROVE  /\ jobs[j].status = "queued" /\ ~jobs[j].unstarted /\ j \in Seqs
             /\ jobs'[j].status = "running" /\ jobs'[j].call = jobs[j].call
             /\ jobs'[j].of = jobs[j].of /\ ~jobs'[j].unstarted
  <2>1. j \in Seqs /\ jobs[j].status = "queued" /\ RowKept(j)
    BY DEF InStatus, QueueKept, RowsKept
  <2>2. ~jobs[j].unstarted
    BY <2>1 DEF RowKept
  <2>3. u[j] \in Job /\ u[j].call = jobs[j].call /\ u[j].of = jobs[j].of /\ ~u[j].unstarted
    BY <1>1, <2>1, <2>2 DEF Rows, SameCore
  <2>4. jobs'[j] = ClaimedRow(u[j])
    BY <1>2, <2>1, ClaimedRows
  <2>5. /\ ClaimedRow(u[j]).status = "running" /\ ClaimedRow(u[j]).call = u[j].call
        /\ ClaimedRow(u[j]).of = u[j].of /\ ClaimedRow(u[j]).unstarted = u[j].unstarted
    BY <2>3, ClaimedRowIsJob
  <2>6. ~jobs'[j].unstarted
    BY <2>3, <2>4, <2>5, Zenon
  <2> QED
    BY <2>1, <2>2, <2>3, <2>4, <2>5, <2>6
<1>6. ASSUME NEW j \in Seqs
      PROVE  RowMoves(jobs[j], jobs'[j])
  <2>1. CASE j \notin S
    BY <1>4, <2>1 DEF RowMoves
  <2>2. CASE j \in S
    <3>1. RowKept(j)
      BY DEF QueueKept, RowsKept
    <3> QED
      BY <1>5, <2>2, <3>1 DEF RowMoves, RowKept
  <2> QED
    BY <2>1, <2>2
<1>7. RowStep
  BY <1>6 DEF RowStep, Moves, SameName
<1>8. \A j \in Seqs : jobs'[j].call = jobs[j].call
  BY <1>4, <1>5 DEF SameCore
<1> QED
  BY <1>3, <1>4, <1>5, <1>7, <1>8

(* A round that finds cancellations and the jobs of S *)
Round(w, k, cancels, S) ==
  /\ S \subseteq InStatus(jobs, "queued") /\ cancels \subseteq Seqs
  /\ claim[w][k].phase = "open" /\ sat.reg = worker[w].inc
  /\ sat' = Touched /\ jobs' = Claimed(CancelSent(jobs, cancels), S)
  /\ claim' = [claim EXCEPT
       ![w][k].phase = IF cancels # {} \/ S # {} THEN "answer" ELSE "open",
       ![w][k].calls = {<<j, jobs[j].call>> : j \in S}, ![w][k].cancels = cancels]
  /\ UNCHANGED <<regs, deliver, hist, left, worker, reports, drains>>

(* What is handed over was waiting: it is its first time, and in no other  *)
(* answer.                                                                 *)
LEMMA HandsOver ==
  ASSUME QueueKept, NEW w \in Workers, NEW k \in Polls, NEW cancels, NEW S,
         Round(w, k, cancels, S)
  PROVE  MachineStep
<1>a. /\ S \subseteq InStatus(jobs, "queued") /\ cancels \subseteq Seqs
      /\ claim[w][k].phase = "open" /\ sat.reg = worker[w].inc
  BY Zenon DEF Round
<1>b. /\ regs' = regs /\ hist' = hist /\ worker' = worker /\ deliver' = deliver
      /\ left' = left /\ reports' = reports /\ drains' = drains
  BY Zenon DEF Round
<1>0. /\ claim \in [Workers -> [Polls -> Claim]] /\ claim[w][k] \in Claim
      /\ claim[w][k].calls = {} /\ hist \in History /\ worker \in [Workers -> Worker]
  BY <1>a DEF QueueKept, Typed, Machines, Tables, RunsOnce
<1>1. sat' \in SatRow /\ SameName(sat, sat')
  BY SatEdits, Zenon DEF QueueKept, Typed, Tables, Touched, Round
<1>2. /\ jobs' \in Rows /\ RowStep
      /\ \A j \in Seqs \ S : SameCore(jobs'[j], jobs[j])
      /\ \A j \in Seqs : jobs'[j].call = jobs[j].call
      /\ \A j \in S : jobs'[j].status = "running" /\ ~jobs'[j].unstarted
  <2>1. regs' = regs /\ hist'.calls = hist.calls
    BY <1>b
  <2>2. jobs' = Claimed(CancelSent(jobs, cancels), S)
    BY Zenon DEF Round
  <2> QED
    BY <1>a, <1>1, <2>1, <2>2, ClaimMoves
<1>3. Tables'
  BY <1>b, <1>1, <1>2 DEF QueueKept, Typed, Tables
<1>4. ASSUME NEW j \in S
      PROVE  /\ j \in Seqs /\ jobs[j].status = "queued" /\ j < sat.next /\ sat.reg # NoReg
             /\ jobs[j].call \in Calls /\ jobs[j].call \in 1 .. hist.calls
             /\ Untouched(jobs[j].call)
  <2>1. j \in Seqs /\ jobs[j].status = "queued" /\ RowKept(j) /\ j \in Present(jobs)
    BY <1>a DEF InStatus, QueueKept, RowsKept, Present
  <2>2. j < sat.next /\ jobs[j].call \in 1 .. hist.calls
    BY <2>1 DEF RowKept
  <2>3. jobs[j].call \in Calls
    BY <2>2, RowFacts DEF QueueKept, Calls
  <2>4. sat.reg # NoReg
    BY <2>1, <2>2, RowFacts DEF QueueKept, RowsKept, Seqs
  <2>5. Untouched(jobs[j].call)
    BY <2>1 DEF QueueKept, RunsOnce, Untouched
  <2> QED
    BY <2>1, <2>2, <2>3, <2>4, <2>5
<1>5. PICK items : items = {<<j, jobs[j].call>> : j \in S}
  OBVIOUS
<1>6. items \subseteq Seqs \X Calls
  BY <1>4, <1>5
<1>7. PICK c : c = [claim[w][k] EXCEPT
         !.phase = IF cancels # {} \/ S # {} THEN "answer" ELSE "open",
         !.calls = items, !.cancels = cancels]
  BY Zenon
<1>8. c \in Claim /\ c.calls = items /\ c.phase = IF cancels # {} \/ S # {} THEN "answer" ELSE "open"
  BY <1>a, <1>0, <1>6, <1>7, Zenon DEF Claim
<1>9. claim' = [claim EXCEPT ![w][k] = c]
  BY <1>0, <1>5, <1>7, ZenonT(120) DEF Round
<1>10. claim' \in [Workers -> [Polls -> Claim]]
  BY <1>0, <1>8, <1>9
<1>11. \A x \in Workers, l \in Polls : claim'[x][l] = IF x = w /\ l = k THEN c ELSE claim[x][l]
  BY <1>0, <1>9
<1>12. Machines'
  BY <1>b, <1>10 DEF QueueKept, Typed, Machines
<1>13. WorkersKept'
  BY <1>b DEF QueueKept, WorkersKept, Running
<1>14. Mentions'
  <2>1. \A x \in Workers : worker'[x].inc <= regs'
    BY <1>b DEF QueueKept, Mentions
  <2>2. ASSUME NEW j \in Seqs, NEW n \in Calls, NEW inc \in Nat, Said(j, n, inc)'
        PROVE  Said(j, n, inc) \/ Known(j, n, inc)'
    <3>1. CASE SaidByReport(j, n, inc)'
      BY <1>b, <3>1 DEF Said, SaidByReport
    <3>2. ASSUME NEW x \in Workers, SaidByWorker(x, j, n, inc)',
                 ~(x = w /\ worker[w].inc = inc /\ <<j, n>> \in items)
          PROVE  SaidByWorker(x, j, n, inc)
      <4>1. \A l \in Polls : <<j, n>> \in claim'[x][l].calls =>
               <<j, n>> \in claim[x][l].calls \/ (x = w /\ <<j, n>> \in items)
        BY <1>8, <1>11
      <4> QED
        BY <1>b, <3>2, <4>1 DEF SaidByWorker
    <3>3. ASSUME <<j, n>> \in items, worker[w].inc = inc
          PROVE  Known(j, n, inc)'
      <4>1. PICK i \in S : <<j, n>> = <<i, jobs[i].call>>
        BY <1>5, <3>3
      <4>2. j \in S /\ n = jobs[j].call
        BY <4>1
      <4>3. j < sat.next /\ n \in 1 .. hist.calls /\ sat.reg # NoReg
        BY <1>4, <4>2
      <4>4. sat.reg \in 1 .. regs
        BY <4>3, RowFacts DEF QueueKept, RowsKept, NoReg
      <4>5. jobs'[j].call = n /\ sat'.next = sat.next /\ sat'.reg = sat.reg /\ regs' = regs
            /\ hist'.calls = hist.calls
        BY <1>b, <1>1, <1>2, <4>2 DEF SameName
      <4> QED
        BY <1>a, <3>3, <4>3, <4>4, <4>5 DEF Known
    <3> QED
      BY <2>2, <3>1, <3>2, <3>3 DEF Said
  <2>3. regs' \in Nat
    BY <1>b, RowFacts DEF QueueKept
  <2> QED
    BY <1>2, <2>1, <2>2, <2>3, MentionsStay DEF QueueKept
<1>15. RunsOnce'
  <2>1. \A n, x, l : x \in Workers /\ l \in Polls =>
          (HandedOver(n, x, l)' <=> \/ HandedOver(n, x, l)
                                    \/ x = w /\ l = k /\ \E j \in S : n = jobs[j].call)
    <3>1. ASSUME NEW n
          PROVE  (\E i \in items : i[2] = n) <=> \E j \in S : n = jobs[j].call
      <4>1. ASSUME NEW i \in items, i[2] = n
            PROVE  \E j \in S : n = jobs[j].call
        <5>1. PICK j \in S : i = <<j, jobs[j].call>>
          BY <1>5
        <5> QED
          BY <4>1, <5>1
      <4>2. ASSUME NEW j \in S, n = jobs[j].call
            PROVE  \E i \in items : i[2] = n
        <5>1. <<j, jobs[j].call>> \in items
          BY <1>5
        <5>2. <<j, jobs[j].call>>[2] = n
          BY <4>2
        <5> QED
          BY <5>1, <5>2
      <4> QED
        BY <4>1, <4>2
    <3>2. claim[w][k].calls = {}
      BY <1>a DEF QueueKept, RunsOnce
    <3> SUFFICES ASSUME NEW n, NEW x, NEW l, x \in Workers, l \in Polls
                 PROVE  HandedOver(n, x, l)' <=>
                          \/ HandedOver(n, x, l)
                          \/ x = w /\ l = k /\ \E j \in S : n = jobs[j].call
      OBVIOUS
    <3>3. CASE x = w /\ l = k
      <4>1. claim'[x][l].calls = items
        BY <1>8, <1>11, <3>3
      <4>2. HandedOver(n, x, l)' <=> \E i \in items : i[2] = n
        BY <4>1 DEF HandedOver
      <4>3. ~HandedOver(n, x, l)
        BY <3>2, <3>3 DEF HandedOver
      <4> QED
        BY <3>1, <3>3, <4>2, <4>3
    <3>4. CASE ~(x = w /\ l = k)
      <4>1. claim'[x][l].calls = claim[x][l].calls
        BY <1>11, <3>4
      <4> QED
        BY <3>4, <4>1 DEF HandedOver
    <3> QED
      BY <3>3, <3>4
  <2>2. \A n \in Calls : /\ hist'.ran[n] <= 1
                         /\ n > hist'.calls => hist'.ran[n] = 0
    BY <1>b DEF QueueKept, RunsOnce
  <2>3. \A x \in Workers, l \in Polls : claim'[x][l].phase # "answer" => claim'[x][l].calls = {}
    <3>1. c.phase # "answer" => c.calls = {}
      BY <1>5, <1>8
    <3> QED
      BY <1>11, <3>1 DEF QueueKept, RunsOnce
  <2>4. \A n \in Calls, x \in Workers, l \in Polls : HandedOver(n, x, l)' =>
          /\ hist'.ran[n] = 0
          /\ \A v \in Workers, m \in Polls : HandedOver(n, v, m)' => v = x /\ m = l
    <3>1. SUFFICES ASSUME NEW n \in Calls, NEW x \in Workers, NEW l \in Polls, HandedOver(n, x, l)'
                   PROVE  /\ hist'.ran[n] = 0
                          /\ \A v \in Workers, m \in Polls : HandedOver(n, v, m)' => v = x /\ m = l
      OBVIOUS
    <3>2. CASE \E j \in S : n = jobs[j].call
      <4>1. Untouched(n)
        BY <1>4, <3>2
      <4>2. \A v \in Workers, m \in Polls : HandedOver(n, v, m)' => v = w /\ m = k
        BY <2>1, <4>1 DEF Untouched
      <4> QED
        BY <1>b, <3>1, <4>1, <4>2 DEF Untouched
    <3>3. CASE ~\E j \in S : n = jobs[j].call
      <4>1. \A v \in Workers, m \in Polls : HandedOver(n, v, m)' <=> HandedOver(n, v, m)
        BY <2>1, <3>3
      <4> QED
        BY <1>b, <3>1, <4>1 DEF QueueKept, RunsOnce
    <3> QED
      BY <3>2, <3>3
  <2>5. ASSUME NEW j \in Present(jobs)', jobs'[j].status = "queued" \/ jobs'[j].unstarted
        PROVE  /\ hist'.ran[jobs'[j].call] = 0
               /\ \A x \in Workers, l \in Polls : ~HandedOver(jobs[j].call, x, l)'
    <3>1. j \in Seqs /\ j \notin S /\ jobs'[j].status # "absent"
      BY <1>2, <2>5 DEF Present
    <3>2. SameCore(jobs'[j], jobs[j])
      BY <1>2, <3>1
    <3>3. j \in Present(jobs) /\ (jobs[j].status = "queued" \/ jobs[j].unstarted)
          /\ jobs'[j].call = jobs[j].call
      BY <2>5, <3>1, <3>2 DEF SameCore, Present
    <3>4. Untouched(jobs[j].call)
      BY <3>3 DEF QueueKept, RunsOnce, Untouched
    <3>5. ~\E i \in S : jobs[j].call = jobs[i].call
      <4>1. \A i \in S : i \in Present(jobs) /\ i # j
        BY <1>4, <3>1 DEF Present
      <4> QED
        BY <3>3, <4>1 DEF QueueKept, RowsKept
    <3>6. PICK n : n = jobs[j].call /\ n = jobs'[j].call
      BY <3>3
    <3>7. \A x \in Workers, l \in Polls : ~HandedOver(n, x, l)'
      BY <2>1, <3>4, <3>5, <3>6 DEF Untouched
    <3>8. \A x \in Workers, l \in Polls : ~\E i \in claim'[x][l].calls : i[2] = n
      BY <3>7 DEF HandedOver
    <3>9. \A x \in Workers, l \in Polls :
            ~\E i \in claim'[x][l].calls : i[2] = jobs'[j].call
      BY <3>6, <3>8
    <3>10. \A x \in Workers, l \in Polls : ~HandedOver(jobs[j].call, x, l)'
      BY <3>9, Zenon DEF HandedOver
    <3>11. hist'.ran[jobs'[j].call] = 0
      BY <1>b, <3>4, <3>6 DEF Untouched
    <3> QED
      BY <3>10, <3>11, Zenon
  <2> QED
    BY <2>2, <2>3, <2>4, <2>5 DEF RunsOnce
<1> QED
  BY <1>2, <1>3, <1>12, <1>13, <1>14, <1>15 DEF MachineStep

LEMMA ClaimRoundStep ==
  ASSUME QueueKept, NEW w \in Workers, NEW k \in Polls, ClaimRound(w, k)
  PROVE  MachineStep
<1>0. /\ claim[w][k].phase = "open"
      /\ UNCHANGED <<regs, deliver, hist, left, worker, reports, drains>>
  BY Zenon DEF ClaimRound
<1>1. CASE ~SameRegistration(worker[w].inc)
  <2>1. /\ claim' = [claim EXCEPT ![w][k].phase = "answer", ![w][k].removed = TRUE]
        /\ UNCHANGED <<sat, jobs>>
    BY <1>1, Zenon DEF ClaimRound
  <2> QED
    BY <1>0, <2>1, ClaimRefusedStep
<1>2. CASE SameRegistration(worker[w].inc)
  <2>1. PICK cancels, S : cancels = Cancellations(jobs) /\ S = Claimable(jobs, claim[w][k].capacity)
    OBVIOUS
  <2>2. cancels \in SUBSET Seqs /\ S \subseteq InStatus(jobs, "queued")
    BY <2>1, SMTT(60) DEF Cancellations, Claimable, Oldest, InStatus
  <2>3. /\ sat' = Touched /\ jobs' = Claimed(CancelSent(jobs, cancels), S)
        /\ claim' = [claim EXCEPT
             ![w][k].phase = IF cancels # {} \/ S # {} THEN "answer" ELSE "open",
             ![w][k].calls = {<<j, jobs[j].call>> : j \in S}, ![w][k].cancels = cancels]
    BY <1>2, <2>1, Zenon DEF ClaimRound
  <2> QED
    BY <1>0, <1>2, <2>2, <2>3, HandsOver, Zenon DEF SameRegistration, Round
<1> QED
  BY <1>1, <1>2, SMTT(60)

LEMMA WorkerStep ==
  ASSUME QueueKept, WorkerNext
  PROVE  MachineStep
<1>1. ASSUME NEW w \in Workers,
             \/ StartProcess(w) \/ FlushUnsent(w) \/ Heartbeat(w) \/ Connect(w)
             \/ DrainArrives(w) \/ Exit(w) \/ ConnectFails(w) \/ Drain(w) \/ DrainLost(w)
             \/ ForceStop(w) \/ Kill(w)
      PROVE  MachineStep
  BY <1>1, StartProcessStep, FlushUnsentStep, HeartbeatStep, ConnectStep, DrainEndsStep, ExitStep,
     ConnectFailsStep, DrainStep, ForceStopStep, KillStep
<1>2. ASSUME NEW w \in Workers, NEW k \in Polls,
             \/ OpenClaim(w, k) \/ ClaimRound(w, k) \/ ClaimEnds(w, k) \/ ClaimAnswered(w, k)
             \/ ClaimLost(w, k)
      PROVE  MachineStep
  BY <1>2, OpenClaimStep, ClaimRoundStep, ClaimEndsStep, ClaimAnsweredStep, ClaimLostStep
<1>3. ASSUME NEW w \in Workers, NEW j \in worker[w].asked
      PROVE  j \in Seqs
  BY DEF QueueKept, WorkersKept, Running
<1>4. CASE WorkerGoes
  BY <1>1, <1>2, <1>3, <1>4, FinishStep, ReportArrivesStep DEF WorkerGoes
<1>5. CASE WorkerNext /\ ~WorkerGoes
  BY <1>1, <1>2, <1>5, FinishStep, ReportLostStep DEF WorkerNext
<1> QED
  BY <1>4, <1>5

---------------------------------------------------------------------------
(* The inductive invariant.  NoBacklog is preserved only because rows are  *)
(* inserted by a statement that counts them again, and the result of a     *)
(* call only goes to its own row because whoever reports it has a name for *)
(* it, sequence and registration, that no other call can have.             *)
IInv == QueueKept /\ NoBacklog

LEMMA InitTyped ==
  ASSUME Init
  PROVE  Typed
<1>0. 0 \in Nat /\ 1 \in Nat /\ MaxSeq \in Nat /\ MaxCalls \in Nat /\ 0 \in 0 .. MaxCalls
      /\ 1 \in 1 .. MaxSeq + 1 /\ 0 \in 0 .. Limit
  BY BoundsAssumption
<1>1. sat \in SatRow
  BY <1>0 DEF Init, NoSatellite, NoReg, SatRow
<1>2. jobs \in Rows
  BY NoJobIsJob DEF Init, Rows
<1>3. hist \in History
  BY <1>0 DEF Init, NoHistory, History
<1>4. deliver \in [Deliveries -> Deliver]
  <2>1. NoDelivery \in Deliver
    BY DEF NoDelivery, Deliver
  <2> QED
    BY <2>1 DEF Init
<1>5. left \in [Disturbances -> Nat]
  BY ScenariosAssumption DEF Init
<1>6. worker \in [Workers -> Worker]
  <2>1. NoWorker \in Worker
    <3>1. <<>> \in Seq(Report)
      OBVIOUS
    <3>2. [j \in Seqs |-> NoCall] \in [Seqs -> Calls \cup {NoCall}]
      OBVIOUS
    <3> QED
      BY <1>0, <3>1, <3>2 DEF NoWorker, Worker, NoReg
  <2>2. [NoWorker EXCEPT !.phase = "up", !.connected = TRUE, !.inc = 1] \in Worker
    BY <1>0, <2>1 DEF Worker
  <2>3. sat.reg = 1
    BY DEF Init, NoSatellite
  <2> QED
    BY <2>1, <2>2, <2>3 DEF Init, WorkerInit
<1>7. claim \in [Workers -> [Polls -> Claim]]
  BY NoClaimTyped DEF Init, WorkerInit
<1>8. NoOp \in Op /\ OpKept(NoOp)
  BY <1>0 DEF NoOp, Op, OpKept, NoReg
<1>9. op \in [Agents \cup Owners -> Op] /\ \A o \in Agents \cup Owners : OpKept(op[o])
  BY <1>8 DEF Init, AgentInit
<1>10. regs \in Nat /\ reports \subseteq Report /\ drains \subseteq Workers /\ removing = "no"
  BY <1>0 DEF Init, WorkerInit, AgentInit
<1> QED
  BY <1>1, <1>2, <1>3, <1>4, <1>5, <1>6, <1>7, <1>9, <1>10 DEF Typed, Tables, Machines, Requests

LEMMA InitKept ==
  ASSUME Init
  PROVE  IInv
<1>0. Limit \in Nat /\ MaxUnsent \in Nat
  BY BoundsAssumption, WorkerAssumption
<1>1. Typed
  BY InitTyped
<1>2. \A j \in Seqs : jobs[j] = NoJob
  BY DEF Init
<1>3. sat.reg = 1 /\ sat.next = 1 /\ regs = 1 /\ Present(jobs) = {} /\ NonTerminal(jobs) = {}
  BY <1>2 DEF Init, NoSatellite, NoJob, Present, NonTerminal, InStatus
<1>4. RowsKept
  BY <1>2, <1>3 DEF RowsKept, RowKept, NoJob, NoReg
<1>5. \A w \in Workers : /\ worker[w].inc \in {0, 1} /\ worker[w].held = [j \in Seqs |-> NoCall]
                         /\ worker[w].asked = {} /\ worker[w].unsent = <<>>
  <2>1. ASSUME NEW w \in Workers
        PROVE  worker[w] = NoWorker
               \/ worker[w] = [NoWorker EXCEPT !.phase = "up", !.connected = TRUE, !.inc = 1]
    BY <1>3 DEF Init, WorkerInit
  <2>2. PICK h : h = [j \in Seqs |-> NoCall]
    OBVIOUS
  <2>3. PICK n : n = [phase |-> "off", connected |-> FALSE, inc |-> 0, held |-> h,
                      asked |-> {}, unsent |-> <<>>]
    OBVIOUS
  <2>4. NoWorker = n
    BY <2>2, <2>3 DEF NoWorker, NoReg
  <2>5. PICK u : u = [n EXCEPT !.phase = "up", !.connected = TRUE, !.inc = 1]
    OBVIOUS
  <2>6. /\ n.inc = 0 /\ n.held = h /\ n.asked = {} /\ n.unsent = <<>>
        /\ u.inc = 1 /\ u.held = h /\ u.asked = {} /\ u.unsent = <<>>
    BY <2>3, <2>5
  <2>7. \A w \in Workers : worker[w] = n \/ worker[w] = u
    BY <2>1, <2>4, <2>5, Zenon
  <2> QED
    BY <2>2, <2>6, <2>7
<1>6. \A w \in Workers, k \in Polls : claim[w][k] = NoClaim
  BY DEF Init, WorkerInit
<1>7. Mentions
  <2>1. \A w \in Workers : worker[w].inc <= regs
    BY <1>3, <1>5
  <2>2. ASSUME NEW j \in Seqs, NEW n \in Calls, NEW inc \in Nat
        PROVE  ~Said(j, n, inc)
    <3>1. n # NoCall
      BY DEF Calls, NoCall
    <3>2. ~SaidByReport(j, n, inc)
      BY DEF SaidByReport, Init, WorkerInit
    <3>3. ASSUME NEW w \in Workers
          PROVE  ~SaidByWorker(w, j, n, inc)
      <4>1. worker[w].held[j] # n /\ Len(worker[w].unsent) = 0
        BY <1>5, <3>1
      <4>2. \A k \in Polls : claim[w][k].calls = {}
        BY <1>6 DEF NoClaim
      <4> QED
        BY <4>1, <4>2 DEF SaidByWorker
    <3> QED
      BY <3>2, <3>3 DEF Said
  <2> QED
    BY <2>1, <2>2 DEF Mentions
<1>8. RunsOnce
  <2>1. \A n \in Calls : hist.ran[n] = 0
    BY DEF Init, NoHistory
  <2>2. \A w \in Workers, k \in Polls : claim[w][k].calls = {}
    BY <1>6 DEF NoClaim
  <2> QED
    BY <1>3, <2>1, <2>2 DEF RunsOnce, HandedOver
<1>9. WorkersKept
  BY <1>0, <1>5 DEF WorkersKept
<1>10. NoBacklog
  BY <1>0, <1>3, FS_EmptySet DEF NoBacklog
<1> QED
  BY <1>1, <1>4, <1>7, <1>8, <1>9, <1>10 DEF IInv, QueueKept

(* A step leaves the rows as a step of the queue does, or leaves all of it *)
(* alone.                                                                  *)
LEMMA StepKept ==
  ASSUME QueueKept, [Next]_vars
  PROVE  QueueKept' /\ RowStep
<1>0. Typed /\ RowsKept /\ Mentions /\ RunsOnce /\ WorkersKept
  BY DEF QueueKept
<1>1. ASSUME MachineStep, Requests'
      PROVE  QueueKept' /\ RowStep
  <2>1. Typed' /\ Mentions' /\ RunsOnce' /\ WorkersKept' /\ RowStep
    BY <1>1 DEF MachineStep, Typed
  <2>2. RowsKept'
    BY <1>0, <2>1, RowsStepKeeps
  <2> QED
    BY <2>1, <2>2 DEF QueueKept
<1>2. ASSUME QueueStep, UNCHANGED workerVars
      PROVE  QueueKept' /\ RowStep
  <2>1. worker' = worker /\ claim' = claim /\ reports' = reports /\ drains' = drains
    BY <1>2 DEF workerVars
  <2>2. RowStep /\ Tables' /\ Requests' /\ hist'.ran = hist.ran
    BY <1>2 DEF QueueStep
  <2>3. ClaimsTyped /\ NothingHandedOver /\ ReportsTold
    BY <2>1, <2>2, ClaimsSame, ReportsSame
  <2>4. MachineStep
    BY <1>0, <2>1, <2>2, <2>3, StillStep
  <2> QED
    BY <1>1, <2>2, <2>4
<1>3. CASE WorkerNext /\ UNCHANGED agentVars
  <2>1. MachineStep
    BY <1>3, WorkerStep
  <2>2. Requests'
    BY <1>0, <1>3, SameRequests
  <2> QED
    BY <1>1, <2>1, <2>2
<1>4. CASE AgentNext /\ UNCHANGED workerVars
  BY <1>0, <1>2, <1>4, AgentStep
<1>5. CASE ServerGoes
  BY <1>0, <1>2, <1>5, ServerStep
<1>6. CASE UNCHANGED vars
  <2>1. /\ sat' = sat /\ regs' = regs /\ jobs' = jobs /\ deliver' = deliver /\ hist' = hist
        /\ left' = left /\ UNCHANGED workerVars /\ UNCHANGED agentVars
    BY <1>6 DEF vars
  <2>2. Tables'
    BY <1>0, <2>1 DEF Typed, Tables
  <2>3. Requests'
    BY <1>0, <2>1, SameRequests
  <2>4. RowStep
    BY <1>0, <2>1, RowsStill DEF SameName
  <2> QED
    BY <1>2, <2>1, <2>2, <2>3, <2>4 DEF QueueStep
<1> QED
  BY <1>3, <1>4, <1>5, <1>6 DEF Next

LEMMA InvariantStep ==
  ASSUME IInv, [Next]_vars
  PROVE  IInv' /\ SettledStep
<1>1. QueueKept /\ NoBacklog /\ Typed /\ RowsKept
  BY DEF IInv, QueueKept
<1>2. QueueKept' /\ RowStep
  BY <1>1, StepKept
<1>3. NoBacklog'
  BY <1>1, <1>2, BacklogStays
<1>4. SettledStep
  BY <1>1, <1>2, SettledRowsStay
<1> QED
  BY <1>2, <1>3, <1>4 DEF IInv

---------------------------------------------------------------------------
(* The inductive invariant of the satellites' queue holds in every         *)
(* behaviour of the agent, the owner, the workers and the sweeps.          *)
THEOREM SatellitesInvariant == Spec => []IInv
<1>1. Init => IInv
  BY InitKept
<1>2. IInv /\ [Next]_vars => IInv'
  BY InvariantStep
<1> QED
  BY <1>1, <1>2, PTL DEF Spec

(* Rows, polls, reports, requests and deliveries keep their shape, no      *)
(* process believes in a registration that was not made, and none keeps    *)
(* more unsent reports than it has room for (unsent.ts).                   *)
THEOREM SatellitesType == Spec => []TypeOK
<1>1. IInv => TypeOK
  <2> SUFFICES ASSUME IInv PROVE TypeOK
    OBVIOUS
  <2>1. Tables /\ Machines /\ Requests /\ RowsKept /\ Mentions /\ WorkersKept
    BY DEF IInv, QueueKept, Typed
  <2>2. sat \in [reg : 0 .. regs, next : 1 .. MaxSeq + 1, draining : BOOLEAN,
                 online : BOOLEAN, granted : BOOLEAN]
    <3>1. sat \in SatRow /\ sat.reg \in Nat /\ regs \in Nat /\ sat.reg <= regs
      BY <2>1 DEF Tables, RowsKept, SatRow
    <3>2. sat.reg \in 0 .. regs
      BY <3>1
    <3> QED
      BY <3>1, <3>2 DEF SatRow
  <2>3. ASSUME NEW w \in Workers
        PROVE  /\ worker[w].phase \in {"off", "up", "draining", "gone"}
               /\ worker[w].connected \in BOOLEAN /\ worker[w].inc \in 0 .. regs
               /\ worker[w].held \in [Seqs -> Calls \cup {NoCall}]
               /\ worker[w].asked \subseteq Running(w)
               /\ worker[w].unsent \in Seq(Report) /\ Len(worker[w].unsent) <= MaxUnsent
    <3>1. worker[w] \in Worker /\ worker[w].inc <= regs /\ regs \in Nat
      BY <2>1 DEF Machines, Mentions, Tables
    <3>2. worker[w].inc \in 0 .. regs
      BY <3>1 DEF Worker
    <3> QED
      BY <2>1, <3>1, <3>2 DEF WorkersKept, Worker
  <2> QED
    BY <2>1, <2>2, <2>3 DEF TypeOK, Tables, Machines, Requests, Rows
<1> QED
  BY <1>1, SatellitesInvariant, PTL

(* No more calls wait or run than the satellite takes at once: the insert  *)
(* counts again, so of two calls that both saw room one is refused.        *)
THEOREM NoBacklogAlways == Spec => []NoBacklog
<1>1. IInv => NoBacklog
  BY DEF IInv
<1> QED
  BY <1>1, SatellitesInvariant, PTL

(* A machine runs a call at most once, whatever answers are lost, whatever *)
(* dies and however often names come back; a call whose row says it never  *)
(* started has not run.                                                    *)
THEOREM CallsRunAtMostOnce == Spec => []NeverRetried
<1>1. IInv => NeverRetried
  BY DEF IInv, QueueKept, RunsOnce, NeverRetried
<1> QED
  BY <1>1, SatellitesInvariant, PTL

(* A row records the result of the call it was made for, although late     *)
(* reports of an earlier registration carry the same sequence number.      *)
THEOREM OutcomesStayWithTheirCall == Spec => []OwnOutcome
<1>1. IInv => OwnOutcome
  BY DEF IInv, QueueKept, RowsKept, RowKept, OwnOutcome
<1> QED
  BY <1>1, SatellitesInvariant, PTL

(* A settled job keeps its outcome until its row goes: no report, sweep,   *)
(* cancellation or removal writes over it.                                 *)
THEOREM SettledForGood == Spec => SettledStays
<1>1. IInv /\ [Next]_vars => [SettledStep]_vars
  BY InvariantStep
<1>2. [SettledStep]_vars =>
        [\A j \in Terminal(jobs) :
           jobs'[j].status = "absent"
             \/ (jobs'[j].status = jobs[j].status /\ jobs'[j].of = jobs[j].of)]_vars
  BY DEF SettledStep
<1> QED
  BY <1>1, <1>2, SatellitesInvariant, PTL DEF Spec, SettledStays
=============================================================================
