---------------------------- MODULE ApprovalRows ----------------------------
(***************************************************************************)
(* The pending_approvals table and its repository: one row per question    *)
(* put to an agent's owner.  Every statement is one atomic step and says   *)
(* in its guard what the row must still be.  The three kinds of question   *)
(* are the held egress calls, the egress rules an agent proposes and the   *)
(* tool permissions a harness asks for.                                    *)
(***************************************************************************)
EXTENDS Naturals, FiniteSets

CONSTANTS
  Calls,       \* egress calls the gate is asked about; a row has its call's id
  Proposals,   \* rule shapes an agent may propose
  Tools,       \* permission requests of the harness, by rpc id
  Owners,      \* requests of owners deciding at the same time
  None,        \* no verdict, no row, no rule
  Scenarios    \* what takes part in a behaviour and go wrong in it

VARIABLES
  rows,        \* the table
  scene,       \* the questions and owners that take part in this behaviour
  left         \* the disturbances still to come

Ids == Calls \cup Proposals \cup Tools

Verdicts == {"allow", "allow_once", "deny", "deny_once"}

Disturbances == {"fail", "die", "revoke", "ask"}

ASSUME ScenariosAssumption ==
  Scenarios \subseteq [scene : SUBSET (Ids \cup Owners),
                       faults : [Disturbances -> Nat]]
ASSUME KindsDisjoint == /\ Calls \cap Proposals = {}
                        /\ Calls \cap Tools = {}
                        /\ Proposals \cap Tools = {}
                        /\ None \notin Ids \cup Verdicts

Spend(d) == left[d] > 0 /\ left' = [left EXCEPT ![d] = @ - 1]

(* A row: its status, verdict, whether delivered_at is set, whether        *)
(* expires_at has passed, and its place among the open rows by created_at  *)
(* or among the undelivered ones by resolved_at; 0 once it is in neither.  *)
Row == [status    : {"absent", "pending", "resolved", "expired"},
        verdict   : Verdicts \cup {None},
        delivered : BOOLEAN,
        due       : BOOLEAN,
        at        : Nat]

Absent == [status |-> "absent", verdict |-> None, delivered |-> FALSE,
           due |-> FALSE, at |-> 0]

Pending(r) == {i \in Ids : r[i].status = "pending"}
Resolved(r) == {i \in Ids : r[i].status = "resolved"}

Newest(r) == CHOOSE n \in {r[i].at : i \in Ids} : \A i \in Ids : r[i].at <= n

Now(r) == Newest(r) + 1

Fresh(r) == [Absent EXCEPT !.status = "pending", !.at = Now(r)]

(* insertPending, which asks again under an id whose question is over:     *)
(* expired, or resolved and delivered.                                     *)
Reusable(row) == \/ row.status \in {"absent", "expired"}
                 \/ row.status = "resolved" /\ row.delivered

InsertPending(r, i) ==
  IF Reusable(r[i]) THEN [r EXCEPT ![i] = Fresh(r)] ELSE r

InsertIfAbsent(r, i) ==
  IF r[i].status = "absent" THEN [r EXCEPT ![i] = Fresh(r)] ELSE r

(* The settled row of a request that ended before anyone recorded it. *)
InsertSettled(r, i, v) ==
  IF r[i].status = "absent"
  THEN [r EXCEPT ![i] = [Fresh(r) EXCEPT
          !.status = IF v = None THEN "expired" ELSE "resolved",
          !.verdict = v, !.delivered = TRUE, !.at = 0]]
  ELSE r

Settle(r, i, v, delivered) ==
  [r EXCEPT ![i] = [@ EXCEPT !.status = "resolved", !.verdict = v,
                             !.delivered = delivered,
                             !.at = IF delivered THEN 0 ELSE Now(r)]]

Expire(row) == [row EXCEPT !.status = "expired", !.at = 0]

(* Mutant: the update does not ask whether the row still is pending. *)
ResolveAny(r, i, v, delivered) == Settle(r, i, v, delivered)

ResolvePending(r, i, v, delivered) ==
  IF r[i].status = "pending" THEN Settle(r, i, v, delivered) ELSE r

ResolveExpired(r, i, v) ==
  IF r[i].status = "expired" THEN Settle(r, i, v, TRUE) ELSE r

MarkDelivered(r, i) ==
  IF r[i].status = "resolved"
  THEN [r EXCEPT ![i].delivered = TRUE, ![i].at = 0] ELSE r

CorrectVerdict(r, i, v) ==
  IF r[i].status = "resolved" /\ r[i].verdict # v
  THEN Settle(r, i, v, r[i].delivered) ELSE r

ExpirePending(r, i) ==
  IF r[i].status = "pending" THEN [r EXCEPT ![i] = Expire(@)] ELSE r

(* Mutant: the rows of calls are left to the gate that made them. *)
ExpireOverdueTools(r) ==
  [i \in Ids |-> IF i \notin Calls /\ r[i].status = "pending" /\ r[i].due
                 THEN Expire(r[i]) ELSE r[i]]

ExpireOverdue(r) ==
  [i \in Ids |-> IF r[i].status = "pending" /\ r[i].due
                 THEN Expire(r[i]) ELSE r[i]]

(* expires_at passes. *)
RowDue(i) ==
  /\ rows[i].status # "absent" /\ ~rows[i].due
  /\ rows' = [rows EXCEPT ![i].due = TRUE]
=============================================================================
