--------------------------- MODULE ApprovalsProofs --------------------------
(***************************************************************************)
(* The safety of Approvals, proved for every set of calls, proposals,      *)
(* tools, owners and scopes and for every scenario.  The statements of the *)
(* repository come first, each with what it leaves of the table; then what *)
(* every handler at work refers to (Typed); then why a hold's answer and a *)
(* row settled for good stand on a decision (EgressSafe), and how far the  *)
(* report of a request's end has come (EndSafe).                           *)
(***************************************************************************)
EXTENDS Approvals, WellFoundedInduction, TLAPS

---------------------------------------------------------------------------
(* The table *)

(* A resolved row has a verdict. *)
Entry == {x \in Row : x.status = "resolved" => x.verdict # None}

(* The tables reached: the places of their rows are bounded, so that there *)
(* is a newest one.                                                        *)
Tables == {r \in [Ids -> Entry] : \E n \in Nat : \A i \in Ids : r[i].at <= n}

(* Every non-empty set of naturals has a smallest member. *)
LEMMA SmallestOf ==
  ASSUME NEW T \in SUBSET Nat, T # {}
  PROVE  \E x \in T : \A y \in T : x <= y
<1> DEFINE R == {ss \in Nat \X Nat : ss[1] < ss[2]}
<1>1. IsWellFoundedOn(R, Nat)
  BY NatLessThanWellFounded, Zenon DEF OpToRel
<1>2. PICK x \in T : \A y \in T : <<y, x>> \notin R
  <2> HIDE DEF R
  <2> QED BY <1>1, WFMin, Zenon
<1>3. ASSUME NEW y \in T
      PROVE  x <= y
  <2>1. \A a, b \in Nat : a < b => <<a, b>> \in R
    OBVIOUS
  <2>2. ~(y < x)
    <3> HIDE DEF R
    <3> QED BY <1>2, <2>1, Zenon
  <2> QED BY <2>2
<1> QED BY <1>2, <1>3

(* A bounded non-empty set of naturals has a largest member. *)
LEMMA LargestOf ==
  ASSUME NEW T \in SUBSET Nat, T # {}, NEW n \in Nat, \A x \in T : x <= n
  PROVE  \E x \in T : \A y \in T : y <= x
<1> DEFINE D == {n - x : x \in T}
<1>1. D \in SUBSET Nat /\ D # {}
  <2>1. \A x \in T : n - x \in Nat
    OBVIOUS
  <2>2. PICK x : x \in T
    OBVIOUS
  <2> QED BY <2>1, <2>2, Zenon
<1>2. PICK d \in D : \A e \in D : d <= e
  BY <1>1, SmallestOf, Zenon
<1>3. PICK x \in T : d = n - x
  BY <1>2
<1>4. ASSUME NEW y \in T
      PROVE  y <= x
  BY <1>2, <1>3
<1> QED BY <1>3, <1>4

(* Any group of rows has a newest one. *)
LEMMA NewestOf ==
  ASSUME NEW r \in Tables, NEW S \in SUBSET Ids, S # {}
  PROVE  \E i \in S : \A j \in S : r[j].at <= r[i].at
<1> DEFINE T == {r[i].at : i \in S}
<1>1. \A i \in Ids : r[i].at \in Nat
  BY DEF Tables, Entry, Row
<1>2. PICK n \in Nat : \A i \in Ids : r[i].at <= n
  BY DEF Tables
<1>3. T \in SUBSET Nat /\ T # {} /\ \A x \in T : x <= n
  BY <1>1, <1>2
<1>4. PICK x \in T : \A y \in T : y <= x
  BY <1>3, LargestOf, Zenon
<1> QED BY <1>4

(* The time of a new row is after every other row's. *)
LEMMA NowType ==
  ASSUME NEW r \in Tables, Ids # {}
  PROVE  /\ Now(r) \in Nat
         /\ \A i \in Ids : r[i].at <= Now(r)
<1>1. \A i \in Ids : r[i].at \in Nat
  BY DEF Tables, Entry, Row
<1>2. PICK i \in Ids : \A j \in Ids : r[j].at <= r[i].at
  BY NewestOf
<1>3. Newest(r) \in {r[j].at : j \in Ids} /\ \A j \in Ids : r[j].at <= Newest(r)
  BY <1>2 DEF Newest
<1>4. Newest(r) \in Nat
  BY <1>1, <1>3
<1> QED BY <1>1, <1>3, <1>4 DEF Now

Put(r, i, x) == [r EXCEPT ![i] = x]

(* A statement on one row leaves a table, and the others alone. *)
LEMMA RowPut ==
  ASSUME NEW r \in Tables, NEW i \in Ids, NEW x \in Entry
  PROVE  LET s == Put(r, i, x)
         IN  s \in Tables /\ s[i] = x /\ \A j \in Ids \ {i} : s[j] = r[j]
<1> DEFINE s == Put(r, i, x)
<1>1. s \in [Ids -> Entry] /\ s[i] = x /\ \A j \in Ids \ {i} : s[j] = r[j]
  BY DEF Tables, Put
<1>2. PICK n \in Nat : \A j \in Ids : r[j].at <= n
  BY DEF Tables
<1>3. x.at \in Nat /\ \A j \in Ids : r[j].at \in Nat
  BY DEF Tables, Entry, Row
<1>4. \A j \in Ids : s[j].at <= n + x.at
  BY <1>1, <1>2, <1>3
<1>5. n + x.at \in Nat
  BY <1>3
<1> HIDE DEF s
<1>6. s \in Tables
  BY <1>1, <1>4, <1>5 DEF Tables
<1> QED BY <1>1, <1>6 DEF s

(* A new row is a pending one. *)
LEMMA FreshType ==
  ASSUME NEW r \in Tables, Ids # {}
  PROVE  Fresh(r) \in Entry /\ Fresh(r).status = "pending"
BY NowType DEF Fresh, Absent, Entry, Row

(* What the first statement about a question leaves. *)
LEMMA InsertType ==
  ASSUME NEW r \in Tables, NEW i \in Ids
  PROVE  LET p == InsertPending(r, i)
             a == InsertIfAbsent(r, i)
         IN  /\ p \in Tables /\ \A j \in Ids \ {i} : p[j] = r[j]
             /\ IF Reusable(r[i]) THEN p[i].status = "pending" ELSE p = r
             /\ a \in Tables /\ \A j \in Ids \ {i} : a[j] = r[j]
             /\ IF r[i].status = "absent" THEN a[i].status = "pending"
                ELSE a = r
BY FreshType, RowPut DEF InsertPending, InsertIfAbsent, Put

(* What the settled row of an unrecorded request leaves. *)
LEMMA InsertSettledType ==
  ASSUME NEW r \in Tables, NEW i \in Ids, NEW v \in Verdicts \cup {None}
  PROVE  LET s == InsertSettled(r, i, v)
         IN  /\ s \in Tables /\ \A j \in Ids \ {i} : s[j] = r[j]
             /\ IF r[i].status = "absent"
                THEN /\ s[i].status = IF v = None THEN "expired"
                                      ELSE "resolved"
                     /\ s[i].verdict = v
                ELSE s = r
<1> DEFINE x == [Fresh(r) EXCEPT
                   !.status = IF v = None THEN "expired" ELSE "resolved",
                   !.verdict = v, !.delivered = TRUE, !.at = 0]
<1>1. Fresh(r) \in Row
  BY FreshType DEF Entry
<1>2. /\ x.status = IF v = None THEN "expired" ELSE "resolved"
      /\ x.verdict = v
  BY <1>1 DEF Row
<1>3. x \in Row
  BY <1>1 DEF Row
<1> HIDE DEF x
<1>4. x \in Entry
  BY <1>2, <1>3 DEF Entry
<1>5. LET s == Put(r, i, x)
      IN  s \in Tables /\ s[i] = x /\ \A j \in Ids \ {i} : s[j] = r[j]
  BY <1>4, RowPut, ZenonT(60)
<1>6. InsertSettled(r, i, v) = IF r[i].status = "absent"
                               THEN Put(r, i, x) ELSE r
  BY DEF InsertSettled, Put, x
<1> QED BY <1>2, <1>5, <1>6

(* What a verdict leaves of a row. *)
LEMMA SettleType ==
  ASSUME NEW r \in Tables, NEW i \in Ids, NEW v \in Verdicts,
         NEW d \in BOOLEAN
  PROVE  LET s == Settle(r, i, v, d)
         IN  /\ s \in Tables /\ \A j \in Ids \ {i} : s[j] = r[j]
             /\ s[i].status = "resolved" /\ s[i].verdict = v
<1> DEFINE x == [r[i] EXCEPT !.status = "resolved", !.verdict = v,
                   !.delivered = d, !.at = IF d THEN 0 ELSE Now(r)]
<1>1. r[i] \in Row /\ r \in [Ids -> Entry]
  BY DEF Tables, Entry
<1>2. Now(r) \in Nat
  BY NowType
<1>3. x \in Row /\ x.status = "resolved" /\ x.verdict = v
  BY <1>1, <1>2 DEF Row
<1>4. Settle(r, i, v, d) = Put(r, i, x)
  BY <1>1 DEF Settle, Put
<1> HIDE DEF x
<1>5. x \in Entry
  BY <1>3, KindsDisjoint DEF Entry
<1>6. LET s == Put(r, i, x)
      IN  s \in Tables /\ s[i] = x /\ \A j \in Ids \ {i} : s[j] = r[j]
  BY <1>5, RowPut, ZenonT(60)
<1> QED BY <1>3, <1>4, <1>6, Zenon

(* A row that expires keeps its shape. *)
LEMMA ExpireType ==
  ASSUME NEW x \in Entry
  PROVE  /\ Expire(x) \in Entry /\ Expire(x).status = "expired"
         /\ Expire(x).at = 0
BY DEF Expire, Entry, Row

(* What the statements that settle, expire and mark one row leave. *)
LEMMA UpdateType ==
  ASSUME NEW r \in Tables, NEW i \in Ids
  PROVE  /\ \A v \in Verdicts, d \in BOOLEAN :
              LET s == ResolvePending(r, i, v, d)
              IN  /\ s \in Tables /\ \A j \in Ids \ {i} : s[j] = r[j]
                  /\ IF r[i].status = "pending"
                     THEN s[i].status = "resolved" /\ s[i].verdict = v
                     ELSE s = r
         /\ \A v \in Verdicts :
              LET s == ResolveExpired(r, i, v)
              IN  /\ s \in Tables /\ \A j \in Ids \ {i} : s[j] = r[j]
                  /\ IF r[i].status = "expired"
                     THEN s[i].status = "resolved" /\ s[i].verdict = v
                     ELSE s = r
         /\ \A v \in Verdicts :
              LET s == CorrectVerdict(r, i, v)
              IN  /\ s \in Tables /\ \A j \in Ids \ {i} : s[j] = r[j]
                  /\ IF r[i].status = "resolved"
                     THEN s[i].status = "resolved" /\ s[i].verdict = v
                     ELSE s = r
         /\ LET s == MarkDelivered(r, i)
            IN  /\ s \in Tables /\ \A j \in Ids \ {i} : s[j] = r[j]
                /\ s[i].status = r[i].status /\ s[i].verdict = r[i].verdict
         /\ LET s == ExpirePending(r, i)
            IN  /\ s \in Tables /\ \A j \in Ids \ {i} : s[j] = r[j]
                /\ IF r[i].status = "pending" THEN s[i].status = "expired"
                   ELSE s = r
<1>0. r \in [Ids -> Entry] /\ r[i] \in Row /\ r[i].delivered \in BOOLEAN
  BY DEF Tables, Entry, Row
<1>1. ASSUME NEW v \in Verdicts, NEW d \in BOOLEAN
      PROVE  LET s == ResolvePending(r, i, v, d)
             IN  /\ s \in Tables /\ \A j \in Ids \ {i} : s[j] = r[j]
                 /\ IF r[i].status = "pending"
                    THEN s[i].status = "resolved" /\ s[i].verdict = v
                    ELSE s = r
  BY SettleType DEF ResolvePending
<1>2. ASSUME NEW v \in Verdicts
      PROVE  LET s == ResolveExpired(r, i, v)
             IN  /\ s \in Tables /\ \A j \in Ids \ {i} : s[j] = r[j]
                 /\ IF r[i].status = "expired"
                    THEN s[i].status = "resolved" /\ s[i].verdict = v
                    ELSE s = r
  <2>1. LET s == Settle(r, i, v, TRUE)
        IN  /\ s \in Tables /\ \A j \in Ids \ {i} : s[j] = r[j]
            /\ s[i].status = "resolved" /\ s[i].verdict = v
    BY SettleType, Zenon
  <2> QED BY <2>1 DEF ResolveExpired
<1>3. ASSUME NEW v \in Verdicts
      PROVE  LET s == CorrectVerdict(r, i, v)
             IN  /\ s \in Tables /\ \A j \in Ids \ {i} : s[j] = r[j]
                 /\ IF r[i].status = "resolved"
                    THEN s[i].status = "resolved" /\ s[i].verdict = v
                    ELSE s = r
  BY <1>0, SettleType DEF CorrectVerdict
<1>4. LET s == MarkDelivered(r, i)
      IN  /\ s \in Tables /\ \A j \in Ids \ {i} : s[j] = r[j]
          /\ s[i].status = r[i].status /\ s[i].verdict = r[i].verdict
  <2> DEFINE x == [r[i] EXCEPT !.delivered = TRUE, !.at = 0]
  <2>1. /\ x \in Row /\ x.status = r[i].status /\ x.verdict = r[i].verdict
    BY <1>0 DEF Row
  <2>2. r[i].status = "resolved" => MarkDelivered(r, i) = Put(r, i, x)
    BY <1>0 DEF MarkDelivered, Put
  <2> HIDE DEF x
  <2>3. x \in Entry
    BY <1>0, <2>1 DEF Entry
  <2>4. LET s == Put(r, i, x)
        IN  s \in Tables /\ s[i] = x /\ \A j \in Ids \ {i} : s[j] = r[j]
    BY <2>3, RowPut, ZenonT(60)
  <2> QED BY <2>1, <2>2, <2>4 DEF MarkDelivered
<1>5. LET s == ExpirePending(r, i)
      IN  /\ s \in Tables /\ \A j \in Ids \ {i} : s[j] = r[j]
          /\ IF r[i].status = "pending" THEN s[i].status = "expired"
             ELSE s = r
  BY <1>0, ExpireType, RowPut DEF ExpirePending, Put
<1> QED BY <1>1, <1>2, <1>3, <1>4, <1>5, Zenon

(* What a statement that expires a group of rows leaves. *)
LEMMA ExpireAllType ==
  ASSUME NEW r \in Tables, NEW S \in SUBSET Ids,
         NEW s, s = [i \in Ids |-> IF i \in S THEN Expire(r[i]) ELSE r[i]]
  PROVE  /\ s \in Tables
         /\ \A i \in S : s[i].status = "expired"
         /\ \A i \in Ids \ S : s[i] = r[i]
<1>1. /\ s \in [Ids -> Entry]
      /\ \A i \in S : s[i].status = "expired" /\ s[i].at = 0
      /\ \A i \in Ids \ S : s[i] = r[i]
  BY ExpireType DEF Tables
<1>2. PICK n \in Nat : \A i \in Ids : r[i].at <= n
  BY DEF Tables
<1>3. \A i \in Ids : s[i].at <= n
  BY <1>1, <1>2
<1> QED BY <1>1, <1>3 DEF Tables

(* The sweep expires pending rows only. *)
LEMMA ExpireOverdueType ==
  ASSUME NEW r \in Tables
  PROVE  LET s == ExpireOverdue(r)
         IN  /\ s \in Tables
             /\ \A i \in Ids : \/ s[i] = r[i]
                               \/ /\ r[i].status = "pending"
                                  /\ s[i].status = "expired"
<1> DEFINE S == {i \in Ids : r[i].status = "pending" /\ r[i].due}
<1>1. ExpireOverdue(r)
        = [i \in Ids |-> IF i \in S THEN Expire(r[i]) ELSE r[i]]
  BY DEF ExpireOverdue
<1>2. S \in SUBSET Ids
  OBVIOUS
<1>3. \A i \in S : r[i].status = "pending"
  OBVIOUS
<1> HIDE DEF S
<1> QED BY <1>1, <1>2, <1>3, ExpireAllType

(* The expiry of a row passes. *)
LEMMA RowDueType ==
  ASSUME rows \in Tables, NEW i \in Ids, RowDue(i)
  PROVE  /\ rows' \in Tables
         /\ \A j \in Ids : /\ rows'[j].status = rows[j].status
                           /\ rows'[j].verdict = rows[j].verdict
                           /\ rows'[j].delivered = rows[j].delivered
<1> DEFINE x == [rows[i] EXCEPT !.due = TRUE]
<1>1. rows \in [Ids -> Entry] /\ rows[i] \in Row
  BY DEF Tables, Entry
<1>2. /\ x \in Row /\ x.status = rows[i].status /\ x.verdict = rows[i].verdict
      /\ x.delivered = rows[i].delivered
  BY <1>1 DEF Row
<1>3. rows' = Put(rows, i, x)
  BY <1>1 DEF RowDue, Put
<1> HIDE DEF x
<1>4. x \in Entry
  BY <1>1, <1>2 DEF Entry
<1>5. LET s == Put(rows, i, x)
      IN  s \in Tables /\ s[i] = x /\ \A j \in Ids \ {i} : s[j] = rows[j]
  BY <1>4, RowPut, ZenonT(60)
<1> QED BY <1>2, <1>3, <1>5

---------------------------------------------------------------------------
(* What the handlers at work refer to *)

Budgets == [Disturbances -> Nat]

EgressTyped ==
  /\ rules \in [Scopes -> {"allow", "deny", None}]
  /\ revoked \subseteq Scopes
  /\ gate \in [Calls -> Gates]
  /\ desk \in [Owners -> Desks]
  /\ proposing \in [Proposals -> {"idle", "file"}]

(* A call that waits, or was answered from a row, knows which; a decision  *)
(* under way has a row and a verb, one that writes a rule before it does   *)
(* and when it looks for an expired row.                                   *)
EgressEngaged ==
  /\ \A c \in Calls : Waiting(c) \/ gate[c].held => gate[c].on \in Calls
  /\ \A o \in Owners : desk[o].phase \in {"rule", "resolve", "flip"} =>
       /\ desk[o].row \in Calls \cup Proposals /\ desk[o].verb \in Verbs
       /\ desk[o].phase # "resolve" => WritesRule(desk[o].verb, desk[o].row)

ToolTyped ==
  /\ ask \in [Tools -> Asks]
  /\ rec \in [Tools -> {"none", "sent", "lost", "written", "done"}]
  /\ end \in [Tools -> Ends]
  /\ mirror \in [Tools -> Mirrors]
  /\ reply \in [Owners -> Replies]
  /\ frames \subseteq Frames
  /\ sweep \in Sweeps

(* An answer under way has a verdict and a row; a request ends only once   *)
(* it is not held any more, only an answered one settles its row, and its  *)
(* report is not given up while an attempt is left.                        *)
ToolEngaged ==
  /\ \A t \in Tools : mirror[t].phase # "idle" => mirror[t].verdict \in Verdicts
  /\ \A o \in Owners : reply[o].phase \in {"resolve", "send", "mark"} =>
       reply[o].row \in Tools /\ reply[o].verdict \in Verdicts
  /\ sweep.phase = "mark" => sweep.row \in Tools
  /\ \A t \in Tools :
       /\ ask[t].st \in {"idle", "held"} => end[t].phase = "idle"
       /\ end[t].phase \in {"resolve", "correct"} => ask[t].given \in Verdicts
       /\ end[t].phase # "lost" => end[t].tries < EndAttempts

Typed ==
  /\ rows \in Tables
  /\ scene \subseteq Ids \cup Owners
  /\ left \in Budgets
  /\ EgressTyped /\ EgressEngaged
  /\ ToolTyped /\ ToolEngaged

(* A disturbance spent leaves a budget. *)
LEMMA SpendType ==
  ASSUME left \in Budgets, NEW d \in Disturbances, Spend(d)
  PROVE  left' \in Budgets
BY DEF Budgets, Spend

(* A verb makes a verdict of the row, and one that writes a rule makes an  *)
(* unlimited one.                                                          *)
LEMMA VerdictOfType ==
  ASSUME NEW verb \in Verbs, NEW i \in Calls \cup Proposals
  PROVE  /\ VerdictOf(verb, i) \in Verdicts
         /\ WritesRule(verb, i) => VerdictOf(verb, i) \in {"allow", "deny"}
         /\ ScopeOf(verb, i) \in Scopes
BY ShapesAssumption
   DEF VerdictOf, Verdicts, Verbs, WritesRule, Permanent, Declines, ScopeOf,
       Scopes

(* The newest open question of a shape is one of them. *)
LEMMA ExistingType ==
  ASSUME rows \in Tables, NEW c \in Calls
  PROVE  \/ Existing(c) = None /\ ActiveRows(c) = {}
         \/ Existing(c) \in ActiveRows(c) /\ Existing(c) # None
<1> DEFINE S == ActiveRows(c)
<1>1. S \in SUBSET Ids /\ None \notin S
  BY KindsDisjoint DEF ActiveRows, Ids, Pending
<1>2. CASE S = {}
  BY <1>2 DEF Existing
<1>3. CASE S # {}
  <2>1. \E r \in S : \A s \in S : rows[s].at <= rows[r].at
    BY <1>1, <1>3, NewestOf, Zenon
  <2>2. Existing(c) \in S
    BY <1>3, <2>1 DEF Existing
  <2> QED BY <1>1, <2>2
<1> QED BY <1>2, <1>3

---------------------------------------------------------------------------
(* The inductive invariant *)

(* A call's row is only asked for by the call itself, once. *)
Unasked ==
  \A c \in Calls : gate[c].phase \in {"idle", "missed", "new"}
                     => rows[c].status = "absent"

(* A call waits on a question about its own shape, and is answered from it *)
(* once.                                                                   *)
HoldsMatch ==
  \A c \in Calls :
    /\ Waiting(c) \/ gate[c].held => ShapeOf[gate[c].on] = ShapeOf[c]
    /\ gate[c].held => gate[c].phase = "answered"

(* A decision for good has its rule before it settles the row. *)
RuleWritten ==
  \A o \in Owners :
    LET i == desk[o].row
        v == desk[o].verb
    IN  desk[o].phase \in {"resolve", "flip"} /\ WritesRule(v, i) =>
          \/ rules[ScopeOf(v, i)] = VerdictOf(v, i)
          \/ ScopeOf(v, i) \in revoked

EgressSafe ==
  Unasked /\ HoldsMatch /\ RuleWritten /\ AllowIsGranted /\ PermanentHasRule

(* How far the report of a request's end has come. *)
Closed(t) ==
  /\ rows[t].status \in {"resolved", "expired"}
  /\ ask[t].given # None /\ rows[t].status = "resolved"
       => rows[t].verdict = ask[t].given

EndAt(t) ==
  /\ end[t].phase \in {"resolve", "expire"} => rows[t].status # "absent"
  /\ end[t].phase = "expire" => ask[t].given = None
  /\ end[t].phase = "correct" => rows[t].status \in {"resolved", "expired"}
  /\ end[t].phase \in {"mark", "done"} => Closed(t)

EndSafe == \A t \in Tools : EndAt(t)

IInv == Typed /\ EgressSafe /\ EndSafe

---------------------------------------------------------------------------
(* The steps of the gate *)

(* Every kind of row is a row of the table. *)
LEMMA IdsOf ==
  /\ Calls \subseteq Ids /\ Proposals \subseteq Ids /\ Tools \subseteq Ids
BY DEF Ids

(* A handler of the gate that moves to a legal state leaves the rest. *)
LEMMA GatePut ==
  ASSUME EgressTyped, EgressEngaged, NEW c \in Calls, NEW x \in Gates,
         x.phase \in {"hold", "ended"} \/ x.held => x.on \in Calls,
         gate' = [gate EXCEPT ![c] = x], GateUnchanged
  PROVE  /\ EgressTyped' /\ EgressEngaged'
         /\ gate'[c] = x /\ \A d \in Calls \ {c} : gate'[d] = gate[d]
BY DEF EgressTyped, EgressEngaged, GateUnchanged, Waiting

(* What a step of the gate for one call leaves. *)
GateLeft(c) ==
  /\ rows' \in Tables /\ left' \in Budgets
  /\ \A t \in Tools : rows'[t] = rows[t]
  /\ EgressTyped' /\ EgressEngaged'
  /\ \A d \in Calls \ {c} : gate'[d] = gate[d]
  /\ UNCHANGED <<rules, revoked, desk, proposing>>

(* An answer on the spot is a state of the gate. *)
LEMMA AnsweredType ==
  ASSUME NEW a \in {"allow", "deny"}
  PROVE  /\ Answered(a) \in Gates
         /\ Answered(a).phase = "answered" /\ ~Answered(a).held
         /\ Answered(a).answer = a
BY DEF Answered, NoGate, Gates, GatePhases

(* The match of a call with the rules. *)
LEMMA GateMatchLeaves ==
  ASSUME Typed, NEW c \in Calls, NEW b \in BOOLEAN, GateMatch(c, b)
  PROVE  /\ GateLeft(c) /\ UNCHANGED rows
         /\ gate'[c].phase \in {"missed", "answered"}
         /\ gate'[c].held => gate[c].held
<1> DEFINE m == IF b THEN "allow" ELSE Matched(ShapeOf[c])
           x == IF m = None THEN [gate[c] EXCEPT !.phase = "missed"]
                ELSE Answered(m)
<1>1. m \in {"allow", "deny", None}
  <2>1. ShapeOf[c] \in Scopes /\ HostWide \in Scopes
    BY ShapesAssumption DEF Scopes
  <2> QED BY <2>1 DEF Typed, EgressTyped, Matched
<1>2. gate' = [gate EXCEPT ![c] = x] /\ gate[c] \in Gates
  BY DEF GateMatch, Typed, EgressTyped
<1> HIDE DEF m
<1>3. /\ x \in Gates /\ x.phase \in {"missed", "answered"}
      /\ x.held => gate[c].held
  <2>1. CASE m = None
    BY <1>2, <2>1 DEF Gates, GatePhases
  <2>2. CASE m # None
    BY <1>1, <2>2, AnsweredType
  <2> QED BY <2>1, <2>2
<1>4. x.held => x.on \in Calls
  <2>1. CASE m = None
    BY <1>2, <2>1 DEF Gates, Typed, EgressEngaged
  <2>2. CASE m # None
    BY <1>1, <2>2, AnsweredType
  <2> QED BY <2>1, <2>2
<1> HIDE DEF x
<1>5. GateUnchanged /\ UNCHANGED <<rows, left>>
  BY DEF GateMatch
<1>6. /\ EgressTyped' /\ EgressEngaged'
      /\ gate'[c] = x /\ \A d \in Calls \ {c} : gate'[d] = gate[d]
  BY <1>2, <1>3, <1>4, <1>5, GatePut DEF Typed
<1> QED BY <1>3, <1>5, <1>6 DEF GateLeft, GateUnchanged, Typed

(* The search for an open question: the call joins one of its own shape. *)
LEMMA GateFindLeaves ==
  ASSUME Typed, NEW c \in Calls, NEW b \in BOOLEAN, GateFind(c, b)
  PROVE  /\ GateLeft(c) /\ UNCHANGED rows
         /\ gate'[c].phase \in {"new", "answered", "hold"}
         /\ gate'[c].phase = "hold" => /\ gate'[c].on \in ActiveRows(c)
         /\ gate'[c].held => gate[c].held
<1> DEFINE x == IF Existing(c) = None
                THEN [gate[c] EXCEPT !.phase = "new", !.alone = b]
                ELSE IF b THEN Answered("deny")
                ELSE [gate[c] EXCEPT !.phase = "hold", !.on = Existing(c)]
<1>1. gate' = [gate EXCEPT ![c] = x] /\ gate[c] \in Gates
  BY DEF GateFind, Typed, EgressTyped
<1>2. \/ Existing(c) = None
      \/ Existing(c) \in ActiveRows(c) /\ Existing(c) # None
  BY ExistingType DEF Typed
<1>3. ActiveRows(c) \subseteq Calls
  BY DEF ActiveRows
<1>4. /\ x \in Gates /\ x.phase \in {"new", "answered", "hold"}
      /\ x.phase = "hold" => x.on \in ActiveRows(c)
      /\ x.held => gate[c].held
      /\ x.held => x.on \in Calls
  <2>1. CASE Existing(c) = None
    <3>1. x = [gate[c] EXCEPT !.phase = "new", !.alone = b]
      BY <2>1
    <3>2. gate[c].held => gate[c].on \in Calls
      BY DEF Typed, EgressEngaged
    <3> QED BY <1>1, <3>1, <3>2 DEF Gates, GatePhases
  <2>2. CASE Existing(c) # None /\ b
    BY <2>2, AnsweredType
  <2>3. CASE Existing(c) # None /\ ~b
    <3>1. x = [gate[c] EXCEPT !.phase = "hold", !.on = Existing(c)]
      BY <2>3
    <3> QED BY <1>1, <1>2, <1>3, <2>3, <3>1 DEF Gates, GatePhases
  <2> QED BY <2>1, <2>2, <2>3
<1> HIDE DEF x
<1>5. GateUnchanged /\ UNCHANGED <<rows, left>>
  BY DEF GateFind
<1>6. /\ EgressTyped' /\ EgressEngaged'
      /\ gate'[c] = x /\ \A d \in Calls \ {c} : gate'[d] = gate[d]
  BY <1>1, <1>3, <1>4, <1>5, GatePut DEF Typed
<1> QED BY <1>4, <1>5, <1>6 DEF GateLeft, GateUnchanged, Typed

(* The new question. *)
LEMMA GateInsertLeaves ==
  ASSUME Typed, NEW c \in Calls, GateInsert(c)
  PROVE  /\ GateLeft(c)
         /\ rows' = InsertPending(rows, c)
         /\ gate'[c].phase \in {"answered", "hold"}
         /\ gate'[c].phase = "hold" => gate'[c].on = c
         /\ gate'[c].held => gate[c].held
<1> DEFINE x == IF gate[c].alone THEN Answered("deny")
                ELSE [gate[c] EXCEPT !.phase = "hold", !.on = c]
<1>1. gate' = [gate EXCEPT ![c] = x] /\ gate[c] \in Gates
  BY DEF GateInsert, Typed, EgressTyped
<1>2. /\ x \in Gates /\ x.phase \in {"answered", "hold"}
      /\ x.phase = "hold" => x.on = c
      /\ x.held => gate[c].held
      /\ x.held => x.on \in Calls
  <2>1. CASE gate[c].alone
    BY <2>1, AnsweredType
  <2>2. CASE ~gate[c].alone
    BY <1>1, <2>2 DEF Gates, GatePhases
  <2> QED BY <2>1, <2>2
<1> HIDE DEF x
<1>3. GateUnchanged /\ UNCHANGED left /\ rows' = InsertPending(rows, c)
  BY DEF GateInsert
<1>4. rows' \in Tables /\ \A t \in Tools : rows'[t] = rows[t]
  BY <1>3, InsertType, IdsOf, KindsDisjoint, ZenonT(60) DEF Typed
<1>5. /\ EgressTyped' /\ EgressEngaged'
      /\ gate'[c] = x /\ \A d \in Calls \ {c} : gate'[d] = gate[d]
  BY <1>1, <1>2, <1>3, GatePut, ZenonT(60) DEF Typed
<1> QED BY <1>2, <1>3, <1>4, <1>5 DEF GateLeft, GateUnchanged, Typed

(* The answer read from the row. *)
LEMMA CheckResolvedLeaves ==
  ASSUME Typed, NEW c \in Calls, CheckResolved(c)
  PROVE  /\ GateLeft(c) /\ UNCHANGED rows
         /\ gate'[c].phase = "answered" /\ gate'[c].on = gate[c].on
         /\ rows[gate[c].on].status = "resolved"
         /\ gate'[c].answer = "allow" => Grants(rows[gate[c].on].verdict)
<1> DEFINE x == [gate[c] EXCEPT
                   !.phase = "answered", !.held = TRUE,
                   !.answer = IF Grants(rows[gate[c].on].verdict) THEN "allow"
                              ELSE "deny"]
<1>1. gate' = [gate EXCEPT ![c] = x] /\ gate[c] \in Gates
  BY DEF CheckResolved, Typed, EgressTyped
<1>2. gate[c].on \in Calls
  BY DEF CheckResolved, Typed, EgressEngaged
<1>3. /\ x \in Gates /\ x.phase = "answered" /\ x.on = gate[c].on
      /\ x.answer = "allow" => Grants(rows[gate[c].on].verdict)
  BY <1>1 DEF Gates, GatePhases
<1> HIDE DEF x
<1>4. /\ GateUnchanged /\ UNCHANGED <<rows, left>>
      /\ rows[gate[c].on].status = "resolved"
  BY DEF CheckResolved
<1>5. /\ EgressTyped' /\ EgressEngaged'
      /\ gate'[c] = x /\ \A d \in Calls \ {c} : gate'[d] = gate[d]
  BY <1>1, <1>2, <1>3, <1>4, GatePut DEF Typed
<1> QED BY <1>3, <1>4, <1>5 DEF GateLeft, GateUnchanged, Typed

(* The timer of a hold. *)
LEMMA HoldEndsLeaves ==
  ASSUME Typed, NEW c \in Calls, HoldEnds(c)
  PROVE  /\ GateLeft(c)
         /\ rows' = ExpirePending(rows, gate[c].on) \/ UNCHANGED rows
         /\ gate[c].on \in Calls
         /\ gate[c].phase = "hold" /\ gate'[c].phase = "ended"
         /\ gate'[c].on = gate[c].on /\ gate'[c].held = gate[c].held
<1> DEFINE x == [gate[c] EXCEPT !.phase = "ended"]
<1>1. gate' = [gate EXCEPT ![c] = x] /\ gate[c] \in Gates
  BY DEF HoldEnds, Typed, EgressTyped
<1>2. gate[c].phase = "hold" /\ gate[c].on \in Calls
  BY DEF HoldEnds, Typed, EgressEngaged, Waiting
<1>3. /\ x \in Gates /\ x.phase = "ended" /\ x.on = gate[c].on
      /\ x.held = gate[c].held
  BY <1>1 DEF Gates, GatePhases
<1> HIDE DEF x
<1>4. /\ GateUnchanged
      /\ \/ rows' = ExpirePending(rows, gate[c].on) /\ UNCHANGED left
         \/ UNCHANGED rows /\ Spend("fail")
  BY DEF HoldEnds
<1>5. /\ rows' \in Tables /\ left' \in Budgets
      /\ \A t \in Tools : rows'[t] = rows[t]
  <2>1. gate[c].on \in Ids /\ gate[c].on \notin Tools
    BY <1>2, IdsOf, KindsDisjoint
  <2>2. LET s == ExpirePending(rows, gate[c].on)
        IN  s \in Tables /\ \A j \in Ids \ {gate[c].on} : s[j] = rows[j]
    BY <2>1, UpdateType, Zenon DEF Typed
  <2>3. left' \in Budgets
    BY <1>4, SpendType DEF Typed, Disturbances
  <2> QED BY <1>4, <2>1, <2>2, <2>3, IdsOf DEF Typed
<1>6. /\ EgressTyped' /\ EgressEngaged'
      /\ gate'[c] = x /\ \A d \in Calls \ {c} : gate'[d] = gate[d]
  BY <1>1, <1>2, <1>3, <1>4, GatePut DEF Typed
<1> QED BY <1>2, <1>3, <1>4, <1>5, <1>6 DEF GateLeft, GateUnchanged

(* The refusal after a hold, and the death of the api-server. *)
LEMMA GateStopsLeaves ==
  ASSUME Typed, NEW c \in Calls, HoldDenies(c) \/ GateDies(c)
  PROVE  /\ GateLeft(c) /\ UNCHANGED rows
         /\ gate'[c].phase \in {"answered", "died"} /\ ~gate'[c].held
<1>1. PICK x \in Gates : /\ gate' = [gate EXCEPT ![c] = x]
                         /\ x.phase \in {"answered", "died"} /\ ~x.held
  <2>1. CASE HoldDenies(c)
    <3>1. gate' = [gate EXCEPT ![c] = Answered("deny")]
      BY <2>1 DEF HoldDenies
    <3> QED BY <3>1, AnsweredType
  <2>2. CASE GateDies(c)
    <3>1. gate' = [gate EXCEPT ![c] = [NoGate EXCEPT !.phase = "died"]]
      BY <2>2 DEF GateDies
    <3>2. LET x == [NoGate EXCEPT !.phase = "died"]
          IN  x \in Gates /\ x.phase = "died" /\ ~x.held
      BY DEF NoGate, Gates, GatePhases
    <3> QED BY <3>1, <3>2
  <2> QED BY <2>1, <2>2
<1>2. GateUnchanged /\ UNCHANGED rows /\ left' \in Budgets
  BY SpendType DEF HoldDenies, GateDies, Typed, Disturbances
<1>3. /\ EgressTyped' /\ EgressEngaged'
      /\ gate'[c] = x /\ \A d \in Calls \ {c} : gate'[d] = gate[d]
  BY <1>1, <1>2, GatePut DEF Typed
<1> QED BY <1>1, <1>2, <1>3 DEF GateLeft, GateUnchanged, Typed

---------------------------------------------------------------------------
(* The steps of the owners, the rules and the proposals *)

(* What a step of one owner's decision leaves. *)
DeskLeft(o) ==
  /\ rows' \in Tables /\ left' \in Budgets
  /\ \A t \in Tools : rows'[t] = rows[t]
  /\ EgressTyped' /\ EgressEngaged'
  /\ \A p \in Owners \ {o} : desk'[p] = desk[p]
  /\ UNCHANGED <<revoked, gate, proposing>>

(* A decision that moves to a legal state leaves the rest. *)
LEMMA DeskPut ==
  ASSUME EgressTyped, EgressEngaged, NEW o \in Owners, NEW x \in Desks,
         x.phase \in {"rule", "resolve", "flip"} =>
           /\ x.row \in Calls \cup Proposals /\ x.verb \in Verbs
           /\ x.phase # "resolve" => WritesRule(x.verb, x.row),
         desk' = [desk EXCEPT ![o] = x],
         rules' \in [Scopes -> {"allow", "deny", None}],
         UNCHANGED <<revoked, gate, proposing>>
  PROVE  /\ EgressTyped' /\ EgressEngaged'
         /\ desk'[o] = x /\ \A p \in Owners \ {o} : desk'[p] = desk[p]
BY DEF EgressTyped, EgressEngaged, Waiting

(* A decision that is over refers to nothing. *)
LEMMA DeskDoneType ==
  DeskDone \in Desks /\ DeskDone.phase = "done"
BY DEF DeskDone, NoDesk, Desks

(* The owner's decision is read with its row. *)
LEMMA LoadOwnedLeaves ==
  ASSUME Typed, NEW o \in Owners, NEW i \in Calls \cup Proposals,
         NEW v \in Verbs, LoadOwned(o, i, v)
  PROVE  /\ DeskLeft(o) /\ UNCHANGED <<rows, rules>>
         /\ desk'[o].phase \in {"rule", "resolve"}
         /\ desk'[o].row = i /\ desk'[o].verb = v
         /\ desk'[o].phase = "rule" <=> WritesRule(v, i)
<1> DEFINE x == [phase |-> IF WritesRule(v, i) THEN "rule" ELSE "resolve",
                 row |-> i, verb |-> v]
<1>1. /\ desk' = [desk EXCEPT ![o] = x]
      /\ UNCHANGED <<rows, left, rules, revoked, gate, proposing>>
  BY DEF LoadOwned, DeskUnchanged
<1>2. /\ x \in Desks /\ x.phase \in {"rule", "resolve"}
      /\ x.row = i /\ x.verb = v
      /\ x.phase = "rule" <=> WritesRule(v, i)
  BY DEF Desks
<1> HIDE DEF x
<1>3. /\ EgressTyped' /\ EgressEngaged'
      /\ desk'[o] = x /\ \A p \in Owners \ {o} : desk'[p] = desk[p]
  BY <1>1, <1>2, DeskPut DEF Typed, EgressTyped
<1> QED BY <1>1, <1>2, <1>3 DEF DeskLeft, Typed

(* The rule is written, kept, or clashes with the decision. *)
LEMMA WriteRuleLeaves ==
  ASSUME Typed, NEW o \in Owners, WriteRule(o)
  PROVE  LET i == desk[o].row
             v == desk[o].verb
             s == ScopeOf(v, i)
         IN  /\ DeskLeft(o) /\ UNCHANGED rows
             /\ \/ desk'[o].phase = "done"
                \/ /\ desk'[o].phase = "resolve"
                   /\ desk'[o].row = i /\ desk'[o].verb = v
                   /\ rules'[s] = VerdictOf(v, i)
             /\ \A z \in Scopes : rules[z] # None => rules'[z] = rules[z]
<1> DEFINE i == desk[o].row
           v == desk[o].verb
           s == ScopeOf(v, i)
           w == VerdictOf(v, i)
           x == IF rules'[s] = w THEN [desk[o] EXCEPT !.phase = "resolve"]
                ELSE DeskDone
<1>1. /\ i \in Calls \cup Proposals /\ v \in Verbs /\ WritesRule(v, i)
      /\ desk[o] \in Desks
  BY DEF WriteRule, Typed, EgressTyped, EgressEngaged
<1>2. s \in Scopes /\ w \in {"allow", "deny"}
  BY <1>1, VerdictOfType
<1>3. /\ rules' = IF rules[s] = None THEN [rules EXCEPT ![s] = w] ELSE rules
      /\ desk' = [desk EXCEPT ![o] = x]
      /\ UNCHANGED <<revoked, gate, proposing, rows, left>>
  BY DEF WriteRule, DeskUnchanged, Typed, EgressTyped
<1> HIDE DEF s, w
<1>4. /\ rules' \in [Scopes -> {"allow", "deny", None}]
      /\ \A z \in Scopes : rules[z] # None => rules'[z] = rules[z]
  BY <1>2, <1>3 DEF Typed, EgressTyped
<1>5. /\ x \in Desks
      /\ \/ x.phase = "done"
         \/ /\ x.phase = "resolve" /\ x.row = i /\ x.verb = v
            /\ rules'[s] = w
  <2>1. CASE rules'[s] = w
    BY <1>1, <2>1 DEF Desks
  <2>2. CASE rules'[s] # w
    BY <2>2, DeskDoneType
  <2> QED BY <2>1, <2>2
<1> HIDE DEF x, i, v
<1>6. /\ EgressTyped' /\ EgressEngaged'
      /\ desk'[o] = x /\ \A p \in Owners \ {o} : desk'[p] = desk[p]
  BY <1>1, <1>3, <1>4, <1>5, DeskPut, ZenonT(60) DEF Typed
<1> QED BY <1>3, <1>4, <1>5, <1>6 DEF DeskLeft, Typed, s, w, i, v

(* The verdict settles a pending row. *)
LEMMA ResolveRowLeaves ==
  ASSUME Typed, NEW o \in Owners, ResolveRow(o)
  PROVE  LET i == desk[o].row
             v == desk[o].verb
         IN  /\ DeskLeft(o) /\ UNCHANGED rules
             /\ i \in Calls \cup Proposals /\ v \in Verbs
             /\ rows' = ResolvePending(rows, i, VerdictOf(v, i),
                                       i \in Proposals)
             /\ \/ desk'[o].phase = "done"
                \/ /\ desk'[o].phase = "flip"
                   /\ desk'[o].row = i /\ desk'[o].verb = v
<1> DEFINE i == desk[o].row
           v == desk[o].verb
           x == IF rows[i].status = "pending" \/ ~WritesRule(v, i)
                THEN DeskDone ELSE [desk[o] EXCEPT !.phase = "flip"]
<1>1. /\ i \in Calls \cup Proposals /\ v \in Verbs
      /\ desk[o] \in Desks
  BY DEF ResolveRow, Typed, EgressTyped, EgressEngaged
<1>2. /\ desk' = [desk EXCEPT ![o] = x]
      /\ rows' = ResolvePending(rows, i, VerdictOf(v, i), i \in Proposals)
      /\ UNCHANGED <<rules, revoked, gate, proposing, left>>
  BY DEF ResolveRow, DeskUnchanged, Typed, EgressTyped
<1>3. rows' \in Tables /\ \A t \in Tools : rows'[t] = rows[t]
  <2>1. VerdictOf(v, i) \in Verdicts /\ (i \in Proposals) \in BOOLEAN
    BY <1>1, VerdictOfType
  <2>2. i \in Ids
    BY <1>1, IdsOf
  <2>3. PICK d \in BOOLEAN : d = (i \in Proposals)
    BY <2>1
  <2>4. LET s == ResolvePending(rows, i, VerdictOf(v, i), d)
        IN  s \in Tables /\ \A j \in Ids \ {i} : s[j] = rows[j]
    BY <2>1, <2>2, UpdateType, ZenonT(60) DEF Typed
  <2>5. rows' = ResolvePending(rows, i, VerdictOf(v, i), d)
    BY <1>2, <2>3
  <2>6. rows' \in Tables /\ \A j \in Ids \ {i} : rows'[j] = rows[j]
    BY <2>4, <2>5, Zenon
  <2> QED BY <1>1, <2>6, IdsOf, KindsDisjoint
<1>4. /\ x \in Desks
      /\ \/ x.phase = "done"
         \/ x.phase = "flip" /\ x.row = i /\ x.verb = v /\ WritesRule(v, i)
  <2>1. CASE rows[i].status = "pending" \/ ~WritesRule(v, i)
    BY <2>1, DeskDoneType
  <2>2. CASE ~(rows[i].status = "pending" \/ ~WritesRule(v, i))
    BY <1>1, <2>2 DEF Desks
  <2> QED BY <2>1, <2>2
<1> HIDE DEF x, i, v
<1>5. /\ EgressTyped' /\ EgressEngaged'
      /\ desk'[o] = x /\ \A p \in Owners \ {o} : desk'[p] = desk[p]
  BY <1>1, <1>2, <1>4, DeskPut, ZenonT(60) DEF Typed, EgressTyped
<1> QED BY <1>1, <1>2, <1>3, <1>4, <1>5 DEF DeskLeft, Typed, i, v

(* The verdict for good settles an expired row. *)
LEMMA FlipExpiredLeaves ==
  ASSUME Typed, NEW o \in Owners, FlipExpired(o)
  PROVE  LET i == desk[o].row
             v == desk[o].verb
         IN  /\ DeskLeft(o) /\ UNCHANGED rules
             /\ i \in Calls \cup Proposals /\ v \in Verbs
             /\ WritesRule(v, i)
             /\ rows' = ResolveExpired(rows, i, VerdictOf(v, i))
             /\ desk'[o].phase = "done"
<1> DEFINE i == desk[o].row
           v == desk[o].verb
<1>1. i \in Calls \cup Proposals /\ v \in Verbs /\ WritesRule(v, i)
  BY DEF FlipExpired, Typed, EgressEngaged
<1>2. /\ desk' = [desk EXCEPT ![o] = DeskDone]
      /\ rows' = ResolveExpired(rows, i, VerdictOf(v, i))
      /\ UNCHANGED <<rules, revoked, gate, proposing, left>>
  BY DEF FlipExpired, DeskUnchanged
<1>3. rows' \in Tables /\ \A t \in Tools : rows'[t] = rows[t]
  <2>1. VerdictOf(v, i) \in Verdicts /\ i \in Ids
    BY <1>1, VerdictOfType, IdsOf
  <2>2. rows' \in Tables /\ \A j \in Ids \ {i} : rows'[j] = rows[j]
    BY <1>2, <2>1, UpdateType, ZenonT(60) DEF Typed
  <2> QED BY <1>1, <2>2, IdsOf, KindsDisjoint
<1> HIDE DEF i, v
<1>4. /\ EgressTyped' /\ EgressEngaged'
      /\ desk'[o] = DeskDone /\ \A p \in Owners \ {o} : desk'[p] = desk[p]
  BY <1>2, DeskDoneType, DeskPut DEF Typed, EgressTyped
<1> QED BY <1>1, <1>2, <1>3, <1>4, DeskDoneType DEF DeskLeft, Typed, i, v

(* The api-server dies in a decision. *)
LEMMA DecisionDiesLeaves ==
  ASSUME Typed, NEW o \in Owners, DecisionDies(o)
  PROVE  DeskLeft(o) /\ UNCHANGED <<rows, rules>> /\ desk'[o].phase = "done"
<1>1. /\ desk' = [desk EXCEPT ![o] = DeskDone]
      /\ UNCHANGED <<rules, revoked, gate, proposing, rows>>
      /\ left' \in Budgets
  BY SpendType DEF DecisionDies, DeskUnchanged, Typed, Disturbances
<1>2. /\ EgressTyped' /\ EgressEngaged'
      /\ desk'[o] = DeskDone /\ \A p \in Owners \ {o} : desk'[p] = desk[p]
  BY <1>1, DeskDoneType, DeskPut DEF Typed, EgressTyped
<1> QED BY <1>1, <1>2, DeskDoneType DEF DeskLeft, Typed

(* A rule is removed. *)
LEMMA RevokeRuleLeaves ==
  ASSUME Typed, NEW s \in Scopes, RevokeRule(s)
  PROVE  /\ left' \in Budgets /\ EgressTyped' /\ EgressEngaged'
         /\ revoked' = revoked \cup {s}
         /\ \A z \in Scopes \ {s} : rules'[z] = rules[z]
         /\ UNCHANGED <<rows, gate, desk, proposing>>
<1>1. left' \in Budgets
  BY SpendType DEF RevokeRule, Typed, Disturbances
<1>2. /\ EgressTyped' /\ revoked' = revoked \cup {s}
      /\ \A z \in Scopes \ {s} : rules'[z] = rules[z]
      /\ UNCHANGED <<rows, gate, desk, proposing>>
  BY DEF RevokeRule, Typed, EgressTyped
<1>3. EgressEngaged'
  BY <1>2 DEF Typed, EgressEngaged, Waiting
<1> QED BY <1>1, <1>2, <1>3

(* The agent proposes, and the proposal is filed. *)
LEMMA ProposalLeaves ==
  ASSUME Typed, NEW p \in Proposals, Propose(p) \/ FileProposal(p)
  PROVE  /\ rows' \in Tables /\ left' \in Budgets
         /\ EgressTyped' /\ EgressEngaged'
         /\ rows' = InsertPending(rows, p) \/ UNCHANGED rows
         /\ UNCHANGED <<rules, revoked, gate, desk>>
<1>1. UNCHANGED <<rules, revoked, gate, desk>>
  BY DEF Propose, FileProposal
<1>2. EgressTyped'
  BY <1>1 DEF Propose, FileProposal, Typed, EgressTyped
<1>3. EgressEngaged'
  BY <1>1 DEF Typed, EgressEngaged, Waiting
<1>4. left' \in Budgets
  BY SpendType DEF Propose, FileProposal, Typed, Disturbances
<1>5. rows' = InsertPending(rows, p) \/ UNCHANGED rows
  BY DEF Propose, FileProposal
<1>6. rows' \in Tables
  BY <1>5, InsertType, IdsOf DEF Typed
<1> QED BY <1>1, <1>2, <1>3, <1>4, <1>5, <1>6

---------------------------------------------------------------------------
(* Holds and settled rows stand on decisions *)

(* A row of the egress is left alone, or is open before and after. *)
EgressRowKept(i) ==
  \/ rows'[i].status = rows[i].status /\ rows'[i].verdict = rows[i].verdict
  \/ rows[i].status = "pending" /\ rows'[i].status = "expired"

(* A settled row keeps its rule while rules are only added or revoked. *)
LEMMA PermanentKept ==
  ASSUME PermanentHasRule, revoked \subseteq revoked',
         \A z \in Scopes : \/ rules[z] = None \/ rules'[z] = rules[z]
                           \/ z \in revoked',
         NEW i \in Calls \cup Proposals, EgressRowKept(i),
         rows'[i].status = "resolved", rows'[i].verdict \in {"allow", "deny"},
         ~(i \in Proposals /\ rows'[i].verdict = "deny")
  PROVE  \E s \in {ShapeOf[i], HostWide} :
           rules'[s] = rows'[i].verdict \/ s \in revoked'
<1>1. PICK s \in {ShapeOf[i], HostWide} :
        rules[s] = rows[i].verdict \/ s \in revoked
  BY DEF PermanentHasRule, EgressRowKept
<1>2. s \in Scopes
  BY ShapesAssumption DEF Scopes
<1>3. rows[i].verdict = rows'[i].verdict /\ None \notin {"allow", "deny"}
  BY KindsDisjoint DEF EgressRowKept, Verdicts
<1> QED BY <1>1, <1>2, <1>3

(* What a step of the gate does to its call and to the rows. *)
GateMoves(c) ==
  /\ \A i \in Calls \cup Proposals :
       \/ EgressRowKept(i)
       \/ i = c /\ rows[i].status = "absent" /\ rows'[i].status = "pending"
  /\ gate'[c].phase \in {"idle", "missed", "new"}
       => rows'[c].status = "absent"
  /\ gate'[c].phase \in {"hold", "ended"} \/ gate'[c].held
       => ShapeOf[gate'[c].on] = ShapeOf[c]
  /\ gate'[c].held => gate'[c].phase = "answered"
  /\ gate'[c].held /\ gate'[c].answer = "allow" =>
       /\ rows[gate'[c].on].status = "resolved"
       /\ Grants(rows[gate'[c].on].verdict)

(* A step of the gate that moves so is safe. *)
LEMMA GateSafe ==
  ASSUME Typed, EgressSafe, NEW c \in Calls, GateLeft(c), GateMoves(c)
  PROVE  EgressSafe'
<1>1. \A d \in Calls : gate'[d].held => gate'[d].on \in Calls
  BY DEF GateLeft, EgressEngaged
<1>2. Unasked'
  BY DEF EgressSafe, Unasked, GateLeft, GateMoves, EgressRowKept
<1>3. HoldsMatch'
  BY DEF EgressSafe, HoldsMatch, GateLeft, GateMoves, Waiting
<1>4. RuleWritten'
  BY DEF EgressSafe, RuleWritten, GateLeft
<1>5. AllowIsGranted'
  <2> SUFFICES ASSUME NEW d \in Calls,
                      gate'[d].held /\ gate'[d].answer = "allow"
               PROVE  LET r == gate'[d].on
                      IN  /\ ShapeOf[r] = ShapeOf[d]
                          /\ rows'[r].status = "resolved"
                          /\ Grants(rows'[r].verdict)
    BY DEF AllowIsGranted, Grants
  <2> DEFINE r == gate'[d].on
  <2>1. r \in Calls
    BY <1>1
  <2>2. ShapeOf[r] = ShapeOf[d]
    BY <1>3 DEF HoldsMatch
  <2>3. rows[r].status = "resolved" /\ Grants(rows[r].verdict)
    <3>1. CASE d = c
      BY <3>1 DEF GateMoves
    <3>2. CASE d # c
      BY <3>2 DEF EgressSafe, AllowIsGranted, GateLeft
    <3> QED BY <3>1, <3>2
  <2>4. EgressRowKept(r)
    BY <2>1, <2>3 DEF GateMoves
  <2> QED BY <2>2, <2>3, <2>4 DEF EgressRowKept
<1>6. PermanentHasRule'
  <2> SUFFICES ASSUME NEW i \in Calls \cup Proposals,
                      rows'[i].status = "resolved",
                      rows'[i].verdict \in {"allow", "deny"},
                      ~(i \in Proposals /\ rows'[i].verdict = "deny")
               PROVE  \E s \in {ShapeOf[i], HostWide} :
                        rules'[s] = rows'[i].verdict \/ s \in revoked'
    BY DEF PermanentHasRule
  <2>1. EgressRowKept(i)
    BY DEF GateMoves
  <2>2. PermanentHasRule
    BY DEF EgressSafe
  <2>3. revoked' = revoked /\ rules' = rules
    BY DEF GateLeft
  <2> QED BY <2>1, <2>2, <2>3, PermanentKept
<1> QED BY <1>2, <1>3, <1>4, <1>5, <1>6 DEF EgressSafe

(* Every step of the gate is safe: a call joins a question of its own      *)
(* shape only, asks its own only once, and is let through on a verdict it  *)
(* has just read.                                                          *)
LEMMA GateStepSafe ==
  ASSUME Typed, EgressSafe, NEW c \in Calls,
         GateStep(c) \/ GateDies(c) \/ \E b \in BOOLEAN : GateMatch(c, b)
  PROVE  GateLeft(c) /\ GateMoves(c) /\ EgressSafe'
<1>0. /\ gate[c].phase \in {"idle", "missed", "new"} => rows[c].status = "absent"
      /\ Waiting(c) \/ gate[c].held => ShapeOf[gate[c].on] = ShapeOf[c]
      /\ gate[c].held => gate[c].phase = "answered"
  BY DEF EgressSafe, Unasked, HoldsMatch
<1>1. CASE \E b \in BOOLEAN : GateMatch(c, b)
  <2>1. PICK b \in BOOLEAN : GateMatch(c, b)
    BY <1>1
  <2>2. gate[c].phase = "idle"
    BY <2>1 DEF GateMatch
  <2>3. /\ GateLeft(c) /\ UNCHANGED rows
        /\ gate'[c].phase \in {"missed", "answered"}
        /\ ~gate'[c].held
    BY <1>0, <2>1, <2>2, GateMatchLeaves
  <2>4. GateMoves(c)
    BY <1>0, <2>2, <2>3 DEF GateMoves, EgressRowKept
  <2> QED BY <2>3, <2>4, GateSafe, Zenon
<1>2. CASE \E b \in BOOLEAN : GateFind(c, b)
  <2>1. PICK b \in BOOLEAN : GateFind(c, b)
    BY <1>2
  <2>2. gate[c].phase = "missed"
    BY <2>1 DEF GateFind
  <2>3. /\ GateLeft(c) /\ UNCHANGED rows
        /\ gate'[c].phase \in {"new", "answered", "hold"}
        /\ gate'[c].phase = "hold" => gate'[c].on \in ActiveRows(c)
        /\ ~gate'[c].held
    BY <1>0, <2>1, <2>2, GateFindLeaves
  <2>4. gate'[c].phase = "hold" => ShapeOf[gate'[c].on] = ShapeOf[c]
    BY <2>3 DEF ActiveRows
  <2>5. GateMoves(c)
    BY <1>0, <2>2, <2>3, <2>4 DEF GateMoves, EgressRowKept
  <2> QED BY <2>3, <2>5, GateSafe, Zenon
<1>3. CASE GateInsert(c)
  <2>1. gate[c].phase = "new"
    BY <1>3 DEF GateInsert
  <2>2. /\ GateLeft(c) /\ rows' = InsertPending(rows, c)
        /\ gate'[c].phase \in {"answered", "hold"}
        /\ gate'[c].phase = "hold" => gate'[c].on = c
        /\ ~gate'[c].held
    BY <1>0, <1>3, <2>1, GateInsertLeaves
  <2>3. c \in Ids /\ rows \in Tables /\ rows[c].status = "absent"
    BY <1>0, <2>1, IdsOf DEF Typed
  <2>4. /\ rows'[c].status = "pending"
        /\ \A i \in Ids \ {c} : rows'[i] = rows[i]
    BY <2>2, <2>3, InsertType DEF Reusable
  <2>5. GateMoves(c)
    BY <2>2, <2>3, <2>4, IdsOf DEF GateMoves, EgressRowKept
  <2> QED BY <2>2, <2>5, GateSafe, Zenon
<1>4. CASE CheckResolved(c)
  <2>1. /\ GateLeft(c) /\ UNCHANGED rows
        /\ gate'[c].phase = "answered" /\ gate'[c].on = gate[c].on
        /\ rows[gate[c].on].status = "resolved"
        /\ gate'[c].answer = "allow" => Grants(rows[gate[c].on].verdict)
    BY <1>4, CheckResolvedLeaves
  <2>2. ShapeOf[gate[c].on] = ShapeOf[c]
    BY <1>0, <1>4 DEF CheckResolved
  <2>3. GateMoves(c)
    BY <2>1, <2>2 DEF GateMoves, EgressRowKept
  <2> QED BY <2>1, <2>3, GateSafe, Zenon
<1>5. CASE HoldEnds(c)
  <2>1. /\ GateLeft(c)
        /\ rows' = ExpirePending(rows, gate[c].on) \/ UNCHANGED rows
        /\ gate[c].on \in Calls
        /\ gate[c].phase = "hold" /\ gate'[c].phase = "ended"
        /\ gate'[c].on = gate[c].on /\ gate'[c].held = gate[c].held
    BY <1>5, HoldEndsLeaves
  <2>2. ~gate[c].held /\ ShapeOf[gate[c].on] = ShapeOf[c]
    BY <1>0, <2>1 DEF Waiting
  <2>3. \A i \in Ids : EgressRowKept(i)
    <3>1. CASE UNCHANGED rows
      BY <3>1 DEF EgressRowKept
    <3>2. CASE rows' = ExpirePending(rows, gate[c].on)
      <4>1. gate[c].on \in Ids /\ rows \in Tables
        BY <2>1, IdsOf DEF Typed
      <4> DEFINE r == gate[c].on
      <4> HIDE DEF r
      <4>2. /\ \A j \in Ids \ {r} : rows'[j] = rows[j]
            /\ IF rows[r].status = "pending" THEN rows'[r].status = "expired"
               ELSE rows' = rows
        BY <3>2, <4>1, UpdateType, ZenonT(60) DEF r
      <4> QED BY <4>2 DEF EgressRowKept
    <3> QED BY <2>1, <3>1, <3>2
  <2>4. GateMoves(c)
    BY <2>1, <2>2, <2>3, IdsOf DEF GateMoves
  <2> QED BY <2>1, <2>4, GateSafe, Zenon
<1>6. CASE HoldDenies(c) \/ GateDies(c)
  <2>1. /\ GateLeft(c) /\ UNCHANGED rows
        /\ gate'[c].phase \in {"answered", "died"} /\ ~gate'[c].held
    BY <1>6, GateStopsLeaves, Zenon
  <2>2. GateMoves(c)
    BY <2>1 DEF GateMoves, EgressRowKept
  <2> QED BY <2>1, <2>2, GateSafe, Zenon
<1> QED BY <1>1, <1>2, <1>3, <1>4, <1>5, <1>6 DEF GateStep

(* The verdict of a settled row has its rule. *)
Backed(i) ==
  rows[i].verdict \in {"allow", "deny"}
    /\ ~(i \in Proposals /\ rows[i].verdict = "deny") =>
    \E s \in {ShapeOf[i], HostWide} :
      rules[s] = rows[i].verdict \/ s \in revoked

(* What a step of a decision does to the rows, the rules and itself. *)
DeskMoves(o) ==
  /\ \A i \in Calls \cup Proposals :
       \/ EgressRowKept(i)
       \/ rows[i].status \in {"pending", "expired"} /\ Backed(i)'
  /\ \A z \in Scopes : rules[z] = None \/ rules'[z] = rules[z]
  /\ LET i == desk'[o].row
         v == desk'[o].verb
     IN  desk'[o].phase \in {"resolve", "flip"} /\ WritesRule(v, i) =>
           \/ rules'[ScopeOf(v, i)] = VerdictOf(v, i)
           \/ ScopeOf(v, i) \in revoked

(* A step of a decision that moves so is safe. *)
LEMMA DeskSafe ==
  ASSUME Typed, EgressSafe, NEW o \in Owners, DeskLeft(o), DeskMoves(o)
  PROVE  EgressSafe'
<1>1. \A c \in Calls : gate[c].held => gate[c].on \in Calls
  BY DEF Typed, EgressEngaged
<1>2. Unasked'
  BY DEF EgressSafe, Unasked, DeskLeft, DeskMoves, EgressRowKept
<1>3. HoldsMatch'
  BY DEF EgressSafe, HoldsMatch, DeskLeft, Waiting
<1>4. RuleWritten'
  <2> SUFFICES ASSUME NEW p \in Owners,
                      desk'[p].phase \in {"resolve", "flip"},
                      WritesRule(desk'[p].verb, desk'[p].row)
               PROVE  LET s == ScopeOf(desk'[p].verb, desk'[p].row)
                      IN  \/ rules'[s] = VerdictOf(desk'[p].verb, desk'[p].row)
                          \/ s \in revoked'
    BY DEF RuleWritten, WritesRule, Declines, ScopeOf, VerdictOf
  <2>1. CASE p = o
    BY <2>1 DEF DeskMoves, DeskLeft
  <2>2. CASE p # o
    <3> DEFINE i == desk[p].row
               v == desk[p].verb
    <3>1. desk'[p] = desk[p] /\ revoked' = revoked
      BY <2>2 DEF DeskLeft
    <3>2. rules[ScopeOf(v, i)] = VerdictOf(v, i) \/ ScopeOf(v, i) \in revoked
      BY <3>1 DEF EgressSafe, RuleWritten
    <3>3. i \in Calls \cup Proposals /\ v \in Verbs
      BY <3>1 DEF Typed, EgressEngaged
    <3>4. ScopeOf(v, i) \in Scopes /\ VerdictOf(v, i) # None
      BY <3>3, VerdictOfType, KindsDisjoint
    <3>5. rules[ScopeOf(v, i)] = None
            \/ rules'[ScopeOf(v, i)] = rules[ScopeOf(v, i)]
      BY <3>4 DEF DeskMoves
    <3> QED BY <3>1, <3>2, <3>4, <3>5
  <2> QED BY <2>1, <2>2
<1>5. AllowIsGranted'
  <2> SUFFICES ASSUME NEW d \in Calls,
                      gate'[d].held /\ gate'[d].answer = "allow"
               PROVE  LET r == gate'[d].on
                      IN  /\ ShapeOf[r] = ShapeOf[d]
                          /\ rows'[r].status = "resolved"
                          /\ Grants(rows'[r].verdict)
    BY DEF AllowIsGranted, Grants
  <2>1. gate' = gate
    BY DEF DeskLeft
  <2> DEFINE r == gate[d].on
  <2>2. /\ r \in Calls /\ ShapeOf[r] = ShapeOf[d]
        /\ rows[r].status = "resolved" /\ Grants(rows[r].verdict)
    BY <1>1, <2>1 DEF EgressSafe, AllowIsGranted
  <2>3. EgressRowKept(r)
    BY <2>2 DEF DeskMoves
  <2> QED BY <2>1, <2>2, <2>3 DEF EgressRowKept
<1>6. PermanentHasRule'
  <2> SUFFICES ASSUME NEW i \in Calls \cup Proposals,
                      rows'[i].status = "resolved",
                      rows'[i].verdict \in {"allow", "deny"},
                      ~(i \in Proposals /\ rows'[i].verdict = "deny")
               PROVE  \E s \in {ShapeOf[i], HostWide} :
                        rules'[s] = rows'[i].verdict \/ s \in revoked'
    BY DEF PermanentHasRule
  <2>1. CASE EgressRowKept(i)
    <3>1. PermanentHasRule /\ revoked' = revoked
      BY DEF EgressSafe, DeskLeft
    <3>2. \A z \in Scopes : rules[z] = None \/ rules'[z] = rules[z]
      BY DEF DeskMoves
    <3> QED BY <2>1, <3>1, <3>2, PermanentKept
  <2>2. CASE ~EgressRowKept(i)
    BY <2>2 DEF DeskMoves, Backed
  <2> QED BY <2>1, <2>2
<1> QED BY <1>2, <1>3, <1>4, <1>5, <1>6 DEF EgressSafe

(* A row settled by a decision whose rule is written has its rule. *)
LEMMA DecisionBacks ==
  ASSUME NEW v \in Verbs, NEW i \in Calls \cup Proposals,
         WritesRule(v, i) => \/ rules'[ScopeOf(v, i)] = VerdictOf(v, i)
                             \/ ScopeOf(v, i) \in revoked',
         rows'[i].verdict = VerdictOf(v, i)
  PROVE  Backed(i)'
<1>1. CASE WritesRule(v, i)
  BY <1>1 DEF Backed, ScopeOf
<1>2. CASE ~WritesRule(v, i)
  <2>1. \/ VerdictOf(v, i) \in {"allow_once", "deny_once"}
        \/ VerdictOf(v, i) = "deny" /\ i \in Proposals
    BY <1>2 DEF WritesRule, Permanent, Declines, Verbs, VerdictOf
  <2> QED BY <2>1 DEF Backed
<1> QED BY <1>1, <1>2

(* Every step of a decision is safe: the rule is there before the row is   *)
(* settled, and only an open or an expired row is.                         *)
LEMMA DeskStepSafe ==
  ASSUME Typed, EgressSafe, NEW o \in Owners,
         \/ DeskStep(o) \/ DecisionDies(o)
         \/ \E i \in Calls \cup Proposals, v \in Verbs : LoadOwned(o, i, v)
  PROVE  DeskLeft(o) /\ DeskMoves(o) /\ EgressSafe'
<1>i. PICK i : i = desk[o].row
  OBVIOUS
<1>v. PICK v : v = desk[o].verb
  OBVIOUS
<1>0. desk[o].phase \in {"resolve", "flip"} /\ WritesRule(v, i) =>
        rules[ScopeOf(v, i)] = VerdictOf(v, i) \/ ScopeOf(v, i) \in revoked
  BY <1>i, <1>v DEF EgressSafe, RuleWritten
<1>1. CASE \E j \in Calls \cup Proposals, w \in Verbs : LoadOwned(o, j, w)
  <2>1. PICK j \in Calls \cup Proposals, w \in Verbs : LoadOwned(o, j, w)
    BY <1>1
  <2>2. /\ DeskLeft(o) /\ UNCHANGED <<rows, rules>>
        /\ desk'[o].phase \in {"rule", "resolve"}
        /\ desk'[o].row = j /\ desk'[o].verb = w
        /\ desk'[o].phase = "rule" <=> WritesRule(w, j)
    BY <2>1, LoadOwnedLeaves, Zenon
  <2>3. DeskMoves(o)
    BY <2>2 DEF DeskMoves, EgressRowKept
  <2> QED BY <2>2, <2>3, DeskSafe, Zenon
<1>2. CASE WriteRule(o)
  <2>1. /\ DeskLeft(o) /\ UNCHANGED rows
        /\ \/ desk'[o].phase = "done"
           \/ /\ desk'[o].phase = "resolve"
              /\ desk'[o].row = i /\ desk'[o].verb = v
              /\ rules'[ScopeOf(v, i)] = VerdictOf(v, i)
        /\ \A z \in Scopes : rules[z] # None => rules'[z] = rules[z]
    BY <1>2, <1>i, <1>v, WriteRuleLeaves
  <2>2. DeskMoves(o)
    BY <2>1 DEF DeskMoves, EgressRowKept
  <2> QED BY <2>1, <2>2, DeskSafe, Zenon
<1>3. CASE ResolveRow(o)
  <2>1. /\ DeskLeft(o) /\ UNCHANGED rules
        /\ i \in Calls \cup Proposals /\ v \in Verbs
        /\ rows' = ResolvePending(rows, i, VerdictOf(v, i), i \in Proposals)
        /\ \/ desk'[o].phase = "done"
           \/ /\ desk'[o].phase = "flip"
              /\ desk'[o].row = i /\ desk'[o].verb = v
    BY <1>3, <1>i, <1>v, ResolveRowLeaves
  <2>2. desk[o].phase = "resolve"
    BY <1>3 DEF ResolveRow
  <2>3. revoked' = revoked
    BY <2>1 DEF DeskLeft
  <2>4. /\ i \in Ids /\ rows \in Tables /\ VerdictOf(v, i) \in Verdicts
        /\ (i \in Proposals) \in BOOLEAN
    BY <2>1, IdsOf, VerdictOfType DEF Typed
  <2>5. /\ \A j \in Ids \ {i} : rows'[j] = rows[j]
        /\ IF rows[i].status = "pending"
           THEN rows'[i].status = "resolved"
                /\ rows'[i].verdict = VerdictOf(v, i)
           ELSE rows' = rows
    <3>1. PICK d \in BOOLEAN : d = (i \in Proposals)
      BY <2>4
    <3>2. PICK w \in Verdicts : w = VerdictOf(v, i)
      BY <2>4
    <3>3. rows' = ResolvePending(rows, i, w, d)
      BY <2>1, <3>1, <3>2
    <3>4. LET s == ResolvePending(rows, i, w, d)
          IN  /\ \A j \in Ids \ {i} : s[j] = rows[j]
              /\ IF rows[i].status = "pending"
                 THEN s[i].status = "resolved" /\ s[i].verdict = w
                 ELSE s = rows
      BY <2>4, UpdateType, ZenonT(60)
    <3> QED BY <3>2, <3>3, <3>4, Zenon
  <2>6. rows[i].status = "pending" => Backed(i)'
    BY <1>0, <2>1, <2>2, <2>3, <2>5, DecisionBacks
  <2>7. DeskMoves(o)
    BY <1>0, <2>1, <2>2, <2>5, <2>6, IdsOf DEF DeskMoves, EgressRowKept
  <2> QED BY <2>1, <2>7, DeskSafe, Zenon
<1>4. CASE FlipExpired(o)
  <2>1. /\ DeskLeft(o) /\ UNCHANGED rules
        /\ i \in Calls \cup Proposals /\ v \in Verbs
        /\ rows' = ResolveExpired(rows, i, VerdictOf(v, i))
        /\ desk'[o].phase = "done"
    BY <1>4, <1>i, <1>v, FlipExpiredLeaves
  <2>2. desk[o].phase = "flip"
    BY <1>4 DEF FlipExpired
  <2>3. revoked' = revoked
    BY <2>1 DEF DeskLeft
  <2>4. i \in Ids /\ rows \in Tables /\ VerdictOf(v, i) \in Verdicts
    BY <2>1, IdsOf, VerdictOfType DEF Typed
  <2>5. /\ \A j \in Ids \ {i} : rows'[j] = rows[j]
        /\ IF rows[i].status = "expired"
           THEN rows'[i].status = "resolved"
                /\ rows'[i].verdict = VerdictOf(v, i)
           ELSE rows' = rows
    BY <2>1, <2>4, UpdateType, ZenonT(60)
  <2>6. rows[i].status = "expired" => Backed(i)'
    BY <1>0, <2>1, <2>2, <2>3, <2>5, DecisionBacks
  <2>7. DeskMoves(o)
    BY <2>1, <2>5, <2>6, IdsOf DEF DeskMoves, EgressRowKept
  <2> QED BY <2>1, <2>7, DeskSafe, Zenon
<1>5. CASE DecisionDies(o)
  <2>1. DeskLeft(o) /\ UNCHANGED <<rows, rules>> /\ desk'[o].phase = "done"
    BY <1>5, DecisionDiesLeaves, Zenon
  <2>2. DeskMoves(o)
    BY <2>1 DEF DeskMoves, EgressRowKept
  <2> QED BY <2>1, <2>2, DeskSafe, Zenon
<1> QED BY <1>1, <1>2, <1>3, <1>4, <1>5 DEF DeskStep

(* What neither the gate nor a decision does keeps the egress safe: rows   *)
(* expire, a proposal is asked again, rules are revoked.                   *)
LEMMA EgressKept ==
  ASSUME Typed, EgressSafe, UNCHANGED <<gate, desk>>,
         revoked \subseteq revoked',
         \A z \in Scopes : rules'[z] = rules[z] \/ z \in revoked',
         \A i \in Calls : EgressRowKept(i),
         \A i \in Proposals : EgressRowKept(i) \/ rows'[i].status = "pending"
  PROVE  EgressSafe'
<1>1. Unasked'
  BY DEF EgressSafe, Unasked, EgressRowKept
<1>2. HoldsMatch'
  BY DEF EgressSafe, HoldsMatch, Waiting
<1>3. RuleWritten'
  <2> SUFFICES ASSUME NEW p \in Owners,
                      desk[p].phase \in {"resolve", "flip"},
                      WritesRule(desk[p].verb, desk[p].row)
               PROVE  LET s == ScopeOf(desk[p].verb, desk[p].row)
                      IN  \/ rules'[s] = VerdictOf(desk[p].verb, desk[p].row)
                          \/ s \in revoked'
    BY DEF RuleWritten, WritesRule, Declines, ScopeOf, VerdictOf
  <2> DEFINE i == desk[p].row
             v == desk[p].verb
  <2>1. rules[ScopeOf(v, i)] = VerdictOf(v, i) \/ ScopeOf(v, i) \in revoked
    BY DEF EgressSafe, RuleWritten
  <2>2. ScopeOf(v, i) \in Scopes
    BY VerdictOfType DEF Typed, EgressEngaged
  <2> QED BY <2>1, <2>2
<1>4. AllowIsGranted'
  BY DEF EgressSafe, AllowIsGranted, Typed, EgressEngaged, EgressRowKept, Grants
<1>5. PermanentHasRule'
  <2> SUFFICES ASSUME NEW i \in Calls \cup Proposals,
                      rows'[i].status = "resolved",
                      rows'[i].verdict \in {"allow", "deny"},
                      ~(i \in Proposals /\ rows'[i].verdict = "deny")
               PROVE  \E s \in {ShapeOf[i], HostWide} :
                        rules'[s] = rows'[i].verdict \/ s \in revoked'
    BY DEF PermanentHasRule
  <2>1. EgressRowKept(i) /\ PermanentHasRule
    BY DEF EgressSafe
  <2> QED BY <2>1, PermanentKept
<1> QED BY <1>1, <1>2, <1>3, <1>4, <1>5 DEF EgressSafe

(* What a step of the egress leaves: it touches no tool's row, and leaves  *)
(* a settled row alone unless its proposal is made again.                  *)
LEMMA EgressStep ==
  ASSUME Typed, EgressSafe, EgressNext
  PROVE  /\ rows' \in Tables /\ left' \in Budgets
         /\ EgressTyped' /\ EgressEngaged' /\ EgressSafe'
         /\ \A t \in Tools : rows'[t] = rows[t]
         /\ \A i \in Calls \cup Proposals : rows[i].status = "resolved" =>
              \/ EgressRowKept(i)
              \/ /\ i \in Proposals /\ rows[i].delivered
                 /\ rows'[i].status = "pending"
<1>1. ASSUME NEW c \in Calls,
             GateStep(c) \/ GateDies(c) \/ \E b \in BOOLEAN : GateMatch(c, b)
      PROVE  GateLeft(c) /\ GateMoves(c) /\ EgressSafe'
  BY <1>1, GateStepSafe, Zenon
<1>2. ASSUME NEW o \in Owners,
             \/ DeskStep(o) \/ DecisionDies(o)
             \/ \E i \in Calls \cup Proposals, v \in Verbs : LoadOwned(o, i, v)
      PROVE  DeskLeft(o) /\ DeskMoves(o) /\ EgressSafe'
  BY <1>2, DeskStepSafe, Zenon
<1>3. CASE \E c \in Calls :
             GateStep(c) \/ GateDies(c) \/ \E b \in BOOLEAN : GateMatch(c, b)
  <2>1. PICK c \in Calls : GateLeft(c) /\ GateMoves(c) /\ EgressSafe'
    BY <1>1, <1>3, Zenon
  <2> QED BY <2>1 DEF GateLeft, GateMoves
<1>4. CASE \E o \in Owners :
             \/ DeskStep(o) \/ DecisionDies(o)
             \/ \E i \in Calls \cup Proposals, v \in Verbs : LoadOwned(o, i, v)
  <2>1. PICK o \in Owners : DeskLeft(o) /\ DeskMoves(o) /\ EgressSafe'
    BY <1>2, <1>4, Zenon
  <2> QED BY <2>1 DEF DeskLeft, DeskMoves
<1>5. CASE \E s \in Scopes : RevokeRule(s)
  <2>1. PICK s \in Scopes : RevokeRule(s)
    BY <1>5
  <2>2. /\ left' \in Budgets /\ EgressTyped' /\ EgressEngaged'
        /\ revoked' = revoked \cup {s}
        /\ \A z \in Scopes \ {s} : rules'[z] = rules[z]
        /\ UNCHANGED <<rows, gate, desk, proposing>>
    BY <2>1, RevokeRuleLeaves, Zenon
  <2>3. \A i \in Ids : EgressRowKept(i)
    BY <2>2 DEF EgressRowKept
  <2>4. EgressSafe'
    BY <2>2, <2>3, EgressKept, IdsOf
  <2> QED BY <2>2, <2>3, <2>4, IdsOf DEF Typed
<1>6. CASE \E p \in Proposals : Propose(p) \/ FileProposal(p)
  <2>1. PICK p \in Proposals : Propose(p) \/ FileProposal(p)
    BY <1>6
  <2>2. /\ rows' \in Tables /\ left' \in Budgets
        /\ EgressTyped' /\ EgressEngaged'
        /\ rows' = InsertPending(rows, p) \/ UNCHANGED rows
        /\ UNCHANGED <<rules, revoked, gate, desk>>
    BY <2>1, ProposalLeaves, Zenon
  <2>3. p \in Ids /\ p \notin Calls \cup Tools /\ rows \in Tables
    BY IdsOf, KindsDisjoint DEF Typed
  <2>4. /\ \A i \in Ids \ {p} : rows'[i] = rows[i]
        /\ \/ rows'[p] = rows[p]
           \/ Reusable(rows[p]) /\ rows'[p].status = "pending"
    <3>1. LET s == InsertPending(rows, p)
          IN  /\ \A i \in Ids \ {p} : s[i] = rows[i]
              /\ IF Reusable(rows[p]) THEN s[p].status = "pending"
                 ELSE s = rows
      BY <2>3, InsertType, Zenon
    <3> QED BY <2>2, <3>1
  <2>5. /\ \A i \in Calls : EgressRowKept(i)
        /\ \A i \in Proposals :
             \/ EgressRowKept(i)
             \/ Reusable(rows[i]) /\ rows'[i].status = "pending"
        /\ \A t \in Tools : rows'[t] = rows[t]
    BY <2>3, <2>4, IdsOf DEF EgressRowKept
  <2>6. EgressSafe'
    BY <2>2, <2>5, EgressKept
  <2> QED BY <2>2, <2>5, <2>6 DEF Reusable
<1> QED BY <1>3, <1>4, <1>5, <1>6 DEF EgressNext

---------------------------------------------------------------------------
(* The steps of the tool permissions *)

(* A tool's row is never taken back, reopened or decided anew. *)
ToolRowKept(t) ==
  /\ rows[t].status # "absent" => rows'[t].status # "absent"
  /\ rows[t].status = "expired" => rows'[t].status = "expired"
  /\ rows[t].status = "resolved" =>
       rows'[t].status = "resolved" /\ rows'[t].verdict = rows[t].verdict

(* What a step of the tool permissions does to the table. *)
RowsKept ==
  /\ rows' \in Tables
  /\ \A i \in Calls \cup Proposals : EgressRowKept(i)
  /\ \A t \in Tools : ToolRowKept(t)

(* The report of an end may start over or be given up at any time, and     *)
(* otherwise knows the answer it reports.                                  *)
EndsKept ==
  \A t \in Tools :
    \/ end'[t].phase \in {"idle", "read", "insert", "lost"}
    \/ end'[t].phase = end[t].phase /\ ask'[t].given = ask[t].given

(* A step that does so much is safe. *)
LEMMA EndKept ==
  ASSUME EndSafe, RowsKept, EndsKept
  PROVE  EndSafe'
BY DEF EndSafe, EndAt, Closed, RowsKept, ToolRowKept, EndsKept

(* A step that leaves the table alone keeps its rows. *)
LEMMA SameRowsKept ==
  ASSUME rows \in Tables, UNCHANGED rows
  PROVE  RowsKept
BY DEF RowsKept, EgressRowKept, ToolRowKept

(* A statement on a tool's row touches no other, and what it does to this  *)
(* one is a step forward.                                                  *)
LEMMA OneRowKept ==
  ASSUME rows' \in Tables, NEW t \in Tools,
         \A j \in Ids \ {t} : rows'[j] = rows[j], ToolRowKept(t)
  PROVE  RowsKept
BY IdsOf, KindsDisjoint DEF RowsKept, EgressRowKept, ToolRowKept

(* The mark of a delivered answer changes nothing else. *)
LEMMA MarkKept ==
  ASSUME rows \in Tables, NEW t \in Tools, rows' = MarkDelivered(rows, t)
  PROVE  RowsKept
<1>1. LET s == MarkDelivered(rows, t)
      IN  /\ s \in Tables /\ \A j \in Ids \ {t} : s[j] = rows[j]
          /\ s[t].status = rows[t].status /\ s[t].verdict = rows[t].verdict
  BY IdsOf, UpdateType, ZenonT(60)
<1>2. ToolRowKept(t)
  BY <1>1 DEF ToolRowKept
<1> QED BY <1>1, <1>2, OneRowKept

(* The runtime's hold on a request begins and ends. *)
LEMMA RequestSafe ==
  ASSUME Typed, EndSafe, NEW t \in Tools,
         \/ OnAgentRequest(t) \/ CancelApprovals(t) \/ AbortRequest(t)
         \/ \E v \in Offered : ClientAnswers(t, v)
  PROVE  RowsKept /\ left' \in Budgets /\ ToolTyped' /\ ToolEngaged' /\ EndSafe'
<1>0. Offered \subseteq Verdicts /\ "deny_once" \in Verdicts
  BY OfferedAssumption DEF Verdicts
<1>1. RowsKept /\ left' \in Budgets /\ UNCHANGED <<reply, frames, sweep>>
  BY SameRowsKept DEF Typed, OnAgentRequest, CancelApprovals, AbortRequest,
     ClientAnswers
<1>2. CASE OnAgentRequest(t)
  <2>1. ToolTyped'
    BY <1>1, <1>2 DEF Typed, ToolTyped, OnAgentRequest, Asks
  <2>2. ToolEngaged'
    BY <1>1, <1>2 DEF Typed, ToolTyped, ToolEngaged, OnAgentRequest, Asks
  <2>3. EndsKept
    BY <1>2 DEF Typed, ToolTyped, OnAgentRequest, EndsKept, Asks
  <2> QED BY <1>1, <2>1, <2>2, <2>3, EndKept
<1>3. ASSUME NEW st \in {"answered", "dropped"},
             NEW v \in Verdicts \cup {None}, Held(t), EndsWith(t, st, v)
      PROVE  /\ ask' \in [Tools -> Asks] /\ end' \in [Tools -> Ends]
             /\ \A s \in Tools \ {t} : ask'[s] = ask[s] /\ end'[s] = end[s]
             /\ ask'[t].st = st /\ end'[t].phase = "read"
             /\ end'[t].tries = end[t].tries
             /\ end[t].phase = "idle"
  BY <1>3 DEF Typed, ToolTyped, ToolEngaged, Held, EndsWith, Asks, Ends
<1>4. CASE CancelApprovals(t) \/ AbortRequest(t)
           \/ \E v \in Offered : ClientAnswers(t, v)
  <2>1. PICK st \in {"answered", "dropped"}, v \in Verdicts \cup {None} :
          /\ Held(t) /\ EndsWith(t, st, v)
          /\ UNCHANGED rec
          /\ \/ UNCHANGED mirror
             \/ /\ mirror' = [mirror EXCEPT ![t] =
                                [phase |-> "read", verdict |-> v]]
                /\ v \in Verdicts
    BY <1>0, <1>4 DEF CancelApprovals, AbortRequest, ClientAnswers
  <2>2. /\ ask' \in [Tools -> Asks] /\ end' \in [Tools -> Ends]
        /\ \A s \in Tools \ {t} : ask'[s] = ask[s] /\ end'[s] = end[s]
        /\ ask'[t].st = st /\ end'[t].phase = "read"
        /\ end'[t].tries = end[t].tries
        /\ end[t].phase = "idle"
    BY <1>3, <2>1
  <2>3. /\ mirror' \in [Tools -> Mirrors]
        /\ \A s \in Tools :
             mirror'[s].phase # "idle" => mirror'[s].verdict \in Verdicts
    <3>1. CASE UNCHANGED mirror
      BY <3>1 DEF Typed, ToolTyped, ToolEngaged
    <3>2. CASE /\ mirror' = [mirror EXCEPT ![t] =
                               [phase |-> "read", verdict |-> v]]
               /\ v \in Verdicts
      BY <3>2 DEF Typed, ToolTyped, ToolEngaged, Mirrors
    <3> QED BY <2>1, <3>1, <3>2
  <2>4. ToolTyped'
    BY <1>1, <2>1, <2>2, <2>3 DEF Typed, ToolTyped
  <2>5. ToolEngaged'
    BY <1>1, <2>2, <2>3 DEF Typed, ToolEngaged
  <2>6. EndsKept
    BY <2>2 DEF EndsKept
  <2> QED BY <1>1, <2>4, <2>5, <2>6, EndKept
<1> QED BY <1>2, <1>4

(* An answer arrives at the runtime. *)
LEMMA FrameArrivesSafe ==
  ASSUME Typed, EndSafe, NEW f \in frames, FrameArrives(f)
  PROVE  RowsKept /\ left' \in Budgets /\ ToolTyped' /\ ToolEngaged' /\ EndSafe'
<1>0. f.row \in Tools /\ PickOption(f.verdict) \in Verdicts
  BY DEF Typed, ToolTyped, Frames, PickOption, Verdicts
<1>1. /\ RowsKept /\ left' \in Budgets /\ UNCHANGED <<rec, mirror, reply, sweep>>
      /\ frames' \subseteq Frames
  BY SameRowsKept DEF Typed, ToolTyped, FrameArrives
<1>2. CASE Held(f.row)
  <2> DEFINE t == f.row
             v == PickOption(f.verdict)
  <2>1. /\ ask' = [ask EXCEPT ![t] = [st |-> "answered", given |-> v]]
        /\ end' = [end EXCEPT ![t].phase = "read"]
    BY <1>2 DEF FrameArrives, EndsWith
  <2>2. t \in Tools /\ v \in Verdicts
    BY <1>0
  <2> HIDE DEF t, v
  <2>3. ToolTyped'
    BY <1>1, <2>1, <2>2 DEF Typed, ToolTyped, Asks, Ends
  <2>4. ToolEngaged'
    <3>1. end[t].phase = "idle" /\ end[t] \in Ends /\ end[t].tries < EndAttempts
      BY <1>2, <2>2 DEF Typed, ToolTyped, ToolEngaged, Held, t
    <3>2. /\ ask'[t].st = "answered" /\ end'[t].phase = "read"
          /\ end'[t].tries = end[t].tries
          /\ \A s \in Tools \ {t} : ask'[s] = ask[s] /\ end'[s] = end[s]
      BY <2>1, <2>2, <3>1 DEF Typed, ToolTyped, Ends
    <3> QED BY <1>1, <3>1, <3>2 DEF Typed, ToolEngaged
  <2>5. EndsKept
    BY <2>1, <2>2 DEF Typed, ToolTyped, EndsKept, Ends
  <2> QED BY <1>1, <2>3, <2>4, <2>5, EndKept
<1>3. CASE ~Held(f.row)
  <2>1. UNCHANGED <<ask, end>>
    BY <1>3 DEF FrameArrives
  <2>2. ToolTyped' /\ ToolEngaged' /\ EndsKept
    BY <1>1, <2>1 DEF Typed, ToolTyped, ToolEngaged, EndsKept
  <2> QED BY <1>1, <2>2, EndKept
<1> QED BY <1>2, <1>3

(* The machine stops. *)
LEMMA RuntimeDiesSafe ==
  ASSUME Typed, EndSafe, RuntimeDies
  PROVE  RowsKept /\ left' \in Budgets /\ ToolTyped' /\ ToolEngaged' /\ EndSafe'
<1>1. RowsKept /\ left' \in Budgets /\ UNCHANGED <<mirror, reply, sweep>>
  BY SameRowsKept, SpendType DEF Typed, RuntimeDies, Disturbances
<1>2. /\ ask' \in [Tools -> Asks]
      /\ \A t \in Tools : /\ ask'[t].given = ask[t].given
                          /\ ask'[t].st \in {"idle", "held"}
                               => ask'[t].st = ask[t].st
  BY DEF Typed, ToolTyped, RuntimeDies, Asks, Held
<1>3. /\ end' \in [Tools -> Ends]
      /\ \A t \in Tools : /\ end'[t].phase \in {"lost", end[t].phase}
                          /\ end'[t].tries = end[t].tries
                          /\ end[t].phase = "idle" => end'[t].phase = "idle"
  BY DEF Typed, ToolTyped, RuntimeDies, Ends
<1>4. ToolTyped'
  BY <1>1, <1>2, <1>3 DEF Typed, ToolTyped, RuntimeDies
<1>5. ToolEngaged'
  BY <1>1, <1>2, <1>3 DEF Typed, ToolEngaged
<1>6. EndsKept
  BY <1>2, <1>3 DEF EndsKept
<1> QED BY <1>1, <1>4, <1>5, <1>6, EndKept

(* A request is recorded, once. *)
LEMMA RecordSafe ==
  ASSUME Typed, EndSafe, NEW t \in Tools, RecordStep(t) \/ RecordFails(t)
  PROVE  RowsKept /\ left' \in Budgets /\ ToolTyped' /\ ToolEngaged' /\ EndSafe'
<1>1. /\ UNCHANGED <<ask, end, mirror, reply, frames, sweep>>
      /\ \E x \in {"sent", "lost", "written", "done"} :
           rec' = [rec EXCEPT ![t] = x]
  BY DEF RecordStep, RecordFails, RecordPending, ExpireSuperseded, RetryRecord
<1>2. left' \in Budgets
  BY SpendType DEF RecordStep, RecordFails, RecordPending, ExpireSuperseded,
     RetryRecord, Typed, Disturbances
<1>3. RowsKept
  <2>0. rows \in Tables /\ t \in Ids
    BY IdsOf DEF Typed
  <2>1. CASE RecordPending(t)
    <3>1. LET s == InsertIfAbsent(rows, t)
          IN  /\ s \in Tables /\ \A j \in Ids \ {t} : s[j] = rows[j]
              /\ IF rows[t].status = "absent" THEN s[t].status = "pending"
                 ELSE s = rows
      BY <2>0, InsertType, Zenon
    <3>2. rows' = InsertIfAbsent(rows, t)
      BY <2>1 DEF RecordPending
    <3>3. rows' \in Tables /\ \A j \in Ids \ {t} : rows'[j] = rows[j]
      BY <3>1, <3>2
    <3>4. ToolRowKept(t)
      BY <3>1, <3>2 DEF ToolRowKept
    <3> QED BY <3>3, <3>4, OneRowKept
  <2>2. CASE ExpireSuperseded(t)
    <3> DEFINE S == {s \in Tools \ {t} : /\ ToolCallOf[s] = ToolCallOf[t]
                                         /\ rows[s].status = "pending"}
    <3>1. rows' = [i \in Ids |-> IF i \in S THEN Expire(rows[i]) ELSE rows[i]]
      BY <2>2 DEF ExpireSuperseded
    <3>2. S \in SUBSET Ids /\ \A i \in S : i \in Tools /\ rows[i].status = "pending"
      BY IdsOf
    <3> HIDE DEF S
    <3>3. /\ rows' \in Tables
          /\ \A i \in S : rows'[i].status = "expired"
          /\ \A i \in Ids \ S : rows'[i] = rows[i]
      BY <2>0, <3>1, <3>2, ExpireAllType
    <3> QED BY <3>2, <3>3, IdsOf, KindsDisjoint
            DEF RowsKept, ToolRowKept, EgressRowKept
  <2>3. CASE RecordFails(t) \/ RetryRecord(t)
    BY <2>0, <2>3, SameRowsKept DEF RecordFails, RetryRecord
  <2> QED BY <2>1, <2>2, <2>3 DEF RecordStep
<1>4. ToolTyped' /\ ToolEngaged' /\ EndsKept
  BY <1>1 DEF Typed, ToolTyped, ToolEngaged, EndsKept
<1> QED BY <1>2, <1>3, <1>4, EndKept

(* The relay's copy of an answer settles an open row only. *)
LEMMA MirrorSafe ==
  ASSUME Typed, EndSafe, NEW t \in Tools, MirrorRead(t) \/ MirrorResolve(t)
  PROVE  RowsKept /\ left' \in Budgets /\ ToolTyped' /\ ToolEngaged' /\ EndSafe'
<1>1. UNCHANGED <<left, ask, rec, end, reply, frames, sweep>>
  BY DEF MirrorRead, MirrorResolve
<1>2. /\ mirror' \in [Tools -> Mirrors]
      /\ \A s \in Tools :
           mirror'[s].phase # "idle" => mirror'[s].verdict \in Verdicts
  <2>1. CASE MirrorRead(t)
    BY <2>1 DEF MirrorRead, Typed, ToolTyped, ToolEngaged, Mirrors, NoMirror
  <2>2. CASE MirrorResolve(t)
    BY <2>2 DEF MirrorResolve, Typed, ToolTyped, ToolEngaged, Mirrors, NoMirror
  <2> QED BY <2>1, <2>2
<1>3. RowsKept
  <2>0. rows \in Tables /\ t \in Ids
    BY IdsOf DEF Typed
  <2>1. CASE MirrorRead(t)
    BY <2>0, <2>1, SameRowsKept DEF MirrorRead
  <2>2. CASE MirrorResolve(t)
    <3>1. mirror[t].verdict \in Verdicts /\ TRUE \in BOOLEAN
      BY <2>2 DEF MirrorResolve, Typed, ToolEngaged
    <3>2. LET s == ResolvePending(rows, t, mirror[t].verdict, TRUE)
          IN  /\ s \in Tables /\ \A j \in Ids \ {t} : s[j] = rows[j]
              /\ IF rows[t].status = "pending"
                 THEN s[t].status = "resolved"
                      /\ s[t].verdict = mirror[t].verdict
                 ELSE s = rows
      BY <2>0, <3>1, UpdateType, Zenon
    <3>3. rows' = ResolvePending(rows, t, mirror[t].verdict, TRUE)
      BY <2>2 DEF MirrorResolve
    <3>4. rows' \in Tables /\ \A j \in Ids \ {t} : rows'[j] = rows[j]
      BY <3>2, <3>3, Zenon
    <3>5. ToolRowKept(t)
      BY <3>2, <3>3 DEF ToolRowKept
    <3> QED BY <3>4, <3>5, OneRowKept
  <2> QED BY <2>1, <2>2
<1>4. ToolTyped' /\ ToolEngaged' /\ EndsKept
  BY <1>1, <1>2 DEF Typed, ToolTyped, ToolEngaged, EndsKept
<1> QED BY <1>1, <1>3, <1>4, EndKept DEF Typed

(* A report of an end that moves to a legal step leaves the rest. *)
LEMMA EndGoesLeaves ==
  ASSUME Typed, NEW t \in Tools,
         NEW p \in {"read", "resolve", "correct", "mark", "expire", "insert",
                    "done"},
         p \in {"resolve", "correct"} => ask[t].given \in Verdicts,
         end[t].phase \notin {"idle", "lost"}, EndGoes(t, p), EndUnchanged
  PROVE  /\ left' \in Budgets /\ ToolTyped' /\ ToolEngaged'
         /\ end'[t].phase = p
         /\ \A s \in Tools \ {t} : end'[s] = end[s]
         /\ UNCHANGED ask
<1>1. UNCHANGED <<left, ask, rec, mirror, reply, frames, sweep>>
  BY DEF EndUnchanged
<1>2. end[t] \in Ends /\ ask[t].st \notin {"idle", "held"}
      /\ end[t].tries < EndAttempts
  BY DEF Typed, ToolTyped, ToolEngaged
<1>3. /\ end' \in [Tools -> Ends] /\ end'[t].phase = p
      /\ end'[t].tries = end[t].tries
      /\ \A s \in Tools \ {t} : end'[s] = end[s]
  BY <1>2 DEF EndGoes, Typed, ToolTyped, Ends
<1>4. ToolTyped'
  BY <1>1, <1>3 DEF Typed, ToolTyped
<1>5. ToolEngaged'
  BY <1>1, <1>2, <1>3 DEF Typed, ToolEngaged
<1> QED BY <1>1, <1>3, <1>4, <1>5 DEF Typed

(* It is safe when it is for its own request. *)
LEMMA EndMoves ==
  ASSUME EndSafe, NEW t \in Tools, EndAt(t)',
         \A s \in Tools \ {t} : end'[s] = end[s] /\ rows'[s] = rows[s],
         UNCHANGED ask
  PROVE  EndSafe'
BY DEF EndSafe, EndAt, Closed

(* What a step of the report does to the row: only a verdict is corrected, *)
(* to the answer the harness got.                                          *)
EndRows(t) ==
  /\ rows' \in Tables
  /\ \A i \in Ids \ {t} : rows'[i] = rows[i]
  /\ \/ ToolRowKept(t)
     \/ /\ rows[t].status = "resolved" /\ rows'[t].status = "resolved"
        /\ rows'[t].verdict = ask[t].given

(* Every step of the report of an end is safe: whatever happened to the    *)
(* row since it was read, the report leaves it closed, and settled the way *)
(* the harness was answered.                                               *)
LEMMA EndStepSafe ==
  ASSUME Typed, EndSafe, NEW t \in Tools, EndStep(t)
  PROVE  EndRows(t) /\ left' \in Budgets /\ ToolTyped' /\ ToolEngaged' /\ EndSafe'
<1>0. /\ rows \in Tables /\ t \in Ids /\ EndAt(t) /\ ask[t] \in Asks
      /\ rows[t].status \in {"absent", "pending", "resolved", "expired"}
      /\ end[t].phase \in {"resolve", "correct"} => ask[t].given \in Verdicts
  BY IdsOf DEF Typed, EndSafe, ToolTyped, ToolEngaged, Tables, Entry, Row
<1>n. None \notin Verdicts
  BY KindsDisjoint
<1>1. ASSUME NEW p \in {"read", "resolve", "correct", "mark", "expire",
                        "insert", "done"},
             p \in {"resolve", "correct"} => ask[t].given \in Verdicts,
             end[t].phase \notin {"idle", "lost"},
             EndGoes(t, p), EndUnchanged,
             EndRows(t),
             end'[t].phase = p /\ UNCHANGED ask => EndAt(t)'
      PROVE  /\ EndRows(t) /\ left' \in Budgets
             /\ ToolTyped' /\ ToolEngaged' /\ EndSafe'
  <2>1. /\ left' \in Budgets /\ ToolTyped' /\ ToolEngaged'
        /\ end'[t].phase = p
        /\ \A s \in Tools \ {t} : end'[s] = end[s]
        /\ UNCHANGED ask
    BY <1>1, EndGoesLeaves, Zenon
  <2>2. EndAt(t)' /\ \A s \in Tools \ {t} : rows'[s] = rows[s]
    BY <1>1, <2>1, IdsOf DEF EndRows
  <2>3. EndSafe'
    BY <2>1, <2>2, EndMoves
  <2> QED BY <1>1, <2>1, <2>3
<1>2. CASE EndRead(t)
  <2> DEFINE p == IF rows[t].status = "absent" THEN "insert"
                  ELSE IF ask[t].given # None
                  THEN IF rows[t].status = "pending" THEN "resolve"
                       ELSE "correct"
                  ELSE IF rows[t].status = "resolved" THEN "mark"
                  ELSE "expire"
  <2>1. /\ EndGoes(t, p) /\ EndUnchanged /\ UNCHANGED rows
        /\ end[t].phase = "read"
    BY <1>2 DEF EndRead
  <2>2. /\ p \in {"read", "resolve", "correct", "mark", "expire", "insert",
                  "done"}
        /\ p \in {"resolve", "correct"} => ask[t].given \in Verdicts
        /\ p \in {"resolve", "expire", "correct"} => rows[t].status # "absent"
        /\ p = "expire" => ask[t].given = None
        /\ p = "correct" => rows[t].status \in {"resolved", "expired"}
        /\ p = "mark" => rows[t].status = "resolved" /\ ask[t].given = None
        /\ p # "done"
    BY <1>0 DEF Asks
  <2> HIDE DEF p
  <2>3. EndRows(t)
    BY <1>0, <2>1 DEF EndRows, ToolRowKept
  <2>4. end'[t].phase = p /\ UNCHANGED ask => EndAt(t)'
    BY <2>1, <2>2 DEF EndAt, Closed
  <2> QED BY <1>1, <2>1, <2>2, <2>3, <2>4
<1>3. CASE EndInsert(t)
  <2> DEFINE p == IF rows[t].status = "absent" THEN "done" ELSE "read"
  <2>1. /\ EndGoes(t, p) /\ EndUnchanged
        /\ rows' = InsertSettled(rows, t, ask[t].given)
        /\ end[t].phase = "insert"
    BY <1>3 DEF EndInsert
  <2>2. ask[t].given \in Verdicts \cup {None}
    BY <1>0 DEF Asks
  <2>3. LET s == InsertSettled(rows, t, ask[t].given)
        IN  /\ s \in Tables /\ \A j \in Ids \ {t} : s[j] = rows[j]
            /\ IF rows[t].status = "absent"
               THEN /\ s[t].status = IF ask[t].given = None THEN "expired"
                                     ELSE "resolved"
                    /\ s[t].verdict = ask[t].given
               ELSE s = rows
    BY <1>0, <2>2, InsertSettledType, Zenon
  <2>4. EndRows(t)
    BY <2>1, <2>3 DEF EndRows, ToolRowKept
  <2>5. end'[t].phase = p /\ UNCHANGED ask => EndAt(t)'
    BY <2>1, <2>3 DEF EndAt, Closed
  <2> QED BY <1>1, <2>1, <2>4, <2>5
<1>4. CASE EndResolve(t)
  <2> DEFINE p == IF rows[t].status = "pending" THEN "done" ELSE "correct"
  <2>1. /\ EndGoes(t, p) /\ EndUnchanged
        /\ rows' = ResolvePending(rows, t, ask[t].given, TRUE)
        /\ end[t].phase = "resolve"
    BY <1>4 DEF EndResolve
  <2>2. ask[t].given \in Verdicts /\ TRUE \in BOOLEAN
    BY <1>0, <2>1
  <2>3. LET s == ResolvePending(rows, t, ask[t].given, TRUE)
        IN  /\ s \in Tables /\ \A j \in Ids \ {t} : s[j] = rows[j]
            /\ IF rows[t].status = "pending"
               THEN s[t].status = "resolved" /\ s[t].verdict = ask[t].given
               ELSE s = rows
    BY <1>0, <2>2, UpdateType, ZenonT(60)
  <2>4. EndRows(t)
    BY <2>1, <2>3 DEF EndRows, ToolRowKept
  <2>5. end'[t].phase = p /\ UNCHANGED ask => EndAt(t)'
    BY <1>0, <2>1, <2>3 DEF EndAt, Closed
  <2> QED BY <1>1, <2>1, <2>2, <2>4, <2>5
<1>5. CASE EndCorrect(t)
  <2>1. /\ EndGoes(t, "mark") /\ EndUnchanged
        /\ rows' = CorrectVerdict(rows, t, ask[t].given)
        /\ end[t].phase = "correct"
    BY <1>5 DEF EndCorrect
  <2>2. ask[t].given \in Verdicts
    BY <1>0, <2>1
  <2>3. LET s == CorrectVerdict(rows, t, ask[t].given)
        IN  /\ s \in Tables /\ \A j \in Ids \ {t} : s[j] = rows[j]
            /\ IF rows[t].status = "resolved"
               THEN s[t].status = "resolved" /\ s[t].verdict = ask[t].given
               ELSE s = rows
    BY <1>0, <2>2, UpdateType, ZenonT(60)
  <2>4. EndRows(t)
    BY <2>1, <2>3 DEF EndRows, ToolRowKept
  <2>5. end'[t].phase = "mark" /\ UNCHANGED ask => EndAt(t)'
    BY <1>0, <2>1, <2>3 DEF EndAt, Closed
  <2> QED BY <1>1, <2>1, <2>4, <2>5
<1>6. CASE EndExpire(t)
  <2> DEFINE p == IF rows[t].status = "pending" THEN "done" ELSE "mark"
  <2>1. /\ EndGoes(t, p) /\ EndUnchanged
        /\ rows' = ExpirePending(rows, t)
        /\ end[t].phase = "expire"
    BY <1>6 DEF EndExpire
  <2>2. LET s == ExpirePending(rows, t)
        IN  /\ s \in Tables /\ \A j \in Ids \ {t} : s[j] = rows[j]
            /\ IF rows[t].status = "pending" THEN s[t].status = "expired"
               ELSE s = rows
    BY <1>0, UpdateType, Zenon
  <2>3. EndRows(t)
    BY <2>1, <2>2 DEF EndRows, ToolRowKept
  <2>4. end'[t].phase = p /\ UNCHANGED ask => EndAt(t)'
    BY <1>0, <2>1, <2>2 DEF EndAt, Closed
  <2> QED BY <1>1, <2>1, <2>3, <2>4
<1>7. CASE EndMark(t)
  <2>1. /\ EndGoes(t, "done") /\ EndUnchanged
        /\ rows' = MarkDelivered(rows, t)
        /\ end[t].phase = "mark"
    BY <1>7 DEF EndMark
  <2>2. LET s == MarkDelivered(rows, t)
        IN  /\ s \in Tables /\ \A j \in Ids \ {t} : s[j] = rows[j]
            /\ s[t].status = rows[t].status /\ s[t].verdict = rows[t].verdict
    BY <1>0, UpdateType, ZenonT(60)
  <2>3. EndRows(t)
    BY <2>1, <2>2 DEF EndRows, ToolRowKept
  <2>4. end'[t].phase = "done" /\ UNCHANGED ask => EndAt(t)'
    BY <1>0, <2>1, <2>2 DEF EndAt, Closed
  <2> QED BY <1>1, <2>1, <2>3, <2>4
<1> QED BY <1>2, <1>3, <1>4, <1>5, <1>6, <1>7 DEF EndStep

(* A failed report is repeated or given up. *)
LEMMA EndFailsSafe ==
  ASSUME Typed, EndSafe, NEW t \in Tools, EndFails(t)
  PROVE  RowsKept /\ left' \in Budgets /\ ToolTyped' /\ ToolEngaged' /\ EndSafe'
<1>1. /\ RowsKept /\ left' \in Budgets
      /\ UNCHANGED <<ask, rec, mirror, reply, frames, sweep>>
  BY SameRowsKept, SpendType DEF EndFails, Typed, Disturbances
<1>2. end[t] \in Ends /\ ask[t].st \notin {"idle", "held"}
      /\ end[t].tries < EndAttempts
  BY DEF EndFails, Typed, ToolTyped, ToolEngaged
<1> DEFINE x == [phase |-> IF end[t].tries + 1 >= EndAttempts THEN "lost"
                           ELSE "read",
                 tries |-> end[t].tries + 1]
<1>3. end' = [end EXCEPT ![t] = x]
  BY DEF EndFails, Typed, ToolTyped
<1>4. /\ x \in Ends /\ x.phase \in {"lost", "read"}
      /\ x.phase # "lost" => x.tries < EndAttempts
  BY <1>2, EndAttemptsAssumption DEF Ends
<1> HIDE DEF x
<1>5. ToolTyped'
  BY <1>1, <1>3, <1>4 DEF Typed, ToolTyped
<1>6. ToolEngaged'
  BY <1>1, <1>2, <1>3, <1>4 DEF Typed, ToolTyped, ToolEngaged
<1>7. EndsKept
  BY <1>1, <1>3, <1>4 DEF Typed, ToolTyped, EndsKept
<1> QED BY <1>1, <1>5, <1>6, <1>7, EndKept

(* The owner's decision on a tool settles an open row only. *)
LEMMA ReplySafe ==
  ASSUME Typed, EndSafe, NEW o \in Owners,
         \/ ReplyStep(o) \/ SendFails(o)
         \/ \E t \in Tools, v \in Decisions : LoadTool(o, t, v)
  PROVE  RowsKept /\ left' \in Budgets /\ ToolTyped' /\ ToolEngaged' /\ EndSafe'
<1>0. /\ rows \in Tables /\ reply[o] \in Replies
      /\ reply[o].phase \in {"resolve", "send", "mark"} =>
           reply[o].row \in Tools /\ reply[o].verdict \in Verdicts
  BY DEF Typed, ToolTyped, ToolEngaged
<1>1. UNCHANGED <<ask, rec, end, mirror, sweep>>
  BY DEF ReplyStep, ResolveTool, SendFrame, MarkSent, SendFails, LoadTool,
     ReplyUnchanged
<1>2. left' \in Budgets
  BY SpendType DEF ReplyStep, ResolveTool, SendFrame, MarkSent, SendFails,
     LoadTool, Typed, Disturbances
<1>3. frames' \subseteq Frames
  <2>0. frames \subseteq Frames
    BY DEF Typed, ToolTyped
  <2>1. CASE SendFrame(o)
    <3> DEFINE f == [row |-> reply[o].row, verdict |-> reply[o].verdict]
    <3>1. f \in Frames
      BY <1>0, <2>1 DEF SendFrame, Frames
    <3>2. frames' = frames \cup {f}
      BY <2>1 DEF SendFrame
    <3> HIDE DEF f
    <3> QED BY <2>0, <3>1, <3>2
  <2>2. CASE ~SendFrame(o)
    BY <2>0, <2>2 DEF ReplyStep, ResolveTool, MarkSent, SendFails, LoadTool
  <2> QED BY <2>1, <2>2
<1>4. ReplyDone \in Replies /\ ReplyDone.phase = "done"
  BY DEF ReplyDone, NoReply, Replies
<1>5. PICK x \in Replies :
        /\ reply' = [reply EXCEPT ![o] = x]
        /\ x.phase \in {"resolve", "send", "mark"} =>
             x.row \in Tools /\ x.verdict \in Verdicts
  <2>1. CASE \E t \in Tools, v \in Decisions : LoadTool(o, t, v)
    <3>1. PICK t \in Tools, v \in Decisions : LoadTool(o, t, v)
      BY <2>1
    <3> DEFINE x == [phase |-> "resolve", row |-> t, verdict |-> v]
    <3>2. v \in Verdicts
      BY OfferedAssumption
    <3>3. reply' = [reply EXCEPT ![o] = x]
      BY <3>1 DEF LoadTool
    <3>4. x \in Replies /\ x.row \in Tools /\ x.verdict \in Verdicts
      BY <3>2 DEF Replies
    <3> QED BY <3>3, <3>4
  <2>2. CASE ResolveTool(o)
    <3> DEFINE y == [reply[o] EXCEPT !.phase = "send"]
               x == IF rows[reply[o].row].status = "pending" THEN y
                    ELSE ReplyDone
    <3>1. reply' = [reply EXCEPT ![o] = x] /\ reply[o].phase = "resolve"
      BY <2>2 DEF ResolveTool, Typed, ToolTyped
    <3>2. y \in Replies /\ y.row \in Tools /\ y.verdict \in Verdicts
      BY <1>0, <3>1 DEF Replies
    <3> HIDE DEF y
    <3>3. /\ x \in Replies
          /\ x.phase \in {"resolve", "send", "mark"} =>
               x.row \in Tools /\ x.verdict \in Verdicts
      BY <1>4, <3>2
    <3> QED BY <3>1, <3>3
  <2>3. CASE SendFrame(o)
    <3> DEFINE x == [reply[o] EXCEPT !.phase = "mark"]
    <3>1. reply' = [reply EXCEPT ![o] = x] /\ reply[o].phase = "send"
      BY <2>3 DEF SendFrame, Typed, ToolTyped
    <3>2. x \in Replies /\ x.row \in Tools /\ x.verdict \in Verdicts
      BY <1>0, <3>1 DEF Replies
    <3> QED BY <3>1, <3>2
  <2>4. CASE SendFails(o) \/ MarkSent(o)
    BY <1>4, <2>4 DEF SendFails, MarkSent
  <2> QED BY <2>1, <2>2, <2>3, <2>4 DEF ReplyStep
<1>6. RowsKept
  <2>1. CASE ResolveTool(o)
    <3>1. PICK t \in Tools, v \in Verdicts :
            rows' = ResolvePending(rows, t, v, FALSE)
      BY <1>0, <2>1 DEF ResolveTool
    <3>2. t \in Ids /\ FALSE \in BOOLEAN
      BY IdsOf
    <3>3. LET s == ResolvePending(rows, t, v, FALSE)
          IN  /\ s \in Tables /\ \A j \in Ids \ {t} : s[j] = rows[j]
              /\ IF rows[t].status = "pending"
                 THEN s[t].status = "resolved" /\ s[t].verdict = v
                 ELSE s = rows
      BY <1>0, <3>2, UpdateType, ZenonT(60)
    <3>4. rows' \in Tables /\ \A j \in Ids \ {t} : rows'[j] = rows[j]
      BY <3>1, <3>3, Zenon
    <3>5. ToolRowKept(t)
      BY <3>1, <3>3 DEF ToolRowKept
    <3> QED BY <3>4, <3>5, OneRowKept
  <2>2. CASE MarkSent(o)
    <3>1. PICK t \in Tools : rows' = MarkDelivered(rows, t)
      BY <1>0, <2>2 DEF MarkSent
    <3> QED BY <1>0, <3>1, MarkKept
  <2>3. CASE ~ResolveTool(o) /\ ~MarkSent(o)
    BY <1>0, <2>3, SameRowsKept DEF ReplyStep, SendFrame, SendFails, LoadTool
  <2> QED BY <2>1, <2>2, <2>3
<1>7. ToolTyped'
  BY <1>1, <1>3, <1>5 DEF Typed, ToolTyped
<1>8. ToolEngaged'
  BY <1>1, <1>5 DEF Typed, ToolTyped, ToolEngaged
<1>9. EndsKept
  BY <1>1 DEF EndsKept
<1> QED BY <1>2, <1>6, <1>7, <1>8, <1>9, EndKept

(* The sweep sends what was decided, and expires open rows only. *)
LEMMA SweepSafe ==
  ASSUME Typed, EndSafe, SweepStep \/ \E f \in sweep.rows : SweepSkips(f)
  PROVE  RowsKept /\ left' \in Budgets /\ ToolTyped' /\ ToolEngaged' /\ EndSafe'
<1>0. rows \in Tables /\ sweep \in Sweeps /\ sweep.rows \subseteq Frames
      /\ (sweep.phase = "mark" => sweep.row \in Tools)
  BY DEF Typed, ToolTyped, ToolEngaged, Sweeps
<1>1. UNCHANGED <<ask, rec, end, mirror, reply>>
  BY DEF SweepStep, SweepList, SweepMark, SweepExpire, SweepSend, SweepSkips,
     SweepUnchanged
<1>2. left' \in Budgets
  BY SpendType DEF SweepStep, SweepList, SweepMark, SweepExpire, SweepSend,
     SweepSkips, Typed, Disturbances
<1>3. frames' \subseteq Frames
  BY <1>0 DEF SweepStep, SweepList, SweepMark, SweepExpire, SweepSend,
     SweepSkips, Typed, ToolTyped
<1>4. sweep' \in Sweeps /\ (sweep'.phase = "mark" => sweep'.row \in Tools)
  <2>1. CASE SweepList
    <3> DEFINE F == {[row |-> t, verdict |-> rows[t].verdict] :
                       t \in Batch \cap Tools}
    <3>1. sweep' = [phase |-> "send", row |-> None, rows |-> F]
      BY <2>1 DEF SweepList
    <3>2. \A t \in Batch \cap Tools : rows[t].verdict \in Verdicts
      BY <1>0 DEF Batch, Undelivered, Resolved, Tables, Entry, Row
    <3>3. F \subseteq Frames
      BY <3>2 DEF Frames
    <3> HIDE DEF F
    <3> QED BY <3>1, <3>3 DEF Sweeps
  <2>2. CASE \E f \in sweep.rows : SweepSend(f)
    <3>1. PICK f \in sweep.rows :
            sweep' = [phase |-> "mark", rows |-> sweep.rows \ {f},
                      row |-> f.row]
      BY <2>2 DEF SweepSend
    <3>2. f.row \in Tools
      BY <1>0 DEF Frames
    <3> QED BY <1>0, <3>1, <3>2 DEF Sweeps
  <2>3. CASE SweepMark
    BY <1>0, <2>3 DEF SweepMark, Sweeps
  <2>4. CASE SweepExpire
    BY <1>0, <2>4 DEF SweepExpire, Sweeps
  <2>5. CASE \E f \in sweep.rows : SweepSkips(f)
    BY <1>0, <2>5 DEF SweepSkips, Sweeps
  <2> QED BY <2>1, <2>2, <2>3, <2>4, <2>5 DEF SweepStep
<1>5. RowsKept
  <2>1. CASE SweepMark
    <3>1. sweep.row \in Tools /\ rows' = MarkDelivered(rows, sweep.row)
      BY <1>0, <2>1 DEF SweepMark
    <3> QED BY <1>0, <3>1, MarkKept
  <2>2. CASE SweepExpire
    <3>1. rows' = ExpireOverdue(rows)
      BY <2>2 DEF SweepExpire
    <3>2. /\ rows' \in Tables
          /\ \A i \in Ids : \/ rows'[i] = rows[i]
                            \/ /\ rows[i].status = "pending"
                               /\ rows'[i].status = "expired"
      BY <1>0, <3>1, ExpireOverdueType
    <3> QED BY <3>2, IdsOf DEF RowsKept, EgressRowKept, ToolRowKept
  <2>3. CASE ~SweepMark /\ ~SweepExpire
    BY <1>0, <2>3, SameRowsKept DEF SweepStep, SweepList, SweepSend, SweepSkips
  <2> QED BY <2>1, <2>2, <2>3
<1>6. ToolTyped'
  BY <1>1, <1>3, <1>4 DEF Typed, ToolTyped
<1>7. ToolEngaged'
  BY <1>1, <1>4 DEF Typed, ToolEngaged
<1>8. EndsKept
  BY <1>1 DEF EndsKept
<1> QED BY <1>2, <1>5, <1>6, <1>7, <1>8, EndKept

(* What a step of the tool permissions leaves: it never touches an egress  *)
(* row but to expire it, and changes the verdict of a tool's row only to   *)
(* what the harness was told.                                              *)
LEMMA ToolStep ==
  ASSUME Typed, EndSafe, ToolNext
  PROVE  /\ rows' \in Tables /\ left' \in Budgets
         /\ ToolTyped' /\ ToolEngaged' /\ EndSafe'
         /\ \A i \in Calls \cup Proposals : EgressRowKept(i)
         /\ \A t \in Tools :
              \/ ToolRowKept(t)
              \/ /\ rows[t].status = "resolved" /\ rows'[t].status = "resolved"
                 /\ rows'[t].verdict = ask[t].given
<1> DEFINE Safe == /\ RowsKept /\ left' \in Budgets /\ ToolTyped'
                   /\ ToolEngaged' /\ EndSafe'
<1>1. ASSUME NEW t \in Tools,
             \/ OnAgentRequest(t) \/ CancelApprovals(t) \/ AbortRequest(t)
             \/ \E v \in Offered : ClientAnswers(t, v)
      PROVE  Safe
  BY <1>1, RequestSafe, Zenon
<1>2. ASSUME NEW t \in Tools, RecordStep(t) \/ RecordFails(t)
      PROVE  Safe
  BY <1>2, RecordSafe, Zenon
<1>3. ASSUME NEW t \in Tools, EndStep(t)
      PROVE  EndRows(t) /\ left' \in Budgets /\ ToolTyped' /\ ToolEngaged' /\ EndSafe'
  BY <1>3, EndStepSafe, Zenon
<1>4. ASSUME NEW t \in Tools, EndFails(t)
      PROVE  Safe
  BY <1>4, EndFailsSafe, Zenon
<1>5. ASSUME NEW t \in Tools, MirrorRead(t) \/ MirrorResolve(t)
      PROVE  Safe
  BY <1>5, MirrorSafe, Zenon
<1>6. ASSUME NEW f \in frames, FrameArrives(f)
      PROVE  Safe
  BY <1>6, FrameArrivesSafe, Zenon
<1>7. ASSUME NEW o \in Owners,
             \/ ReplyStep(o) \/ SendFails(o)
             \/ \E t \in Tools, v \in Decisions : LoadTool(o, t, v)
      PROVE  Safe
  BY <1>7, ReplySafe, Zenon
<1>8. CASE RuntimeDies
  BY <1>8, RuntimeDiesSafe DEF RowsKept
<1>9. CASE SweepStep \/ \E f \in sweep.rows : SweepSkips(f)
  BY <1>9, SweepSafe DEF RowsKept
<1>10. CASE Safe
  BY <1>10 DEF RowsKept
<1>11. CASE \E t \in Tools : EndStep(t)
  <2>1. PICK t \in Tools : EndRows(t) /\ left' \in Budgets /\ ToolTyped'
                           /\ ToolEngaged' /\ EndSafe'
    BY <1>3, <1>11, Zenon
  <2> QED BY <2>1, IdsOf, KindsDisjoint
          DEF EndRows, EgressRowKept, ToolRowKept
<1> HIDE DEF Safe
<1> QED BY <1>1, <1>2, <1>4, <1>5, <1>6, <1>7, <1>8, <1>9, <1>10, <1>11, Zenon
        DEF ToolNext

---------------------------------------------------------------------------
(* The theorems *)

(* Nothing is under way at the start. *)
LEMMA InitSafe ==
  ASSUME Init
  PROVE  IInv
<1>1. rows \in Tables /\ \A i \in Ids : rows[i].status = "absent"
  <2>1. Absent \in Entry /\ Absent.status = "absent" /\ Absent.at = 0
    BY DEF Absent, Entry, Row
  <2>2. rows = [i \in Ids |-> Absent]
    BY DEF Init
  <2> QED BY <2>1, <2>2 DEF Tables
<1>2. scene \subseteq Ids \cup Owners /\ left \in Budgets
  BY ScenariosAssumption DEF Init, Budgets
<1>3. EgressTyped
  <2>1. NoGate \in Gates /\ NoDesk \in Desks
    BY DEF NoGate, Gates, GatePhases, NoDesk, Desks
  <2> QED BY <2>1 DEF Init, EgressInit, EgressTyped
<1>4. EgressEngaged
  BY DEF Init, EgressInit, EgressEngaged, NoGate, NoDesk, Waiting
<1>5. ToolTyped
  BY EndAttemptsAssumption
     DEF Init, ToolInit, ToolTyped, Asks, Ends, NoMirror, Mirrors, NoReply,
         Replies, Sweeps
<1>6. ToolEngaged
  BY EndAttemptsAssumption
     DEF Init, ToolInit, ToolEngaged, NoMirror, NoReply
<1>7. EgressSafe
  <2>1. Unasked /\ PermanentHasRule
    BY <1>1, IdsOf DEF Unasked, PermanentHasRule
  <2>2. HoldsMatch /\ RuleWritten /\ AllowIsGranted
    BY DEF Init, EgressInit, HoldsMatch, RuleWritten, AllowIsGranted, NoGate,
           NoDesk, Waiting
  <2> QED BY <2>1, <2>2 DEF EgressSafe
<1>8. EndSafe
  BY DEF Init, ToolInit, EndSafe, EndAt
<1> QED BY <1>1, <1>2, <1>3, <1>4, <1>5, <1>6, <1>7, <1>8 DEF IInv, Typed

(* What every step does: the invariant stays, and a settled row is left    *)
(* alone but for the two exceptions the code makes.                        *)
LEMMA StepSafe ==
  ASSUME IInv, [Next]_vars
  PROVE  /\ IInv'
         /\ \A i \in Ids : rows[i].status = "resolved" =>
              \/ /\ rows'[i].status = "resolved"
                 /\ \/ rows'[i].verdict = rows[i].verdict
                    \/ i \in Tools /\ rows'[i].verdict = ask[i].given
              \/ i \in Proposals /\ rows[i].delivered
                                 /\ rows'[i].status = "pending"
<1>0. Typed /\ EgressSafe /\ EndSafe
  BY DEF IInv
<1>1. CASE EgressNext /\ UNCHANGED <<scene, toolVars>>
  <2>1. /\ rows' \in Tables /\ left' \in Budgets
        /\ EgressTyped' /\ EgressEngaged' /\ EgressSafe'
        /\ \A t \in Tools : rows'[t] = rows[t]
        /\ \A i \in Calls \cup Proposals : rows[i].status = "resolved" =>
             \/ EgressRowKept(i)
             \/ /\ i \in Proposals /\ rows[i].delivered
                /\ rows'[i].status = "pending"
    BY <1>0, <1>1, EgressStep, Zenon
  <2>2. UNCHANGED <<scene, ask, rec, end, mirror, reply, frames, sweep>>
    BY <1>1 DEF toolVars
  <2>3. scene' \subseteq Ids \cup Owners /\ ToolTyped' /\ ToolEngaged'
    BY <1>0, <2>2 DEF Typed, ToolTyped, ToolEngaged
  <2>4. EndSafe'
    BY <1>0, <2>1, <2>2 DEF EndSafe, EndAt, Closed
  <2>5. \A i \in Ids : i \in Tools \/ i \in Calls \cup Proposals
    BY DEF Ids
  <2> QED BY <2>1, <2>3, <2>4, <2>5 DEF IInv, Typed, EgressRowKept
<1>2. CASE ToolNext /\ UNCHANGED <<scene, egressVars>>
  <2>1. /\ rows' \in Tables /\ left' \in Budgets
        /\ ToolTyped' /\ ToolEngaged' /\ EndSafe'
        /\ \A i \in Calls \cup Proposals : EgressRowKept(i)
        /\ \A t \in Tools :
             \/ ToolRowKept(t)
             \/ /\ rows[t].status = "resolved" /\ rows'[t].status = "resolved"
                /\ rows'[t].verdict = ask[t].given
    BY <1>0, <1>2, ToolStep, Zenon
  <2>2. UNCHANGED <<scene, rules, revoked, gate, desk, proposing>>
    BY <1>2 DEF egressVars
  <2>3. scene' \subseteq Ids \cup Owners /\ EgressTyped' /\ EgressEngaged'
    BY <1>0, <2>2 DEF Typed, EgressTyped, EgressEngaged, Waiting
  <2>4. EgressSafe'
    BY <1>0, <2>1, <2>2, EgressKept
  <2>5. \A i \in Ids : i \in Tools \/ i \in Calls \cup Proposals
    BY DEF Ids
  <2> QED BY <2>1, <2>3, <2>4, <2>5 DEF IInv, Typed, EgressRowKept, ToolRowKept
<1>3. CASE \E i \in Ids : TimePasses(i)
  <2>1. PICK i \in Ids : TimePasses(i)
    BY <1>3
  <2>2. /\ rows' \in Tables
        /\ \A j \in Ids : /\ rows'[j].status = rows[j].status
                          /\ rows'[j].verdict = rows[j].verdict
                          /\ rows'[j].delivered = rows[j].delivered
    BY <1>0, <2>1, RowDueType DEF TimePasses, Typed
  <2>3. UNCHANGED <<scene, left, rules, revoked, gate, desk, proposing, ask,
                    rec, end, mirror, reply, frames, sweep>>
    BY <2>1 DEF TimePasses, egressVars, toolVars
  <2>4. Typed'
    BY <1>0, <2>2, <2>3 DEF Typed, EgressTyped, EgressEngaged, Waiting,
       ToolTyped, ToolEngaged
  <2>5. EgressSafe'
    BY <1>0, <2>2, <2>3, IdsOf, EgressKept DEF EgressRowKept
  <2>6. EndSafe'
    BY <1>0, <2>2, <2>3, IdsOf DEF EndSafe, EndAt, Closed
  <2> QED BY <2>2, <2>4, <2>5, <2>6 DEF IInv
<1>4. CASE UNCHANGED vars
  <2>1. UNCHANGED <<rows, scene, left, rules, revoked, gate, desk, proposing,
                    ask, rec, end, mirror, reply, frames, sweep>>
    BY <1>4 DEF vars, egressVars, toolVars
  <2>2. Typed'
    BY <1>0, <2>1 DEF Typed, EgressTyped, EgressEngaged, Waiting,
       ToolTyped, ToolEngaged
  <2>3. EgressSafe'
    BY <1>0, <2>1, EgressKept DEF EgressRowKept
  <2>4. EndSafe'
    BY <1>0, <2>1 DEF EndSafe, EndAt, Closed
  <2> QED BY <2>1, <2>2, <2>3, <2>4 DEF IInv
<1> QED BY <1>1, <1>2, <1>3, <1>4 DEF Next

(* Every behaviour keeps the invariant. *)
THEOREM ApprovalsInvariant == Spec => []IInv
<1>1. Init => IInv
  BY InitSafe
<1>2. IInv /\ [Next]_vars => IInv'
  BY StepSafe
<1> QED BY <1>1, <1>2, PTL DEF Spec

(* The table, the rules and the handlers at work keep their types: the     *)
(* newest row exists whenever a new one is placed after it.                *)
THEOREM ApprovalsType == Spec => []TypeOK
<1>1. IInv => TypeOK
  BY DEF IInv, Typed, Tables, Entry, EgressTyped, ToolTyped, Budgets, TypeOK
<1> QED BY <1>1, ApprovalsInvariant, PTL

(* A held call that is let through stands on its owner's grant for this    *)
(* very shape, still on record (ext-authz gate, approvals service).        *)
THEOREM HeldCallsGranted == Spec => []AllowIsGranted
<1>1. IInv => AllowIsGranted
  BY DEF IInv, EgressSafe
<1> QED BY <1>1, ApprovalsInvariant, PTL

(* A row settled for good has its rule, unless the rule was revoked since  *)
(* (the approvals service writes the rule before it settles the row).      *)
THEOREM SettledForGoodHasRule == Spec => []PermanentHasRule
<1>1. IInv => PermanentHasRule
  BY DEF IInv, EgressSafe
<1> QED BY <1>1, ApprovalsInvariant, PTL

(* A request whose end was reported has a closed row, and a verdict on it  *)
(* is what the harness was answered (the end report of the runtime).       *)
THEOREM ReportedEndIsFinal == Spec => []EndIsFinal
<1>1. IInv => EndIsFinal
  BY DEF IInv, EndSafe, EndAt, Closed, EndIsFinal
<1> QED BY <1>1, ApprovalsInvariant, PTL

(* A decided question stays decided the way it was, but for a proposal     *)
(* asked again and a tool's verdict set right by the runtime's report.     *)
THEOREM DecidedStaysDecided == Spec => DecidedOnce
<1>1. IInv /\ [Next]_vars =>
        [\A i \in Ids : rows[i].status = "resolved" =>
           \/ /\ rows'[i].status = "resolved"
              /\ \/ rows'[i].verdict = rows[i].verdict
                 \/ i \in Tools /\ rows'[i].verdict = ask[i].given
           \/ i \in Proposals /\ rows[i].delivered /\ rows'[i].status = "pending"
        ]_vars
  BY StepSafe
<1> QED BY <1>1, ApprovalsInvariant, PTL DEF Spec, DecidedOnce
=============================================================================
