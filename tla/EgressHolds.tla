----------------------------- MODULE EgressHolds ----------------------------
(***************************************************************************)
(* The egress gate of the api-server and the owner's verdicts on egress:   *)
(* the ext_authz handler that lets a call through, refuses it or holds it  *)
(* on a row until its owner decides, the verbs of the approvals service    *)
(* that write rules and resolve rows, and the agent's own proposals.  All  *)
(* calls go to one host; a shape is a method and path on it, and the rule  *)
(* for the whole host is another scope.                                    *)
(***************************************************************************)
EXTENDS ApprovalRows

CONSTANTS
  Shapes, HostWide,     \* scopes of a rule
  ShapeOf,              \* [Calls \cup Proposals -> Shapes]
  ProposalMax           \* EGRESS_PROPOSALS_PENDING_MAX

VARIABLES
  rules,      \* active egress rules of the agent: a verdict per scope
  revoked,    \* history: scopes whose rule was revoked
  gate,       \* the gate's handler for each call
  desk,       \* the handler of each owner's decision
  proposing   \* the handler of each proposal

egressVars == <<rules, revoked, gate, desk, proposing>>

Scopes == Shapes \cup {HostWide}

ASSUME ShapesAssumption == /\ ShapeOf \in [Calls \cup Proposals -> Shapes]
                           /\ HostWide \notin Shapes
                           /\ None \notin Shapes
ASSUME ProposalMaxAssumption == ProposalMax \in Nat \ {0}

GatePhases == {"idle", "missed", "new", "hold", "ended", "answered", "died"}

Gates == [phase  : GatePhases,
          on     : Calls \cup {None},     \* the row it waits on
          alone  : BOOLEAN,               \* nobody attends the agent's turn
          answer : {"allow", "deny", None},
          held   : BOOLEAN]               \* the answer came from the row

Verbs == {"approveOnce", "approvePermanent", "approveHost", "denyForever",
          "dismiss"}

Desks == [phase : {"idle", "rule", "resolve", "flip", "done"},
          row   : Calls \cup Proposals \cup {None},
          verb  : Verbs \cup {None}]

NoGate == [phase |-> "idle", on |-> None, alone |-> FALSE, answer |-> None,
           held |-> FALSE]
NoDesk == [phase |-> "idle", row |-> None, verb |-> None]
DeskDone == [NoDesk EXCEPT !.phase = "done"]
Answered(a) == [NoGate EXCEPT !.phase = "answered", !.answer = a]

EgressInit ==
  /\ rules = [s \in Scopes |-> None]
  /\ revoked = {}
  /\ gate = [c \in Calls |-> NoGate]
  /\ desk = [o \in Owners |-> NoDesk]
  /\ proposing = [p \in Proposals |-> "idle"]

---------------------------------------------------------------------------
(* The gate *)

(* The most specific rule decides: the shape's, then the host's. *)
Matched(shape) == IF rules[shape] # None THEN rules[shape]
                  ELSE rules[HostWide]

GateUnchanged == UNCHANGED <<rules, revoked, desk, proposing>>

(* A call is answered by a rule, or is allowed as the agent's own provider *)
(* before any other rule, or goes on to its owner.                         *)
GateMatch(c, provider) ==
  /\ c \in scene /\ gate[c].phase = "idle"
  /\ LET m == IF provider THEN "allow" ELSE Matched(ShapeOf[c])
     IN  gate' = [gate EXCEPT ![c] = IF m = None
                                     THEN [@ EXCEPT !.phase = "missed"]
                                     ELSE Answered(m)]
  /\ GateUnchanged /\ UNCHANGED <<rows, left>>

(* Mutant: the open question of another shape is joined. *)
AnyActiveRow(c) == Pending(rows) \cap Calls

ActiveRows(c) ==
  {r \in Pending(rows) \cap Calls : ShapeOf[r] = ShapeOf[c]}

Existing(c) ==
  LET S == ActiveRows(c)
  IN  IF S = {} THEN None
      ELSE CHOOSE r \in S : \A s \in S : rows[s].at <= rows[r].at

(* Whether anyone attends the turn is read first, then the newest open     *)
(* question of this shape, which the call joins.                           *)
GateFind(c, alone) ==
  /\ gate[c].phase = "missed"
  /\ gate' = [gate EXCEPT ![c] =
       IF Existing(c) = None
       THEN [@ EXCEPT !.phase = "new", !.alone = alone]
       ELSE IF alone THEN Answered("deny")
       ELSE [@ EXCEPT !.phase = "hold", !.on = Existing(c)]]
  /\ GateUnchanged /\ UNCHANGED <<rows, left>>

(* ... or asks a new one; an unattended turn is refused at once and its    *)
(* question stays open.                                                    *)
GateInsert(c) ==
  /\ gate[c].phase = "new"
  /\ rows' = InsertPending(rows, c)
  /\ gate' = [gate EXCEPT ![c] =
       IF @.alone THEN Answered("deny")
       ELSE [@ EXCEPT !.phase = "hold", !.on = c]]
  /\ GateUnchanged /\ UNCHANGED left

Waiting(c) == gate[c].phase \in {"hold", "ended"}

Grants(v) == v \in {"allow", "allow_once"}

(* The wake-up or the poll reads the row. *)
CheckResolved(c) ==
  /\ Waiting(c)
  /\ rows[gate[c].on].status = "resolved"
  /\ gate' = [gate EXCEPT ![c] =
       [@ EXCEPT !.phase = "answered", !.held = TRUE,
                 !.answer = IF Grants(rows[gate[c].on].verdict) THEN "allow"
                            ELSE "deny"]]
  /\ GateUnchanged /\ UNCHANGED <<rows, left>>

(* Mutant: a hold whose row someone else expired waits on. *)
HoldEndsIfFlipped(c) ==
  /\ gate[c].phase = "hold" /\ rows[gate[c].on].due
  /\ rows[gate[c].on].status = "pending"
  /\ rows' = ExpirePending(rows, gate[c].on)
  /\ gate' = [gate EXCEPT ![c].phase = "ended"]
  /\ GateUnchanged /\ UNCHANGED left

(* The hold's timer fires, never before the row it waits on is due.  The   *)
(* row expires if it still is pending; a failed statement changes nothing. *)
HoldEnds(c) ==
  /\ gate[c].phase = "hold" /\ rows[gate[c].on].due
  /\ gate' = [gate EXCEPT ![c].phase = "ended"]
  /\ \/ rows' = ExpirePending(rows, gate[c].on) /\ UNCHANGED left
     \/ UNCHANGED rows /\ Spend("fail")
  /\ GateUnchanged

HoldDenies(c) ==
  /\ gate[c].phase = "ended"
  /\ gate' = [gate EXCEPT ![c] = Answered("deny")]
  /\ GateUnchanged /\ UNCHANGED <<rows, left>>

(* The api-server dies with the call; the gateway then refuses it. *)
GateDies(c) ==
  /\ Spend("die")
  /\ gate[c].phase \in GatePhases \ {"idle", "answered", "died"}
  /\ gate' = [gate EXCEPT ![c] = [NoGate EXCEPT !.phase = "died"]]
  /\ GateUnchanged /\ UNCHANGED rows

---------------------------------------------------------------------------
(* The owner's verbs *)

Permanent == {"approvePermanent", "approveHost", "denyForever"}

(* What the verb makes of the row; a proposal is only accepted, as a rule, *)
(* or declined.                                                            *)
VerdictOf(verb, i) ==
  CASE verb = "approveOnce" -> "allow_once"
    [] verb \in {"approvePermanent", "approveHost"} -> "allow"
    [] verb = "denyForever" -> "deny"
    [] verb = "dismiss" -> IF i \in Proposals THEN "deny" ELSE "deny_once"

Declines(verb, i) == i \in Proposals /\ verb \in {"denyForever", "dismiss"}

WritesRule(verb, i) == verb \in Permanent /\ ~Declines(verb, i)

(* A verb for once needs a pending row, and so does declining a proposal;  *)
(* one for good takes an expired row too.                                  *)
Actionable(verb, i) ==
  /\ ~(verb = "approveOnce" /\ i \in Proposals)
  /\ rows[i].status \in IF WritesRule(verb, i) THEN {"pending", "expired"}
                        ELSE {"pending"}

ScopeOf(verb, i) == IF verb = "approveHost" THEN HostWide ELSE ShapeOf[i]

DeskUnchanged == UNCHANGED <<gate, proposing>>

LoadOwned(o, i, verb) ==
  /\ o \in scene /\ desk[o].phase = "idle" /\ Actionable(verb, i)
  /\ desk' = [desk EXCEPT ![o] =
       [phase |-> IF WritesRule(verb, i) THEN "rule" ELSE "resolve",
        row |-> i, verb |-> verb]]
  /\ DeskUnchanged /\ UNCHANGED <<rules, revoked, rows, left>>

(* Mutant: a clash is ignored, as if the rule had been written. *)
WriteRuleOver(o) ==
  /\ desk[o].phase = "rule"
  /\ LET s == ScopeOf(desk[o].verb, desk[o].row)
         v == VerdictOf(desk[o].verb, desk[o].row)
     IN  rules' = IF rules[s] = None THEN [rules EXCEPT ![s] = v] ELSE rules
  /\ desk' = [desk EXCEPT ![o].phase = "resolve"]
  /\ DeskUnchanged /\ UNCHANGED <<revoked, rows, left>>

(* The rule is written before the row is settled.  A rule of the same      *)
(* scope stays: with the same verdict it is the rule, with the other the   *)
(* decision ends in a conflict and settles nothing.                        *)
WriteRule(o) ==
  /\ desk[o].phase = "rule"
  /\ LET s == ScopeOf(desk[o].verb, desk[o].row)
         v == VerdictOf(desk[o].verb, desk[o].row)
     IN  /\ rules' = IF rules[s] = None THEN [rules EXCEPT ![s] = v] ELSE rules
         /\ desk' = [desk EXCEPT ![o] =
               IF rules'[s] = v THEN [@ EXCEPT !.phase = "resolve"]
               ELSE DeskDone]
  /\ DeskUnchanged /\ UNCHANGED <<revoked, rows, left>>

(* Whoever finds the row pending settles it; a rule's verdict also settles *)
(* a row found expired, in a second statement.                             *)
ResolveRow(o) ==
  /\ desk[o].phase = "resolve"
  /\ LET i == desk[o].row
         casWon == rows[i].status = "pending"
     IN  /\ rows' = ResolvePending(rows, i, VerdictOf(desk[o].verb, i),
                                   i \in Proposals)
         /\ desk' = [desk EXCEPT ![o] =
               IF casWon \/ ~WritesRule(desk[o].verb, i) THEN DeskDone
               ELSE [@ EXCEPT !.phase = "flip"]]
  /\ DeskUnchanged /\ UNCHANGED <<rules, revoked, left>>

FlipExpired(o) ==
  /\ desk[o].phase = "flip"
  /\ rows' = ResolveExpired(rows, desk[o].row,
                            VerdictOf(desk[o].verb, desk[o].row))
  /\ desk' = [desk EXCEPT ![o] = DeskDone]
  /\ DeskUnchanged /\ UNCHANGED <<rules, revoked, left>>

(* The api-server dies between two statements of the decision. *)
DecisionDies(o) ==
  /\ Spend("die")
  /\ desk[o].phase \in {"rule", "resolve", "flip"}
  /\ desk' = [desk EXCEPT ![o] = DeskDone]
  /\ DeskUnchanged /\ UNCHANGED <<rules, revoked, rows>>

(* The owner removes a rule in the network settings. *)
RevokeRule(s) ==
  /\ Spend("revoke")
  /\ rules[s] # None
  /\ rules' = [rules EXCEPT ![s] = None]
  /\ revoked' = revoked \cup {s}
  /\ UNCHANGED <<gate, desk, proposing, rows>>

---------------------------------------------------------------------------
(* The agent proposes a rule: what is allowed or already open is not asked *)
(* again, and only so many may be open when it looks.                      *)

OpenProposals == Pending(rows) \cap Proposals

Propose(p) ==
  /\ Spend("ask")
  /\ p \in scene /\ proposing[p] = "idle"
  /\ Matched(ShapeOf[p]) # "allow"
  /\ rows[p].status # "pending"
  /\ Cardinality(OpenProposals) < ProposalMax
  /\ proposing' = [proposing EXCEPT ![p] = "file"]
  /\ UNCHANGED <<rules, revoked, gate, desk, rows>>

FileProposal(p) ==
  /\ proposing[p] = "file"
  /\ rows' = InsertPending(rows, p)
  /\ proposing' = [proposing EXCEPT ![p] = "idle"]
  /\ UNCHANGED <<rules, revoked, gate, desk, left>>

---------------------------------------------------------------------------
GateStep(c) ==
  \/ GateInsert(c) \/ CheckResolved(c) \/ HoldEnds(c) \/ HoldDenies(c)
  \/ \E b \in BOOLEAN : GateFind(c, b)

DeskStep(o) == WriteRule(o) \/ ResolveRow(o) \/ FlipExpired(o)

EgressNext ==
  \/ \E c \in Calls : \/ GateStep(c) \/ GateDies(c)
                      \/ \E b \in BOOLEAN : GateMatch(c, b)
  \/ \E o \in Owners :
       \/ DeskStep(o) \/ DecisionDies(o)
       \/ \E i \in Calls \cup Proposals, v \in Verbs : LoadOwned(o, i, v)
  \/ \E s \in Scopes : RevokeRule(s)
  \/ \E p \in Proposals : Propose(p) \/ FileProposal(p)
=============================================================================
