------------------------------ MODULE Approvals -----------------------------
(***************************************************************************)
(* What an agent's owner is asked, end to end: the egress gate and the     *)
(* tool permissions over the one table of rows, with the sweeper that      *)
(* serves both, and what the whole promises.                               *)
(***************************************************************************)
EXTENDS EgressHolds, ToolApprovals

vars == <<rows, scene, left, egressVars, toolVars>>

Init ==
  /\ rows = [i \in Ids |-> Absent]
  /\ \E s \in Scenarios : scene = s.scene /\ left = s.faults
  /\ EgressInit
  /\ ToolInit

(* The expiry of a row counts while it is open or a hold waits on it. *)
TimePasses(i) ==
  /\ RowDue(i)
  /\ rows[i].status = "pending" \/ \E c \in Calls : Waiting(c) /\ gate[c].on = i
  /\ UNCHANGED <<scene, left, egressVars, toolVars>>

Next ==
  \/ EgressNext /\ UNCHANGED <<scene, toolVars>>
  \/ ToolNext /\ UNCHANGED <<scene, egressVars>>
  \/ \E i \in Ids : TimePasses(i)

Spec == Init /\ [][Next]_vars

(* What goes on by itself: a handler that runs, a timer, a frame on its    *)
(* way, the sweep.  Nobody has to ask, decide or answer anything.          *)
Goes ==
  \/ /\ \/ \E c \in Calls : GateStep(c)
        \/ \E o \in Owners : DeskStep(o)
        \/ \E p \in Proposals : FileProposal(p)
     /\ UNCHANGED <<scene, toolVars>>
  \/ /\ \/ \E t \in Tools : \/ RecordStep(t) \/ EndStep(t)
                             \/ MirrorRead(t) \/ MirrorResolve(t)
        \/ \E f \in frames : FrameArrives(f)
        \/ \E o \in Owners : ReplyStep(o)
        \/ SweepStep
     /\ UNCHANGED <<scene, egressVars>>
  \/ \E i \in Ids : TimePasses(i)

(* Every behaviour of a scenario runs out of steps, so it is enough that   *)
(* some step that can be taken is taken.                                   *)
Fairness == WF_vars(Goes)

FairSpec == Spec /\ Fairness

---------------------------------------------------------------------------
(* Rows, rules and the handlers at work on them keep their shape: a rule  *)
(* only ever allows or denies, never for once.                             *)
TypeOK ==
  /\ rows \in [Ids -> Row]
  /\ scene \subseteq Ids \cup Owners
  /\ left \in [Disturbances -> Nat]
  /\ rules \in [Scopes -> {"allow", "deny", None}]
  /\ revoked \subseteq Scopes
  /\ gate \in [Calls -> Gates]
  /\ desk \in [Owners -> Desks]
  /\ proposing \in [Proposals -> {"idle", "file"}]
  /\ ask \in [Tools -> Asks]
  /\ rec \in [Tools -> {"none", "sent", "lost", "written", "done"}]
  /\ end \in [Tools -> Ends]
  /\ mirror \in [Tools -> Mirrors]
  /\ reply \in [Owners -> Replies]
  /\ frames \subseteq Frames
  /\ sweep \in Sweeps

(* A call its hold let through stands on a decision of the owner about     *)
(* this very shape, still on record as a grant, whichever of the poll, the *)
(* timer, the sweep and a late permanent verdict came first.               *)
AllowIsGranted ==
  \A c \in Calls : gate[c].held /\ gate[c].answer = "allow" =>
    LET r == gate[c].on
    IN  /\ ShapeOf[r] = ShapeOf[c]
        /\ rows[r].status = "resolved" /\ Grants(rows[r].verdict)

(* A row settled for good is backed by a rule with its verdict, for its    *)
(* shape or its host, unless that rule was revoked since, so the next call *)
(* is treated as the row says.  Two owners deciding opposite ways on one   *)
(* scope cannot both settle it.                                            *)
PermanentHasRule ==
  \A i \in Calls \cup Proposals :
    rows[i].status = "resolved" /\ rows[i].verdict \in {"allow", "deny"}
      /\ ~(i \in Proposals /\ rows[i].verdict = "deny") =>
      \E s \in {ShapeOf[i], HostWide} :
        rules[s] = rows[i].verdict \/ s \in revoked

(* A decided question stays decided the way it was: an egress row never    *)
(* changes its verdict and only a proposal asked again leaves it, and a    *)
(* tool's row changes only to what the runtime says the harness was told.  *)
DecidedOnce ==
  [][\A i \in Ids : rows[i].status = "resolved" =>
       \/ /\ rows'[i].status = "resolved"
          /\ \/ rows'[i].verdict = rows[i].verdict
             \/ i \in Tools /\ rows'[i].verdict = ask[i].given
       \/ i \in Proposals /\ rows[i].delivered /\ rows'[i].status = "pending"
    ]_vars

(* Once a request's end is settled its row is not open to a decision any   *)
(* more, although the call that records the request may still be under     *)
(* way, and a verdict on it is the answer the harness got.                 *)
EndIsFinal ==
  \A t \in Tools : end[t].phase = "done" =>
    /\ rows[t].status \in {"resolved", "expired"}
    /\ ask[t].given # None /\ rows[t].status = "resolved"
         => rows[t].verdict = ask[t].given

CallsWait == \E c \in Calls : Waiting(c)

(* Calls that wait are all answered in the end: no lost wake-up, no sweep  *)
(* that expired the row first and no failed statement leaves one waiting.  *)
EveryCallAnswered == CallsWait ~> ~CallsWait

VerdictAstray == \E t \in Tools : rows[t].status = "resolved" /\ Held(t)

(* A verdict on a tool's row reaches the runtime while it holds the        *)
(* request: what the first attempt lost the sweep sends again.             *)
DecisionReachesTool == VerdictAstray ~> ~VerdictAstray

(* No question stays open forever, not even one whose asker is gone. *)
QuestionsClose == Pending(rows) # {} ~> Pending(rows) = {}
=============================================================================
