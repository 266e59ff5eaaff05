---------------------------- MODULE ToolApprovals ---------------------------
(***************************************************************************)
(* Tool permissions.  The agent-runtime holds a harness's request until    *)
(* the first answer reaches it; the answer may come from a chat client or, *)
(* through the approvals service and the delivery sweeper, from whoever    *)
(* decides on the row.  The row is recorded by the relay a client is       *)
(* connected through and by the runtime's own report, and the runtime      *)
(* reports how the request ended.                                          *)
(***************************************************************************)
EXTENDS ApprovalRows

CONSTANTS
  ToolCallOf,     \* [Tools -> ...]: requests of one tool call share it
  Offered,        \* the option kinds the harness offers, as verdicts
  Decisions,      \* the verdicts owners pick
  EndAttempts,    \* END_ATTEMPTS of the runtime's end report
  BatchSize       \* rows the sweeper takes in one tick

VARIABLES
  ask,       \* the runtime's hold on each request, and the answer it gave
  rec,       \* the call that records a request
  end,       \* the handler of a request's end report
  mirror,    \* the relay's copy of a client's answer
  reply,      \* the handler of each approver's decision
  frames,    \* answers on their way to the runtime
  sweep      \* the delivery sweeper's tick

toolVars == <<ask, rec, end, mirror, reply, frames, sweep>>

ASSUME OfferedAssumption == Offered \cup Decisions \subseteq Verdicts
ASSUME EndAttemptsAssumption == EndAttempts \in Nat \ {0}
ASSUME BatchSizeAssumption == BatchSize \in Nat \ {0}

Asks == [st : {"idle", "held", "answered", "dropped", "gone"},
         given : Verdicts \cup {None}]

Ends == [phase : {"idle", "read", "resolve", "correct", "mark", "expire",
                  "insert", "done", "lost"},
         tries : 0 .. EndAttempts]

Mirrors == [phase : {"idle", "read", "resolve"},
            verdict : Verdicts \cup {None}]

Replies == [phase : {"idle", "resolve", "send", "mark", "done"},
              row : Tools \cup {None}, verdict : Verdicts \cup {None}]

Frames == [row : Tools, verdict : Verdicts]

Sweeps == [phase : {"idle", "send", "mark"},
           rows : SUBSET Frames, row : Tools \cup {None}]

NoMirror == [phase |-> "idle", verdict |-> None]
NoReply == [phase |-> "idle", row |-> None, verdict |-> None]
ReplyDone == [NoReply EXCEPT !.phase = "done"]

ToolInit ==
  /\ ask = [t \in Tools |-> [st |-> "idle", given |-> None]]
  /\ rec = [t \in Tools |-> "none"]
  /\ end = [t \in Tools |-> [phase |-> "idle", tries |-> 0]]
  /\ mirror = [t \in Tools |-> NoMirror]
  /\ reply = [o \in Owners |-> NoReply]
  /\ frames = {}
  /\ sweep = [phase |-> "idle", rows |-> {}, row |-> None]

---------------------------------------------------------------------------
(* The runtime *)

Held(t) == ask[t].st = "held"
Over(t) == ask[t].st \in {"answered", "dropped", "gone"}

(* The harness asks, again under another id when it lost the request it    *)
(* had open for the tool call.  A client that watches shows the request    *)
(* and its relay records it; without one the runtime reports it.           *)
OnAgentRequest(t) ==
  /\ t \in scene /\ ask[t].st = "idle"
  /\ \A s \in Tools : ToolCallOf[s] = ToolCallOf[t]
                        => ask[s].st \in {"idle", "dropped", "gone"}
  /\ ask' = [ask EXCEPT ![t].st = "held"]
  /\ rec' = [rec EXCEPT ![t] = "sent"]
  /\ UNCHANGED <<rows, left, end, mirror, reply, frames, sweep>>

(* The option sent is one of the very kind decided; without it the answer  *)
(* cancels the request.                                                    *)
PickOption(v) == IF v \in Offered THEN v ELSE "deny_once"

EndsWith(t, st, v) ==
  /\ ask' = [ask EXCEPT ![t] = [st |-> st, given |-> v]]
  /\ end' = [end EXCEPT ![t].phase = "read"]

(* The first answer is the answer; a later one finds nothing held. *)
FrameArrives(f) ==
  /\ f \in frames
  /\ frames' = frames \ {f}
  /\ IF Held(f.row) THEN EndsWith(f.row, "answered", PickOption(f.verdict))
     ELSE UNCHANGED <<ask, end>>
  /\ UNCHANGED <<rows, left, rec, mirror, reply, sweep>>

(* A chat client answers over its own connection, which the relay copies,  *)
(* or the runtime cancels the request with its turn, which it does not.    *)
ClientAnswers(t, v) ==
  /\ Held(t)
  /\ EndsWith(t, "answered", v)
  /\ mirror' = [mirror EXCEPT ![t] = [phase |-> "read", verdict |-> v]]
  /\ UNCHANGED <<rows, left, rec, reply, frames, sweep>>

CancelApprovals(t) ==
  /\ Held(t)
  /\ EndsWith(t, "answered", "deny_once")
  /\ UNCHANGED <<rows, left, rec, mirror, reply, frames, sweep>>

(* No client came before the request's time ran out, its session was reset *)
(* or its harness ended.                                                   *)
AbortRequest(t) ==
  /\ Held(t)
  /\ EndsWith(t, "dropped", None)
  /\ UNCHANGED <<rows, left, rec, mirror, reply, frames, sweep>>

(* The machine stops: nothing is reported, and frames to it are lost. *)
RuntimeDies ==
  /\ Spend("die")
  /\ \E t \in Tools : Held(t) \/ end[t].phase # "idle"
  /\ ask' = [t \in Tools |-> IF Held(t) THEN [ask[t] EXCEPT !.st = "gone"]
                             ELSE ask[t]]
  /\ rec' = [t \in Tools |-> IF Held(t) /\ rec[t] = "lost" THEN "none"
                             ELSE rec[t]]
  /\ end' = [t \in Tools |-> IF end[t].phase = "read"
                             THEN [end[t] EXCEPT !.phase = "lost"] ELSE end[t]]
  /\ frames' = {}
  /\ UNCHANGED <<rows, mirror, reply, sweep>>

---------------------------------------------------------------------------
(* recordAcpNativePending, in the relay and in the report *)

RecordPending(t) ==
  /\ rec[t] = "sent"
  /\ rows' = InsertIfAbsent(rows, t)
  /\ rec' = [rec EXCEPT ![t] =
               IF rows[t].status = "absent" THEN "written" ELSE "done"]
  /\ UNCHANGED <<left, ask, end, mirror, reply, frames, sweep>>

(* Other open rows of the same tool call are from before: they expire. *)
ExpireSuperseded(t) ==
  /\ rec[t] = "written"
  /\ LET old == {s \in Tools \ {t} : ToolCallOf[s] = ToolCallOf[t]}
     IN  rows' = [i \in Ids |-> IF i \in old /\ rows[i].status = "pending"
                                THEN Expire(rows[i]) ELSE rows[i]]
  /\ rec' = [rec EXCEPT ![t] = "done"]
  /\ UNCHANGED <<left, ask, end, mirror, reply, frames, sweep>>

(* The call fails, and the runtime repeats it while it holds the request. *)
RecordFails(t) ==
  /\ Spend("fail")
  /\ rec[t] = "sent"
  /\ rec' = [rec EXCEPT ![t] = "lost"]
  /\ UNCHANGED <<rows, ask, end, mirror, reply, frames, sweep>>

RetryRecord(t) ==
  /\ rec[t] = "lost" /\ Held(t)
  /\ rec' = [rec EXCEPT ![t] = "sent"]
  /\ UNCHANGED <<rows, left, ask, end, mirror, reply, frames, sweep>>

---------------------------------------------------------------------------
(* The runtime's end report, the arbiter of what the harness was answered  *)

EndGoes(t, phase) == end' = [end EXCEPT ![t].phase = phase]
EndUnchanged == UNCHANGED <<left, ask, rec, mirror, reply, frames, sweep>>

(* The row is read; without one, a settled one is left in its place. *)
EndRead(t) ==
  /\ end[t].phase = "read"
  /\ EndGoes(t, IF rows[t].status = "absent" THEN "insert"
                ELSE IF ask[t].given # None
                THEN IF rows[t].status = "pending" THEN "resolve"
                     ELSE "correct"
                ELSE IF rows[t].status = "resolved" THEN "mark"
                ELSE "expire")
  /\ EndUnchanged /\ UNCHANGED rows

(* Mutant: an end without a row leaves nothing behind. *)
EndInsertNothing(t) ==
  /\ end[t].phase = "insert"
  /\ EndGoes(t, IF rows[t].status = "absent" THEN "done" ELSE "read")
  /\ EndUnchanged /\ UNCHANGED rows

EndInsert(t) ==
  /\ end[t].phase = "insert"
  /\ rows' = InsertSettled(rows, t, ask[t].given)
  /\ EndGoes(t, IF rows[t].status = "absent" THEN "done" ELSE "read")
  /\ EndUnchanged

EndResolve(t) ==
  /\ end[t].phase = "resolve"
  /\ rows' = ResolvePending(rows, t, ask[t].given, TRUE)
  /\ EndGoes(t, IF rows[t].status = "pending" THEN "done" ELSE "correct")
  /\ EndUnchanged

EndCorrect(t) ==
  /\ end[t].phase = "correct"
  /\ rows' = CorrectVerdict(rows, t, ask[t].given)
  /\ EndGoes(t, "mark")
  /\ EndUnchanged

EndExpire(t) ==
  /\ end[t].phase = "expire"
  /\ rows' = ExpirePending(rows, t)
  /\ EndGoes(t, IF rows[t].status = "pending" THEN "done" ELSE "mark")
  /\ EndUnchanged

EndMark(t) ==
  /\ end[t].phase = "mark"
  /\ rows' = MarkDelivered(rows, t)
  /\ EndGoes(t, "done")
  /\ EndUnchanged

(* The call fails at any point; the runtime repeats it a few times. *)
EndFails(t) ==
  /\ Spend("fail")
  /\ end[t].phase \notin {"idle", "done", "lost"}
  /\ end' = [end EXCEPT ![t] =
       [phase |-> IF @.tries + 1 >= EndAttempts THEN "lost" ELSE "read",
        tries |-> @.tries + 1]]
  /\ UNCHANGED <<rows, ask, rec, mirror, reply, frames, sweep>>

(* The relay's copy of the client's answer, which overrules nothing; it    *)
(* may fail at any point and is not repeated.                              *)
MirrorRead(t) ==
  /\ mirror[t].phase = "read"
  /\ mirror' = [mirror EXCEPT ![t] =
                  IF rows[t].status = "pending"
                  THEN [@ EXCEPT !.phase = "resolve"] ELSE NoMirror]
  /\ UNCHANGED <<rows, left, ask, rec, end, reply, frames, sweep>>

MirrorResolve(t) ==
  /\ mirror[t].phase = "resolve"
  /\ rows' = ResolvePending(rows, t, mirror[t].verdict, TRUE)
  /\ mirror' = [mirror EXCEPT ![t] = NoMirror]
  /\ UNCHANGED <<left, ask, rec, end, reply, frames, sweep>>

---------------------------------------------------------------------------
(* The approvals service *)

ReplyUnchanged == UNCHANGED <<ask, rec, end, mirror, sweep>>

LoadTool(o, t, v) ==
  /\ o \in scene /\ reply[o].phase = "idle" /\ rows[t].status = "pending"
  /\ reply' = [reply EXCEPT ![o] = [phase |-> "resolve", row |-> t,
                                  verdict |-> v]]
  /\ ReplyUnchanged /\ UNCHANGED <<rows, left, frames>>

ResolveTool(o) ==
  /\ reply[o].phase = "resolve"
  /\ rows' = ResolvePending(rows, reply[o].row, reply[o].verdict, FALSE)
  /\ reply' = [reply EXCEPT ![o] =
                  IF rows[reply[o].row].status = "pending"
                  THEN [@ EXCEPT !.phase = "send"] ELSE ReplyDone]
  /\ ReplyUnchanged /\ UNCHANGED <<left, frames>>

(* The answer goes over a connection of its own; a failure is left to the  *)
(* sweeper.                                                                *)
SendFrame(o) ==
  /\ reply[o].phase = "send"
  /\ frames' = frames \cup
                 {[row |-> reply[o].row, verdict |-> reply[o].verdict]}
  /\ reply' = [reply EXCEPT ![o].phase = "mark"]
  /\ ReplyUnchanged /\ UNCHANGED <<rows, left>>

SendFails(o) ==
  /\ reply[o].phase \in {"send", "mark"}
  /\ Spend("fail")
  /\ reply' = [reply EXCEPT ![o] = ReplyDone]
  /\ ReplyUnchanged /\ UNCHANGED <<rows, frames>>

MarkSent(o) ==
  /\ reply[o].phase = "mark"
  /\ rows' = MarkDelivered(rows, reply[o].row)
  /\ reply' = [reply EXCEPT ![o] = ReplyDone]
  /\ ReplyUnchanged /\ UNCHANGED <<left, frames>>

---------------------------------------------------------------------------
(* The delivery sweeper: the answers nobody delivered, one by one, then    *)
(* the rows whose time is over.                                            *)

Undelivered == {i \in Resolved(rows) : ~rows[i].delivered}

(* The oldest of them, whatever they ask about. *)
Batch == {i \in Undelivered :
            Cardinality({j \in Undelivered : rows[j].at < rows[i].at})
              < BatchSize}

Overdue == {i \in Pending(rows) : rows[i].due}

SweepUnchanged == UNCHANGED <<ask, rec, end, mirror, reply>>

(* Mutant: only what is overdue is looked for. *)
SweepListNothing ==
  /\ sweep.phase = "idle" /\ Overdue # {}
  /\ sweep' = [phase |-> "send", rows |-> {}, row |-> None]
  /\ SweepUnchanged /\ UNCHANGED <<rows, left, frames>>

(* A tick that finds nothing to send and nothing to expire is left out. *)
SweepList ==
  /\ sweep.phase = "idle"
  /\ Batch \cap Tools # {} \/ Overdue # {}
  /\ sweep' = [phase |-> "send", row |-> None,
               rows |-> {[row |-> t, verdict |-> rows[t].verdict] :
                           t \in Batch \cap Tools}]
  /\ SweepUnchanged /\ UNCHANGED <<rows, left, frames>>

SweepSend(f) ==
  /\ sweep.phase = "send" /\ f \in sweep.rows
  /\ frames' = frames \cup {f}
  /\ sweep' = [phase |-> "mark", rows |-> sweep.rows \ {f}, row |-> f.row]
  /\ SweepUnchanged /\ UNCHANGED <<rows, left>>

SweepMark ==
  /\ sweep.phase = "mark"
  /\ rows' = MarkDelivered(rows, sweep.row)
  /\ sweep' = [sweep EXCEPT !.phase = "send", !.row = None]
  /\ SweepUnchanged /\ UNCHANGED <<left, frames>>

SweepSkips(f) ==
  /\ Spend("fail")
  /\ sweep.phase = "send" /\ f \in sweep.rows
  /\ sweep' = [sweep EXCEPT !.rows = @ \ {f}]
  /\ SweepUnchanged /\ UNCHANGED <<rows, frames>>

SweepExpire ==
  /\ sweep.phase = "send" /\ sweep.rows = {}
  /\ rows' = ExpireOverdue(rows)
  /\ sweep' = [sweep EXCEPT !.phase = "idle"]
  /\ SweepUnchanged /\ UNCHANGED <<left, frames>>

SweepStep == \/ SweepList \/ SweepMark \/ SweepExpire
             \/ \E f \in sweep.rows : SweepSend(f)

EndStep(t) == \/ EndRead(t) \/ EndInsert(t) \/ EndResolve(t) \/ EndCorrect(t)
              \/ EndExpire(t) \/ EndMark(t)

RecordStep(t) == RecordPending(t) \/ ExpireSuperseded(t) \/ RetryRecord(t)

ReplyStep(o) == ResolveTool(o) \/ SendFrame(o) \/ MarkSent(o)

ToolNext ==
  \/ \E t \in Tools :
       \/ OnAgentRequest(t) \/ CancelApprovals(t) \/ AbortRequest(t)
       \/ RecordStep(t) \/ RecordFails(t)
       \/ EndStep(t) \/ EndFails(t)
       \/ MirrorRead(t) \/ MirrorResolve(t)
       \/ \E v \in Offered : ClientAnswers(t, v)
  \/ \E f \in frames : FrameArrives(f)
  \/ \E o \in Owners : \/ ReplyStep(o) \/ SendFails(o)
                          \/ \E t \in Tools, v \in Decisions : LoadTool(o, t, v)
  \/ RuntimeDies
  \/ \E f \in sweep.rows : SweepSkips(f)
  \/ SweepStep
=============================================================================
