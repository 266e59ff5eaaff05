----------------------------- MODULE MCApprovals ----------------------------
(* Instances of Approvals for TLC. *)
EXTENDS Approvals, TLC

CONSTANTS c1, c2, c3, p1, t1, t2, o1, o2, get, put

ShapeTable == [i \in Calls \cup Proposals |-> IF i \in {c3} THEN put
                                              ELSE get]
OneToolCall == [t \in Tools |-> "bash"]

Quiet == [d \in Disturbances |-> 0]
Fault(d) == [Quiet EXCEPT ![d] = 1]

With(who, faults) == [scene |-> who, faults |-> faults]

(* Calls of one shape and of two, a call beside a proposal of its shape,   *)
(* and a tool call, asked for once or again.                               *)
EachKind ==
  {With({c1, c2, o1}, Fault("die")), With({c1, c3, o1}, Fault("fail")),
   With({c1, o1, o2}, [Fault("fail") EXCEPT !["revoke"] = 1]),
   With({c1, o1, o2}, [Fault("die") EXCEPT !["revoke"] = 1]),
   With({c1, p1, o1}, [Quiet EXCEPT !["ask"] = 2]),
   With({t1, o1}, Fault("fail")), With({t1, o1}, Fault("die")),
   With({t1}, [Quiet EXCEPT !["fail"] = 2]),
   With({t1, o1, o2}, Quiet), With({t1, t2}, Quiet)}

ToolAfterCall == {With({c1, t1, o1}, Fault("fail"))}
=============================================================================
