---------------------------- MODULE MCSatellites ----------------------------
(* Instances of Satellites for TLC. *)
EXTENDS Satellites, TLC

CONSTANTS p1, p2, a1, a2, o1, d1, d2

Calls1 == [d \in Disturbances |-> IF d = "call" THEN 1 ELSE 0]
Calls2 == [Calls1 EXCEPT !["call"] = 2]

With(who, faults) == [scene |-> who, faults |-> faults]

EachScenario == {
  (* A call or its answer is lost, the worker dies, the agent asks again.  *)
  With({p1, a1, d1, "wait"},
       [Calls1 EXCEPT !["net"] = 1, !["kill"] = 1, !["again"] = 1]),
  (* Two losses around two calls: an outcome is kept, sent again, evicted. *)
  With({p1, a1, d1}, [Calls2 EXCEPT !["net"] = 2]),
  (* A cancellation whose handover is lost                                 *)
  With({p1, a1, d1, "wait"}, [Calls1 EXCEPT !["cancel"] = 1, !["net"] = 2]),
  (* One interrupt or two, with a lost call                                *)
  With({p1, a1, d1}, [Calls1 EXCEPT !["stop"] = 2, !["net"] = 1]),
  (* A second process of the same name, and one of them dies               *)
  With({p1, p2, a1, d1}, [Calls1 EXCEPT !["second"] = 1, !["kill"] = 1]),
  (* The name is removed and registered again by another process.          *)
  With({p1, p2, a1, d1}, [Calls2 EXCEPT !["remove"] = 1, !["grant"] = 1]),
  (* The owner cancels, revokes and grants again.                          *)
  With({p1, a1, o1, d1, "wait"},
       [Calls1 EXCEPT !["revoke"] = 1, !["grant"] = 1, !["cancel"] = 1]),
  (* A revocation whose server dies between its two statements             *)
  With({p1, a1, o1, d1}, [Calls1 EXCEPT !["revoke"] = 1, !["die"] = 1]),
  (* The machine has just gone: two calls at once, the hourly retry during *)
  (* a delivery, and the retention ends.                                   *)
  With({a1, a2, d1, d2, "wait"}, [Calls2 EXCEPT !["hour"] = 1, !["week"] = 1]),
  (* A delivery that fails, a request or a delivery that dies              *)
  With({a1, d1, d2, "wait"},
       [Calls2 EXCEPT !["fail"] = 1, !["die"] = 1, !["week"] = 1]),
  (* A renewal that is late, and a delivery that fails                     *)
  With({p1, a1, d1, d2, "wait"}, [Calls1 EXCEPT !["late"] = 1, !["fail"] = 1])}
=============================================================================
