--------------------------- MODULE MCLeaderLease ----------------------------
(* Instances of LeaderLease for TLC. *)
EXTENDS LeaderLease, TLC

CONSTANTS r1, r2, channels, watch

Quietly == [d \in Disturbances |-> 0]

(* Campaigns that fail, with a crash or a failed start; a replica that is  *)
(* stopped while a role does not stop; a start that lasts.                 *)
EachKind ==
  {[Quietly EXCEPT !["api"] = 4, !["crash"] = 1],
   [Quietly EXCEPT !["api"] = 2, !["start"] = 1, !["crash"] = 1],
   [Quietly EXCEPT !["start"] = 2, !["quit"] = 1, !["crash"] = 1],
   [Quietly EXCEPT !["api"] = 1, !["stop"] = 1, !["quit"] = 1],
   [Quietly EXCEPT !["slow"] = 1, !["crash"] = 1, !["quit"] = 1]}
=============================================================================
