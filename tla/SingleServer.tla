---------------------------- MODULE SingleServer ----------------------------
(***************************************************************************)
(* What the replicas of the api-server promise the work that admits one    *)
(* holder install-wide (the channel workers, the agent watch): at most one *)
(* replica is at it at a time, it is left before another takes it, and it  *)
(* is not left undone for good.                                            *)
(***************************************************************************)
CONSTANTS Replicas, None

VARIABLE server

Init == server = None

Take(r) == server = None /\ server' = r

Leave == server # None /\ server' = None

Next == Leave \/ \E r \in Replicas : Take(r)

Safety == Init /\ [][Next]_server

Served == []<>(server # None)

Spec == Safety /\ Served
=============================================================================
