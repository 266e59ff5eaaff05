-------------------------- MODULE LeaderLeaseProofs -------------------------
(***************************************************************************)
(* The safety of the leader election, for every set of replicas and roles  *)
(* and every lease duration of at least three campaigns.                   *)
(***************************************************************************)
EXTENDS LeaderLease, FiniteSetTheorems, TLAPS

(* A process that is down has nothing under way. *)
DownIsClean ==
  \A r \in Replicas : proc[r] = "down" =>
    /\ claim[r].at = "idle" /\ ~due[r] /\ failures[r] = 0 /\ backoff[r] = 0
    /\ chain[r] = <<>> /\ phase[r] = "idle" /\ up[r] = {}
    /\ \A o \in Origins : release[r][o] = "idle"

(* The books of a replica, in each phase of a transition. *)
Books(r) ==
  /\ chain[r] = <<>> => phase[r] = "idle"
  /\ phase[r] = "idle" =>
       /\ running[r] = IF held[r] THEN Roles ELSE {}
       /\ up[r] \subseteq running[r] \cup stopFailed[r]
  /\ phase[r] = "start" =>
       held[r] /\ (~broken[r] => Roles \subseteq running[r] \cup todo[r])
  /\ phase[r] \in {"stop", "rollback", "release"} => running[r] = {}
  /\ phase[r] \in {"stop", "release"} => ~held[r]
  /\ phase[r] \in {"stop", "rollback"} =>
       up[r] \subseteq todo[r] \cup stopFailed[r]
  /\ phase[r] = "release" => up[r] \subseteq stopFailed[r]

BooksKept == \A r \in Replicas : Books(r)

(* A delete under way is of a Lease that is still one's own. *)
OwnLease ==
  \A r \in Replicas, o \in Origins : release[r][o] = "delete" => lease = r

---------------------------------------------------------------------------
(* The shape of the state *)

(* Of a replica that has lost the Lease or the power to start its roles,  *)
(* the back-off is bounded: Backoff never exceeds BackoffMax durations.    *)
LEMMA BackoffBounded ==
  ASSUME NEW n \in Nat
  PROVE  Backoff(n) \in 0..(TTL * BackoffMax)
<1>1. PICK k \in Nat : k = IF n < BackoffMax THEN n ELSE BackoffMax
  BY LeaseAssumption
<1>2. k <= BackoffMax
  BY <1>1, LeaseAssumption
<1>3. TTL * k \in Nat /\ TTL * BackoffMax \in Nat
  BY <1>1, LeaseAssumption
<1>4. PICK m \in Nat : BackoffMax = k + m
  BY <1>2, LeaseAssumption
<1>5. TTL * BackoffMax = TTL * k + TTL * m
  BY <1>4, LeaseAssumption
<1>6. TTL * m \in Nat
  BY LeaseAssumption
<1> QED
  BY <1>1, <1>3, <1>5, <1>6 DEF Backoff

Transition == [to : BOOLEAN, then : Origins \cup {None}]

LEMMA ClaimsWritten ==
  ASSUME TypeOK
  PROVE  ClaimsAfterWrite \in [Replicas -> Claim]
<1>1. \A r \in Replicas : claim[r] \in Claim
  BY DEF TypeOK
<1>2. \A c \in Claim : Outdated(c.at) \in {"idle", "read", "create", "replace", "conflict"}
  BY DEF Claim, Outdated
<1>3. ASSUME NEW c \in Claim PROVE [c EXCEPT !.at = Outdated(@)] \in Claim
  <2>1. PICK p \in {"idle", "read", "create", "replace", "conflict"} : p = Outdated(c.at)
    BY <1>2
  <2>2. [c EXCEPT !.at = p] \in Claim
    BY DEF Claim
  <2> QED
    BY <2>1, <2>2
<1> QED
  BY <1>1, <1>3 DEF ClaimsAfterWrite

(* A disturbance that happens is one fewer to come. *)
LEMMA SpendType ==
  ASSUME TypeOK, NEW d \in Disturbances, Spend(d)
  PROVE  left' \in [Disturbances -> Nat]
<1>1. left \in [Disturbances -> Nat]
  BY DEF TypeOK
<1> QED
  BY <1>1 DEF Spend

LEMMA ReleasesWritten ==
  ASSUME TypeOK
  PROVE  ReleasesAfterWrite \in
           [Replicas -> [Origins -> {"idle", "read", "delete", "conflict"}]]
BY DEF TypeOK, ReleasesAfterWrite, Outdated

LEMMA ChainedType ==
  ASSUME TypeOK, NEW r \in Replicas, NEW to \in BOOLEAN,
         NEW then \in Origins \cup {None}, Chained(r, to, then)
  PROVE  chain' \in [Replicas -> Seq(Transition)]
<1>1. [to |-> to, then |-> then] \in Transition
  BY DEF Transition
<1>2. chain[r] \in Seq(Transition)
  BY DEF TypeOK, Transition
<1>3. Append(chain[r], [to |-> to, then |-> then]) \in Seq(Transition)
  BY <1>1, <1>2
<1> QED
  BY <1>3 DEF Chained, TypeOK, Transition

LEMMA SettledType ==
  ASSUME TypeOK, NEW r \in Replicas, NEW result \in {"won", "lost", "failed"},
         NEW claims \in [Replicas -> Claim], Settled(r, result, claims)
  PROVE  /\ claim' \in [Replicas -> Claim]
         /\ failures' \in [Replicas -> 0..2]
         /\ chain' \in [Replicas -> Seq(Transition)]
<1>1. claim' \in [Replicas -> Claim]
  BY DEF Settled, Claim, Idle
<1>2. failures' \in [Replicas -> 0..2]
  <2>1. \/ UNCHANGED failures
        \/ failures' = [failures EXCEPT ![r] = 0]
        \/ failures' = [failures EXCEPT ![r] = IF @ < 2 THEN @ + 1 ELSE 2]
    BY Zenon DEF Settled
  <2>2. failures \in [Replicas -> 0..2] /\ failures[r] \in 0..2
    BY DEF TypeOK
  <2>3. CASE failures' = [failures EXCEPT ![r] = IF @ < 2 THEN @ + 1 ELSE 2]
    <3>1. (IF failures[r] < 2 THEN failures[r] + 1 ELSE 2) \in 0..2
      BY <2>2
    <3> QED
      BY <2>2, <2>3, <3>1
  <2> QED
    BY <2>1, <2>2, <2>3
<1>3. chain' \in [Replicas -> Seq(Transition)]
  <2>1. (result = "won") \in BOOLEAN /\ FALSE \in BOOLEAN
    OBVIOUS
  <2>2. None \in Origins \cup {None} /\ "campaign" \in Origins \cup {None}
    BY DEF Origins
  <2>3. ASSUME UNCHANGED chain
        PROVE  chain' \in [Replicas -> Seq(Transition)]
    BY <2>3 DEF TypeOK, Transition
  <2>4. CASE Chained(r, result = "won", None)
    <3>1. PICK b \in BOOLEAN : b = (result = "won")
      BY <2>1
    <3>2. Chained(r, b, None)
      BY <2>4, <3>1 DEF Chained
    <3> QED
      BY <3>2, <2>2, ChainedType
  <2>5. CASE Chained(r, FALSE, "campaign")
    BY <2>5, <2>1, <2>2, ChainedType
  <2> QED
    BY <2>3, <2>4, <2>5 DEF Settled
<1> QED
  BY <1>1, <1>2, <1>3

LEMMA FinishedType ==
  ASSUME TypeOK, NEW r \in Replicas, chain[r] # <<>>, Finished(r)
  PROVE  /\ chain' \in [Replicas -> Seq(Transition)]
         /\ phase' \in
              [Replicas -> {"idle", "start", "stop", "rollback", "release"}]
         /\ release' \in
              [Replicas -> [Origins -> {"idle", "read", "delete", "conflict"}]]
<1>1. chain[r] \in Seq(Transition)
  BY DEF TypeOK, Transition
<1>2. Head(chain[r]) \in Transition /\ Tail(chain[r]) \in Seq(Transition)
  BY <1>1
<1>3. chain' \in [Replicas -> Seq(Transition)]
  BY <1>2 DEF Finished, TypeOK, Transition
<1>4. Head(chain[r]).then \in Origins \cup {None}
  BY <1>2 DEF Transition
<1> QED
  BY <1>3, <1>4 DEF Finished, TypeOK

(* What a step leaves alone keeps its type; what it changes, it changes    *)
(* within it.  One step per action.                                        *)
LEMMA ClaimStepType ==
  ASSUME TypeOK, NEW r \in Replicas, ClaimStep(r) \/ ClaimFails(r)
  PROVE  TypeOK'
<1> USE DEF campaignVars, chainVars
<1>1. "won" \in {"won", "lost", "failed"} /\ "lost" \in {"won", "lost", "failed"}
      /\ "failed" \in {"won", "lost", "failed"}
  OBVIOUS
<1>2. claim \in [Replicas -> Claim] /\ ClaimsAfterWrite \in [Replicas -> Claim]
  BY ClaimsWritten DEF TypeOK
<1>3. ASSUME Settled(r, "won", ClaimsAfterWrite)
      PROVE  /\ claim' \in [Replicas -> Claim] /\ failures' \in [Replicas -> 0..2]
             /\ chain' \in [Replicas -> Seq(Transition)]
  BY <1>1, <1>2, <1>3, SettledType
<1>4. ASSUME Settled(r, "lost", claim)
      PROVE  /\ claim' \in [Replicas -> Claim] /\ failures' \in [Replicas -> 0..2]
             /\ chain' \in [Replicas -> Seq(Transition)]
  BY <1>1, <1>2, <1>4, SettledType
<1>5. ASSUME Settled(r, "failed", claim) \/ Settled(r, "failed", ClaimsAfterWrite)
      PROVE  /\ claim' \in [Replicas -> Claim] /\ failures' \in [Replicas -> 0..2]
             /\ chain' \in [Replicas -> Seq(Transition)]
  BY <1>1, <1>2, <1>5, SettledType
<1>6. ASSUME UNCHANGED <<failures, chain>>
      PROVE  failures' \in [Replicas -> 0..2] /\ chain' \in [Replicas -> Seq(Transition)]
  BY <1>6 DEF TypeOK, Transition
<1>7. ASSUME NEW p \in {"idle", "read", "create", "replace", "conflict"},
             claim' = [claim EXCEPT ![r].at = p]
      PROVE  claim' \in [Replicas -> Claim]
  <2>1. [claim[r] EXCEPT !.at = p] \in Claim
    BY <1>2 DEF Claim
  <2>2. claim' = [claim EXCEPT ![r] = [claim[r] EXCEPT !.at = p]]
    BY <1>7
  <2> QED
    BY <1>2, <2>1, <2>2
<1>8. ASSUME NEW p \in {"idle", "read", "create", "replace", "conflict"},
             NEW b \in BOOLEAN,
             claim' = [claim EXCEPT ![r] = [at |-> p, again |-> b]]
      PROVE  claim' \in [Replicas -> Claim]
  BY <1>8 DEF TypeOK, Claim
<1>9. CASE Campaign(r)
  <2>1. claim' \in [Replicas -> Claim]
    <3>1. CASE backoff[r] > 0
      BY <1>9, <3>1 DEF Campaign, TypeOK
    <3>2. CASE ~(backoff[r] > 0)
      BY <1>9, <3>2, <1>8 DEF Campaign
    <3> QED
      BY <3>1, <3>2
  <2> QED
    BY <1>9, <2>1 DEF Campaign, TypeOK
<1>10. CASE ClaimRead(r)
  <2>1. /\ claim' \in [Replicas -> Claim] /\ failures' \in [Replicas -> 0..2]
        /\ chain' \in [Replicas -> Seq(Transition)]
    BY <1>10, <1>4, <1>6, <1>7 DEF ClaimRead
  <2>2. seen' \in [Replicas -> 0..TTL \cup {None}]
    <3>1. seen' \in {seen, [seen EXCEPT ![r] = IF @ = None THEN 0 ELSE @]}
      BY <1>10, Zenon DEF ClaimRead
    <3>2. seen \in [Replicas -> 0..TTL \cup {None}] /\ 0 \in 0..TTL
      BY LeaseAssumption DEF TypeOK
    <3> QED
      BY <3>1, <3>2
  <2> QED
    BY <1>10, <2>1, <2>2 DEF ClaimRead, TypeOK, Transition
<1>11. CASE ClaimWrite(r)
  BY <1>11, <1>3, ReleasesWritten DEF ClaimWrite, Written, TypeOK, Transition
<1>12. CASE ClaimRefused(r)
  <2>1. /\ claim' \in [Replicas -> Claim] /\ failures' \in [Replicas -> 0..2]
        /\ chain' \in [Replicas -> Seq(Transition)]
    BY <1>12, <1>4, <1>6, <1>8 DEF ClaimRefused
  <2> QED
    BY <1>12, <2>1 DEF ClaimRefused, TypeOK, Transition
<1>13. CASE ClaimFails(r)
  <2>1. /\ claim' \in [Replicas -> Claim] /\ failures' \in [Replicas -> 0..2]
        /\ chain' \in [Replicas -> Seq(Transition)]
    BY <1>13, <1>5 DEF ClaimFails
  <2>2. left' \in [Disturbances -> Nat]
    BY <1>13, SpendType DEF ClaimFails, Disturbances
  <2> QED
    BY <1>13, <2>1, <2>2, ReleasesWritten DEF ClaimFails, Written, TypeOK, Transition
<1> QED
  BY <1>9, <1>10, <1>11, <1>12, <1>13 DEF ClaimStep

LEMMA ChainStepType ==
  ASSUME TypeOK, BooksKept, NEW r \in Replicas,
         ChainStep(r) \/ \E x \in Roles : RoleFailsToStart(r, x)
  PROVE  TypeOK'
<1> USE DEF campaignVars, chainVars
<1>1. phase[r] # "idle" => chain[r] # <<>>
  BY DEF BooksKept, Books
<1>2. CASE TransitionBegins(r)
  <2>1. chain[r] # <<>> /\ Head(chain[r]).to \in BOOLEAN
    <3>1. chain[r] \in Seq(Transition) /\ chain[r] # <<>>
      BY <1>2 DEF TypeOK, Transition, TransitionBegins
    <3>2. Head(chain[r]) \in Transition
      BY <3>1
    <3> QED
      BY <3>1, <3>2 DEF Transition
  <2>2. CASE Finished(r) /\ UNCHANGED <<held, todo, broken, running, up>>
    BY <1>2, <2>1, <2>2, FinishedType DEF TransitionBegins, TypeOK, Transition
  <2>3. CASE ~(Finished(r) /\ UNCHANGED <<held, todo, broken, running, up>>)
    <3>1. PICK to \in BOOLEAN : to = Head(chain[r]).to
      BY <2>1
    <3>2. /\ held' = [held EXCEPT ![r] = to]
          /\ phase' = [phase EXCEPT ![r] = IF to THEN "start" ELSE "stop"]
          /\ todo' = [todo EXCEPT ![r] = IF to THEN Roles ELSE running[r]]
          /\ running' = [running EXCEPT ![r] = IF to THEN @ ELSE {}]
          /\ up' = [up EXCEPT ![r] = IF to THEN Roles ELSE @]
          /\ broken' = [broken EXCEPT ![r] = FALSE]
          /\ UNCHANGED <<chain, release>>
          /\ UNCHANGED <<lease, proc, left, campaignVars, stopFailed, refused>>
      BY <1>2, <2>3, <3>1, Zenon DEF TransitionBegins
    <3>3. /\ running' \in [Replicas -> SUBSET Roles]
          /\ todo' \in [Replicas -> SUBSET Roles]
          /\ up' \in [Replicas -> SUBSET Roles]
      BY <3>2 DEF TypeOK
    <3>4. /\ held' \in [Replicas -> BOOLEAN] /\ broken' \in [Replicas -> BOOLEAN]
          /\ phase' \in [Replicas -> {"idle", "start", "stop", "rollback", "release"}]
      BY <3>2 DEF TypeOK
    <3> QED
      BY <3>2, <3>3, <3>4 DEF TypeOK
  <2> QED
    BY <2>2, <2>3
<1>3. CASE StartEnds(r)
  <2>1. UNCHANGED <<lease, proc, left, campaignVars, held, broken, stopFailed, up>>
        /\ phase[r] = "start"
    BY <1>3, Zenon DEF StartEnds
  <2>2. CASE /\ phase' = [phase EXCEPT ![r] = "rollback"]
             /\ todo' = [todo EXCEPT ![r] = RolledBack(r)]
             /\ running' = [running EXCEPT ![r] = {}]
             /\ UNCHANGED <<refused, chain, release>>
    BY <2>1, <2>2 DEF TypeOK, RolledBack
  <2>3. CASE /\ refused' = [refused EXCEPT ![r] = 0]
             /\ Finished(r)
             /\ UNCHANGED <<todo, running>>
    <3>1. refused' \in [Replicas -> 0..BackoffMax]
      BY <2>3, LeaseAssumption DEF TypeOK
    <3> QED
      BY <1>1, <2>1, <2>3, <3>1, FinishedType DEF TypeOK, Transition
  <2> QED
    BY <1>3, <2>2, <2>3, Zenon DEF StartEnds
<1>4. CASE StandDownEnds(r)
  BY <1>1, <1>4, FinishedType DEF StandDownEnds, TypeOK, Transition
<1>5. CASE RollbackEnds(r)
  <2>1. refused[r] \in 0..BackoffMax /\ refused[r] + 1 \in Nat
    BY LeaseAssumption DEF TypeOK
  <2>2. Backoff(refused[r] + 1) \in 0..(TTL * BackoffMax)
    BY <2>1, BackoffBounded
  <2>3. backoff' \in [Replicas -> 0..(TTL * BackoffMax)]
    BY <1>5, <2>2 DEF RollbackEnds, TypeOK
  <2>4. refused' \in [Replicas -> 0..BackoffMax]
    BY <1>5, <2>1, LeaseAssumption DEF RollbackEnds, TypeOK
  <2>5. release' \in [Replicas -> [Origins -> {"idle", "read", "delete", "conflict"}]]
    BY <1>5 DEF RollbackEnds, TypeOK, Origins
  <2> QED
    BY <1>5, <2>3, <2>4, <2>5 DEF RollbackEnds, TypeOK, HeldAfterRollback
<1>6. CASE ReleaseEnds(r)
  BY <1>1, <1>6, FinishedType DEF ReleaseEnds, TypeOK, Transition
<1>7. ASSUME NEW x \in Roles, RoleStarts(r, x)
      PROVE  TypeOK'
  <2>1. /\ todo' \in [Replicas -> SUBSET Roles]
        /\ running' \in [Replicas -> SUBSET Roles]
    BY <1>7 DEF RoleStarts, TypeOK
  <2> QED
    BY <1>7, <2>1 DEF RoleStarts, TypeOK
<1>8. ASSUME NEW x \in Roles, RoleStops(r, x)
      PROVE  TypeOK'
  <2>1. left' \in [Disturbances -> Nat]
    BY <1>8 DEF RoleStops, Spend, TypeOK, Disturbances
  <2> QED
    <3>1. /\ todo' \in [Replicas -> SUBSET Roles]
          /\ stopFailed' \in [Replicas -> SUBSET Roles]
          /\ up' \in [Replicas -> SUBSET Roles]
      <4>1. todo' = [todo EXCEPT ![r] = @ \ {x}]
        BY <1>8, Zenon DEF RoleStops
      <4>2. \/ /\ stopFailed' = [stopFailed EXCEPT ![r] = @ \ {x}]
               /\ up' = [up EXCEPT ![r] = @ \ {x}]
            \/ /\ stopFailed' = [stopFailed EXCEPT ![r] = @ \cup {x}]
               /\ UNCHANGED up
        BY <1>8, Zenon DEF RoleStops
      <4>3. /\ todo \in [Replicas -> SUBSET Roles]
            /\ stopFailed \in [Replicas -> SUBSET Roles]
            /\ up \in [Replicas -> SUBSET Roles]
        BY DEF TypeOK
      <4>4. CASE /\ stopFailed' = [stopFailed EXCEPT ![r] = @ \ {x}]
                 /\ up' = [up EXCEPT ![r] = @ \ {x}]
        BY <4>1, <4>3, <4>4
      <4>5. CASE /\ stopFailed' = [stopFailed EXCEPT ![r] = @ \cup {x}]
                 /\ UNCHANGED up
        BY <4>1, <4>3, <4>5
      <4> QED
        BY <4>2, <4>4, <4>5
    <3> QED
      BY <1>8, <2>1, <3>1 DEF RoleStops, TypeOK
<1>9. ASSUME NEW x \in Roles, RoleFailsToStart(r, x)
      PROVE  TypeOK'
  <2>1. left' \in [Disturbances -> Nat]
    BY <1>9, SpendType DEF RoleFailsToStart, Disturbances
  <2> QED
    BY <1>9, <2>1 DEF RoleFailsToStart, TypeOK
<1> QED
  BY <1>2, <1>3, <1>4, <1>5, <1>6, <1>7, <1>8, <1>9 DEF ChainStep

LEMMA ReleaseStepType ==
  ASSUME TypeOK, NEW r \in Replicas, ReleaseStep(r)
  PROVE  TypeOK'
<1> USE DEF campaignVars, chainVars
<1>1. PICK o \in Origins :
        ReleaseRead(r, o) \/ ReleaseDelete(r, o) \/ ReleaseGivesUp(r, o)
  BY DEF ReleaseStep
<1>2. CASE ReleaseRead(r, o)
  BY <1>2 DEF ReleaseRead, TypeOK
<1>3. CASE ReleaseDelete(r, o)
  <2>1. release' \in [Replicas -> [Origins -> {"idle", "read", "delete", "conflict"}]]
    BY <1>3, ReleasesWritten DEF ReleaseDelete
  <2> QED
    BY <1>3, <2>1, ClaimsWritten DEF ReleaseDelete, Written, TypeOK
<1>4. CASE ReleaseGivesUp(r, o)
  <2>1. left' \in [Disturbances -> Nat]
    BY <1>4 DEF ReleaseGivesUp, Spend, TypeOK, Disturbances
  <2> QED
    BY <1>4, <2>1 DEF ReleaseGivesUp, TypeOK
<1> QED
  BY <1>1, <1>2, <1>3, <1>4

LEMMA ProcessStepType ==
  ASSUME TypeOK, NEW r \in Replicas,
         ProcessStep(r) \/ Boot(r) \/ Quit(r) \/ Crash(r)
  PROVE  TypeOK'
<1> USE DEF campaignVars, chainVars
<1>1. CASE SetTimer(r)
  BY <1>1 DEF SetTimer, TypeOK
<1>2. CASE QuitStandsDown(r)
  <2>1. FALSE \in BOOLEAN /\ "stop" \in Origins \cup {None}
    BY DEF Origins
  <2>2. chain' \in [Replicas -> Seq(Transition)]
    BY <1>2, <2>1, ChainedType DEF QuitStandsDown
  <2> QED
    BY <1>2, <2>2 DEF QuitStandsDown, TypeOK, Transition
<1>3. CASE Dies(r) /\ left' \in [Disturbances -> Nat]
  <2>1. /\ chain' \in [Replicas -> Seq(Transition)]
        /\ claim' \in [Replicas -> Claim]
    <3>0. <<>> \in Seq(Transition)
      OBVIOUS
    <3>1. chain \in [Replicas -> Seq(Transition)]
      BY DEF TypeOK, Transition
    <3>2. Idle \in Claim /\ claim \in [Replicas -> Claim]
      BY DEF TypeOK, Idle, Claim
    <3> QED
      BY <1>3, <3>0, <3>1, <3>2 DEF Dies
  <2>2. seen' \in [Replicas -> 0..TTL \cup {None}] /\ failures' \in [Replicas -> 0..2]
        /\ refused' \in [Replicas -> 0..BackoffMax]
    BY <1>3, LeaseAssumption DEF Dies, TypeOK
  <2>3. backoff' \in [Replicas -> 0..(TTL * BackoffMax)]
    <3>1. 0 \in 0..(TTL * BackoffMax)
      BY LeaseAssumption
    <3> QED
      BY <1>3, <3>1 DEF Dies, TypeOK
  <2>4. /\ lease' \in Replicas \cup {None, Gone}
        /\ proc' \in [Replicas -> {"down", "boot", "up", "settling", "stopping"}]
        /\ due' \in [Replicas -> BOOLEAN] /\ held' \in [Replicas -> BOOLEAN]
        /\ phase' \in [Replicas -> {"idle", "start", "stop", "rollback", "release"}]
        /\ broken' \in [Replicas -> BOOLEAN]
    BY <1>3 DEF Dies, TypeOK
  <2>5. /\ todo' \in [Replicas -> SUBSET Roles]
        /\ running' \in [Replicas -> SUBSET Roles]
        /\ stopFailed' \in [Replicas -> SUBSET Roles]
        /\ up' \in [Replicas -> SUBSET Roles]
        /\ release' \in [Replicas -> [Origins -> {"idle", "read", "delete", "conflict"}]]
    BY <1>3 DEF Dies, TypeOK
  <2> QED
    BY <1>3, <2>1, <2>2, <2>3, <2>4, <2>5 DEF TypeOK, Transition
<1>4. CASE Exit(r)
  BY <1>4, <1>3 DEF Exit, TypeOK
<1>5. CASE Crash(r)
  <2>1. left' \in [Disturbances -> Nat]
    BY <1>5, SpendType DEF Crash, Disturbances
  <2> QED
    BY <1>5, <1>3, <2>1 DEF Crash
<1>6. CASE Boot(r)
  <2>1. claim' \in [Replicas -> Claim]
    BY <1>6 DEF Boot, TypeOK, Claim
  <2> QED
    BY <1>6, <2>1 DEF Boot, TypeOK
<1>7. CASE Quit(r)
  <2>1. left' \in [Disturbances -> Nat]
    BY <1>7, SpendType DEF Quit, Disturbances
  <2> QED
    BY <1>7, <2>1 DEF Quit, TypeOK
<1> QED
  BY <1>1, <1>2, <1>4, <1>5, <1>6, <1>7 DEF ProcessStep

LEMMA TickType ==
  ASSUME TypeOK, Tick
  PROVE  TypeOK'
<1>1. left' \in [Disturbances -> Nat]
  <2>1. CASE Spend("slow")
    BY <2>1, SpendType DEF Disturbances
  <2>2. CASE UNCHANGED left
    BY <2>2 DEF TypeOK
  <2> QED
    BY <2>1, <2>2 DEF Tick
<1>2. seen' \in [Replicas -> 0..TTL \cup {None}]
  <2>1. \A n \in 0..TTL \cup {None} : Older(n) \in 0..TTL \cup {None}
    BY LeaseAssumption DEF Older
  <2>2. seen \in [Replicas -> 0..TTL \cup {None}]
    BY DEF TypeOK
  <2> QED
    BY <2>1, <2>2 DEF Tick
<1>3. backoff' \in [Replicas -> 0..(TTL * BackoffMax)]
  <2>1. PICK m \in Nat : m = TTL * BackoffMax
    BY LeaseAssumption
  <2> QED
    BY <2>1 DEF Tick, TypeOK
<1>4. due' \in [Replicas -> BOOLEAN]
  BY DEF Tick
<1> QED
  BY <1>1, <1>2, <1>3, <1>4 DEF Tick, TypeOK

---------------------------------------------------------------------------
(* The books of the roles *)

(* A step that does not move a replica's transition. *)
NoTransition(r) ==
  /\ held'[r] = held[r] /\ phase'[r] = phase[r] /\ todo'[r] = todo[r]
  /\ broken'[r] = broken[r] /\ running'[r] = running[r]
  /\ stopFailed'[r] = stopFailed[r] /\ up'[r] = up[r]

LEMMA NoTransitionBooks ==
  ASSUME NEW r \in Replicas, Books(r), NoTransition(r),
         chain'[r] = <<>> => chain[r] = <<>>
  PROVE  Books(r)'
BY DEF Books, NoTransition

(* Chaining adds one transition at the end of one replica's chain. *)
LEMMA ChainedAppends ==
  ASSUME TypeOK, NEW r \in Replicas, NEW to, NEW then, Chained(r, to, then)
  PROVE  /\ chain'[r] = Append(chain[r], [to |-> to, then |-> then])
         /\ \A q \in Replicas \ {r} : chain'[q] = chain[q]
         /\ chain'[r] # <<>>
<1>1. chain[r] \in Seq(Transition)
  BY DEF TypeOK, Transition
<1>2. /\ chain'[r] = Append(chain[r], [to |-> to, then |-> then])
      /\ \A q \in Replicas \ {r} : chain'[q] = chain[q]
  BY DEF Chained, TypeOK
<1>3. Append(chain[r], [to |-> to, then |-> then]) # <<>>
  BY <1>1
<1> QED
  BY <1>2, <1>3

LEMMA SettledAppends ==
  ASSUME TypeOK, NEW r \in Replicas, NEW result, NEW claims,
         Settled(r, result, claims)
  PROVE  \A q \in Replicas : chain'[q] = <<>> => chain[q] = <<>>
<1>1. CASE UNCHANGED chain
  BY <1>1
<1>2. CASE Chained(r, result = "won", None)
  <2>1. PICK b : b = (result = "won")
    OBVIOUS
  <2>2. Chained(r, b, None)
    BY <1>2, <2>1
  <2> QED
    BY <2>2, ChainedAppends
<1>3. CASE Chained(r, FALSE, "campaign")
  BY <1>3, ChainedAppends
<1> QED
  BY <1>1, <1>2, <1>3, Zenon DEF Settled

LEMMA CampaignBooks ==
  ASSUME TypeOK, BooksKept, NEW r \in Replicas,
         ClaimStep(r) \/ ClaimFails(r)
  PROVE  BooksKept'
<1>1. UNCHANGED <<held, phase, todo, broken, running, stopFailed, up>>
  BY Zenon DEF ClaimStep, Campaign, ClaimRead, ClaimWrite, ClaimRefused,
               ClaimFails, chainVars
<1>2. \A q \in Replicas : chain'[q] = <<>> => chain[q] = <<>>
  <2>1. \/ UNCHANGED chain
        \/ \E res, cl : Settled(r, res, cl)
    BY Zenon DEF ClaimStep, Campaign, ClaimRead, ClaimWrite, ClaimRefused,
                 ClaimFails, chainVars
  <2> QED
    BY <2>1, SettledAppends
<1> QED
  BY <1>1, <1>2, NoTransitionBooks DEF BooksKept, NoTransition

(* The end of a transition pops the chain. *)
LEMMA FinishedPops ==
  ASSUME TypeOK, NEW r \in Replicas, Finished(r)
  PROVE  /\ chain'[r] = Tail(chain[r]) /\ phase'[r] = "idle"
         /\ \A q \in Replicas \ {r} : chain'[q] = chain[q] /\ phase'[q] = phase[q]
BY DEF Finished, TypeOK

LEMMA TransitionBooks ==
  ASSUME TypeOK, BooksKept, NEW r \in Replicas, TransitionBegins(r)
  PROVE  BooksKept'
<1>1. PICK to : to = Head(chain[r]).to
  OBVIOUS
<1>2. to \in BOOLEAN
  <2>1. chain[r] \in Seq(Transition) /\ chain[r] # <<>>
    BY DEF TypeOK, Transition, TransitionBegins
  <2>2. Head(chain[r]) \in Transition
    BY <2>1
  <2> QED
    BY <1>1, <2>2 DEF Transition
<1>3. phase[r] = "idle" /\ UNCHANGED stopFailed /\ chain[r] # <<>>
  BY Zenon DEF TransitionBegins
<1>4. Books(r)
  BY DEF BooksKept
<1>5. CASE Finished(r) /\ UNCHANGED <<held, todo, broken, running, up>>
  <2>1. Books(r)'
    BY <1>3, <1>4, <1>5, FinishedPops DEF Books
  <2>2. \A q \in Replicas \ {r} : Books(q)'
    BY <1>3, <1>5, FinishedPops, NoTransitionBooks DEF NoTransition, BooksKept
  <2> QED
    BY <2>1, <2>2 DEF BooksKept
<1>6. CASE /\ held[r] # to
           /\ held' = [held EXCEPT ![r] = to]
           /\ phase' = [phase EXCEPT ![r] = IF to THEN "start" ELSE "stop"]
           /\ todo' = [todo EXCEPT ![r] = IF to THEN Roles ELSE running[r]]
           /\ running' = [running EXCEPT ![r] = IF to THEN @ ELSE {}]
           /\ up' = [up EXCEPT ![r] = IF to THEN Roles ELSE @]
           /\ broken' = [broken EXCEPT ![r] = FALSE]
           /\ UNCHANGED <<chain, release>>
  <2>1. \A q \in Replicas \ {r} : Books(q)'
    <3>1. \A q \in Replicas \ {r} : NoTransition(q)
      BY <1>3, <1>6 DEF NoTransition, TypeOK
    <3> QED
      BY <1>6, <3>1, NoTransitionBooks DEF BooksKept
  <2>2. Books(r)'
    <3>1. CASE to = TRUE
      <4>1. held'[r] = TRUE /\ phase'[r] = "start" /\ todo'[r] = Roles
        BY <1>6, <3>1 DEF TypeOK
      <4> QED
        BY <1>3, <1>6, <4>1 DEF Books
    <3>2. CASE to = FALSE
      <4>1. held'[r] = FALSE /\ phase'[r] = "stop" /\ todo'[r] = running[r]
            /\ running'[r] = {} /\ up'[r] = up[r]
        BY <1>6, <3>2 DEF TypeOK
      <4> QED
        BY <1>3, <1>4, <1>6, <4>1 DEF Books
    <3> QED
      BY <1>2, <3>1, <3>2
  <2> QED
    BY <2>1, <2>2 DEF BooksKept
<1> QED
  BY <1>1, <1>5, <1>6, Zenon DEF TransitionBegins

LEMMA ChainBooks ==
  ASSUME TypeOK, BooksKept, NEW r \in Replicas,
         ChainStep(r) \/ \E x \in Roles : RoleFailsToStart(r, x)
  PROVE  BooksKept'
<1>1. Books(r) /\ \A q \in Replicas : Books(q)
  BY DEF BooksKept
<1>2. ASSUME \A q \in Replicas \ {r} : NoTransition(q) /\ chain'[q] = chain[q],
             Books(r)'
      PROVE  BooksKept'
  BY <1>1, <1>2, NoTransitionBooks DEF BooksKept
<1>3. CASE StartEnds(r)
  <2>1. /\ UNCHANGED <<held, broken, stopFailed, up>>
        /\ phase[r] = "start" /\ todo[r] = {}
    BY <1>3, Zenon DEF StartEnds
  <2>2. CASE /\ phase' = [phase EXCEPT ![r] = "rollback"]
             /\ todo' = [todo EXCEPT ![r] = RolledBack(r)]
             /\ running' = [running EXCEPT ![r] = {}]
             /\ UNCHANGED <<refused, chain, release>>
    <3>1. \A q \in Replicas \ {r} : NoTransition(q) /\ chain'[q] = chain[q]
      BY <2>1, <2>2 DEF NoTransition, TypeOK
    <3>2. phase'[r] = "rollback" /\ todo'[r] = Roles /\ running'[r] = {}
      BY <2>2 DEF TypeOK, RolledBack
    <3>3. up[r] \subseteq Roles
      BY DEF TypeOK
    <3>4. Books(r)'
      BY <1>1, <2>1, <2>2, <3>2, <3>3 DEF Books
    <3> QED
      BY <1>2, <3>1, <3>4
  <2>3. CASE ~broken[r] /\ Finished(r) /\ UNCHANGED <<todo, running>>
    <3>1. \A q \in Replicas \ {r} : NoTransition(q) /\ chain'[q] = chain[q]
      BY <2>1, <2>3, FinishedPops DEF NoTransition
    <3>2. running[r] = Roles /\ up[r] \subseteq Roles
      <4>1. running[r] \subseteq Roles /\ up[r] \subseteq Roles
        BY DEF TypeOK
      <4>2. Roles \subseteq running[r] \cup todo[r] /\ todo[r] = {}
        BY <1>1, <2>1, <2>3 DEF Books
      <4> QED
        BY <4>1, <4>2
    <3>3. Books(r)'
      BY <1>1, <2>1, <2>3, <3>2, FinishedPops DEF Books
    <3> QED
      BY <1>2, <3>1, <3>3
  <2> QED
    BY <1>3, <2>2, <2>3, Zenon DEF StartEnds
<1>4. CASE StandDownEnds(r)
  <2>1. \A q \in Replicas \ {r} : NoTransition(q) /\ chain'[q] = chain[q]
    BY <1>4, FinishedPops DEF NoTransition, StandDownEnds
  <2>2. Books(r)'
    BY <1>1, <1>4, FinishedPops DEF Books, StandDownEnds
  <2> QED
    BY <1>2, <2>1, <2>2
<1>5. CASE RollbackEnds(r)
  <2>1. \A q \in Replicas \ {r} : NoTransition(q) /\ chain'[q] = chain[q]
    BY <1>5 DEF NoTransition, RollbackEnds, TypeOK
  <2>2. held'[r] = FALSE /\ phase'[r] = "release"
    BY <1>5 DEF RollbackEnds, TypeOK, HeldAfterRollback
  <2>3. Books(r)'
    BY <1>1, <1>5, <2>2 DEF Books, RollbackEnds
  <2> QED
    BY <1>2, <2>1, <2>3
<1>6. CASE ReleaseEnds(r)
  <2>1. \A q \in Replicas \ {r} : NoTransition(q) /\ chain'[q] = chain[q]
    BY <1>6, FinishedPops DEF NoTransition, ReleaseEnds
  <2>2. Books(r)'
    BY <1>1, <1>6, FinishedPops DEF Books, ReleaseEnds
  <2> QED
    BY <1>2, <2>1, <2>2
<1>7. ASSUME NEW x \in Roles, RoleStarts(r, x)
      PROVE  BooksKept'
  <2>1. \A q \in Replicas \ {r} : NoTransition(q) /\ chain'[q] = chain[q]
    BY <1>7 DEF NoTransition, RoleStarts, TypeOK
  <2>2. todo'[r] = todo[r] \ {x} /\ running'[r] = running[r] \cup {x}
    BY <1>7 DEF RoleStarts, TypeOK
  <2>3. Books(r)'
    BY <1>1, <1>7, <2>2 DEF Books, RoleStarts
  <2> QED
    BY <1>2, <2>1, <2>3
<1>8. ASSUME NEW x \in Roles, RoleStops(r, x)
      PROVE  BooksKept'
  <2>1. /\ phase[r] \in {"stop", "rollback"}
        /\ todo' = [todo EXCEPT ![r] = @ \ {x}]
        /\ UNCHANGED <<held, chain, phase, broken, running>>
    BY <1>8, Zenon DEF RoleStops
  <2>2. \/ /\ stopFailed' = [stopFailed EXCEPT ![r] = @ \ {x}]
           /\ up' = [up EXCEPT ![r] = @ \ {x}]
        \/ /\ stopFailed' = [stopFailed EXCEPT ![r] = @ \cup {x}]
           /\ UNCHANGED up
    BY <1>8, Zenon DEF RoleStops
  <2>3. \A q \in Replicas \ {r} : NoTransition(q) /\ chain'[q] = chain[q]
    BY <2>1, <2>2 DEF NoTransition, TypeOK
  <2>4. /\ todo'[r] = todo[r] \ {x}
        /\ \/ stopFailed'[r] = stopFailed[r] \ {x} /\ up'[r] = up[r] \ {x}
           \/ stopFailed'[r] = stopFailed[r] \cup {x} /\ up'[r] = up[r]
    BY <2>1, <2>2 DEF TypeOK
  <2>5. up'[r] \subseteq todo'[r] \cup stopFailed'[r]
    BY <1>1, <2>1, <2>4 DEF Books
  <2>6. Books(r)'
    BY <1>1, <2>1, <2>5 DEF Books
  <2> QED
    BY <1>2, <2>3, <2>6
<1>9. ASSUME NEW x \in Roles, RoleFailsToStart(r, x)
      PROVE  BooksKept'
  <2>1. \A q \in Replicas \ {r} : NoTransition(q) /\ chain'[q] = chain[q]
    BY <1>9 DEF NoTransition, RoleFailsToStart, TypeOK
  <2>2. broken'[r] = TRUE
    BY <1>9 DEF RoleFailsToStart, TypeOK
  <2>3. Books(r)'
    BY <1>1, <1>9, <2>2 DEF Books, RoleFailsToStart
  <2> QED
    BY <1>2, <2>1, <2>3
<1> QED
  BY <1>3, <1>4, <1>5, <1>6, <1>7, <1>8, <1>9, TransitionBooks DEF ChainStep

LEMMA OtherBooks ==
  ASSUME TypeOK, BooksKept,
         NEW r \in Replicas,
         ReleaseStep(r) \/ ProcessStep(r) \/ Boot(r) \/ Quit(r) \/ Crash(r) \/ Tick
  PROVE  BooksKept'
<1>1. ASSUME UNCHANGED <<held, phase, todo, broken, running, stopFailed, up>>,
             \A q \in Replicas : chain'[q] = <<>> => chain[q] = <<>>
      PROVE  BooksKept'
  BY <1>1, NoTransitionBooks DEF BooksKept, NoTransition
<1>2. CASE ReleaseStep(r) \/ SetTimer(r) \/ Boot(r) \/ Quit(r) \/ Tick
  <2>1. UNCHANGED <<held, phase, todo, broken, running, stopFailed, up, chain>>
    BY <1>2, Zenon DEF ReleaseStep, ReleaseRead, ReleaseDelete, ReleaseGivesUp,
                       SetTimer, Boot, Quit, Tick, chainVars
  <2> QED
    BY <1>1, <2>1
<1>3. CASE QuitStandsDown(r)
  <2>1. Chained(r, FALSE, "stop")
        /\ UNCHANGED <<held, phase, todo, broken, running, stopFailed, up>>
    BY <1>3, Zenon DEF QuitStandsDown
  <2> QED
    BY <1>1, <2>1, ChainedAppends
<1>4. CASE Dies(r)
  <2>1. \A q \in Replicas \ {r} : NoTransition(q) /\ chain'[q] = chain[q]
    BY <1>4 DEF Dies, NoTransition, TypeOK
  <2>2. /\ held'[r] = FALSE /\ phase'[r] = "idle" /\ running'[r] = {}
        /\ up'[r] = {}
    BY <1>4 DEF Dies, TypeOK
  <2>3. Books(r)'
    BY <2>2 DEF Books
  <2> QED
    BY <2>1, <2>3, NoTransitionBooks DEF BooksKept
<1> QED
  BY <1>2, <1>3, <1>4 DEF ProcessStep, Exit, Crash

---------------------------------------------------------------------------
(* What a step of one replica does to another: it may outdate its calls    *)
(* and what it has seen of the Lease, and nothing else.                    *)
Elsewhere(q) ==
  /\ proc'[q] = proc[q] /\ due'[q] = due[q]
  /\ failures'[q] = failures[q] /\ backoff'[q] = backoff[q]
  /\ NoTransition(q) /\ chain'[q] = chain[q]
  /\ claim'[q].at \in {claim[q].at, Outdated(claim[q].at)}
  /\ \A o \in Origins :
       release'[q][o] \in {release[q][o], Outdated(release[q][o])}
  /\ seen'[q] \in {seen[q], None}

LEMMA OutdatedCalls ==
  ASSUME TypeOK, NEW q \in Replicas
  PROVE  /\ ClaimsAfterWrite[q].at = Outdated(claim[q].at)
         /\ \A o \in Origins :
              ReleasesAfterWrite[q][o] = Outdated(release[q][o])
<1>1. claim[q] \in Claim
  BY DEF TypeOK
<1>2. ClaimsAfterWrite[q] = [claim[q] EXCEPT !.at = Outdated(@)]
  BY DEF ClaimsAfterWrite
<1>3. PICK p : p = Outdated(claim[q].at)
  OBVIOUS
<1>4. [claim[q] EXCEPT !.at = p].at = p
  BY <1>1 DEF Claim
<1> QED
  BY <1>2, <1>3, <1>4 DEF ReleasesAfterWrite

LEMMA SettledElsewhere ==
  ASSUME TypeOK, NEW r \in Replicas, NEW result,
         NEW claims \in [Replicas -> Claim], Settled(r, result, claims),
         NEW q \in Replicas \ {r}
  PROVE  /\ claim'[q] = claims[q]
         /\ failures'[q] = failures[q] /\ chain'[q] = chain[q]
<1>1. claim'[q] = claims[q]
  BY DEF Settled
<1>2. failures'[q] = failures[q]
  <2>1. \/ UNCHANGED failures
        \/ failures' = [failures EXCEPT ![r] = 0]
        \/ failures' = [failures EXCEPT ![r] = IF @ < 2 THEN @ + 1 ELSE 2]
    BY Zenon DEF Settled
  <2> QED
    BY <2>1 DEF TypeOK
<1>3. chain'[q] = chain[q]
  <2>1. \/ UNCHANGED chain
        \/ \E to, then : Chained(r, to, then)
    BY Zenon DEF Settled
  <2> QED
    BY <2>1, ChainedAppends
<1> QED
  BY <1>1, <1>2, <1>3

(* One step per action. *)
LEMMA StepElsewhere ==
  ASSUME TypeOK, NEW r \in Replicas,
         \/ ClaimStep(r) \/ ChainStep(r) \/ ReleaseStep(r)
         \/ ProcessStep(r) \/ Boot(r) \/ Disturbance(r),
         NEW q \in Replicas \ {r}
  PROVE  Elsewhere(q)
<1> USE DEF campaignVars, chainVars
<1>1. claim \in [Replicas -> Claim] /\ ClaimsAfterWrite \in [Replicas -> Claim]
  BY ClaimsWritten DEF TypeOK
<1>2. q \in Replicas /\ q # r
  OBVIOUS
<1>3. CASE Campaign(r)
  BY <1>2, <1>3 DEF Campaign, Elsewhere, NoTransition, TypeOK
<1>4. CASE ClaimRead(r)
  <2>1. /\ UNCHANGED <<lease, proc, left, release, due, backoff, held, phase,
                       todo, broken, running, stopFailed, refused, up>>
        /\ seen' \in {seen, [seen EXCEPT ![r] = IF @ = None THEN 0 ELSE @]}
    BY <1>4, Zenon DEF ClaimRead
  <2>2. CASE /\ \E p : claim' = [claim EXCEPT ![r].at = p]
             /\ UNCHANGED <<failures, chain>>
    BY <1>2, <2>1, <2>2 DEF Elsewhere, NoTransition, TypeOK
  <2>3. CASE Settled(r, "lost", claim)
    <3>1. claim'[q] = claim[q] /\ failures'[q] = failures[q] /\ chain'[q] = chain[q]
      BY <1>1, <2>3, SettledElsewhere
    <3>2. seen'[q] = seen[q]
      BY <1>2, <2>1 DEF TypeOK
    <3> QED
      BY <2>1, <3>1, <3>2 DEF Elsewhere, NoTransition
  <2> QED
    BY <1>4, <2>2, <2>3, Zenon DEF ClaimRead
<1>5. CASE ClaimWrite(r)
  BY <1>1, <1>2, <1>5, SettledElsewhere, OutdatedCalls
  DEF ClaimWrite, Written, Elsewhere, NoTransition
<1>6. CASE ClaimRefused(r)
  <2>1. UNCHANGED <<lease, proc, left, release, due, seen, backoff, held, phase,
                    todo, broken, running, stopFailed, refused, up>>
    BY <1>6, Zenon DEF ClaimRefused
  <2>2. CASE /\ claim' = [claim EXCEPT ![r] = [at |-> "read", again |-> TRUE]]
             /\ UNCHANGED <<failures, chain>>
    BY <1>2, <2>1, <2>2 DEF Elsewhere, NoTransition, TypeOK
  <2>3. CASE Settled(r, "lost", claim)
    BY <1>1, <1>2, <2>1, <2>3, SettledElsewhere DEF Elsewhere, NoTransition
  <2> QED
    BY <1>6, <2>2, <2>3, Zenon DEF ClaimRefused
<1>7. CASE ClaimFails(r)
  <2>1. UNCHANGED <<proc, due, backoff, held, phase, todo, broken,
                    running, stopFailed, refused, up>>
    BY <1>7, Zenon DEF ClaimFails
  <2>2. CASE Settled(r, "failed", claim) /\ UNCHANGED <<lease, seen, release>>
    BY <1>1, <1>2, <2>1, <2>2, SettledElsewhere DEF Elsewhere, NoTransition
  <2>3. CASE /\ ClaimWrites(r) /\ Written(r)
             /\ Settled(r, "failed", ClaimsAfterWrite)
             /\ release' = ReleasesAfterWrite
    BY <1>1, <1>2, <2>1, <2>3, SettledElsewhere, OutdatedCalls
    DEF Written, Elsewhere, NoTransition
  <2> QED
    BY <1>7, <2>2, <2>3, Zenon DEF ClaimFails
<1>8. ASSUME Finished(r)
      PROVE  /\ chain'[q] = chain[q] /\ phase'[q] = phase[q]
             /\ release'[q] = release[q]
  BY <1>2, <1>8 DEF Finished, TypeOK
<1>9. CASE TransitionBegins(r)
  <2>1. UNCHANGED <<lease, proc, left, campaignVars, stopFailed, refused>>
    BY <1>9, Zenon DEF TransitionBegins
  <2>2. CASE Finished(r) /\ UNCHANGED <<held, todo, broken, running, up>>
    BY <2>1, <2>2, <1>8 DEF Elsewhere, NoTransition
  <2>3. CASE \E to :
             /\ held' = [held EXCEPT ![r] = to]
             /\ phase' = [phase EXCEPT ![r] = IF to THEN "start" ELSE "stop"]
             /\ todo' = [todo EXCEPT ![r] = IF to THEN Roles ELSE running[r]]
             /\ running' = [running EXCEPT ![r] = IF to THEN @ ELSE {}]
             /\ up' = [up EXCEPT ![r] = IF to THEN Roles ELSE @]
             /\ broken' = [broken EXCEPT ![r] = FALSE]
             /\ UNCHANGED <<chain, release>>
    BY <1>2, <2>1, <2>3 DEF Elsewhere, NoTransition, TypeOK
  <2> QED
    BY <1>9, <2>2, <2>3, Zenon DEF TransitionBegins
<1>10. CASE StartEnds(r)
  <2>1. UNCHANGED <<lease, proc, left, campaignVars, held, broken, stopFailed, up>>
    BY <1>10, Zenon DEF StartEnds
  <2>2. CASE /\ phase' = [phase EXCEPT ![r] = "rollback"]
             /\ todo' = [todo EXCEPT ![r] = RolledBack(r)]
             /\ running' = [running EXCEPT ![r] = {}]
             /\ UNCHANGED <<refused, chain, release>>
    BY <1>2, <2>1, <2>2 DEF Elsewhere, NoTransition, TypeOK
  <2>3. CASE Finished(r) /\ UNCHANGED <<todo, running>>
    BY <2>1, <2>3, <1>8 DEF Elsewhere, NoTransition
  <2> QED
    BY <1>10, <2>2, <2>3, Zenon DEF StartEnds
<1>11. CASE StandDownEnds(r)
  BY <1>8, <1>11 DEF StandDownEnds, Elsewhere, NoTransition
<1>12. CASE RollbackEnds(r)
  BY <1>2, <1>12 DEF RollbackEnds, Elsewhere, NoTransition, TypeOK
<1>13. CASE ReleaseEnds(r)
  BY <1>8, <1>13 DEF ReleaseEnds, Elsewhere, NoTransition
<1>14. ASSUME NEW x \in Roles,
              RoleStarts(r, x) \/ RoleStops(r, x) \/ RoleFailsToStart(r, x)
       PROVE  Elsewhere(q)
  BY <1>2, <1>14
  DEF RoleStarts, RoleStops, RoleFailsToStart, Elsewhere, NoTransition, TypeOK
<1>15. CASE ReleaseStep(r)
  <2>1. PICK o \in Origins :
          ReleaseRead(r, o) \/ ReleaseDelete(r, o) \/ ReleaseGivesUp(r, o)
    BY <1>15 DEF ReleaseStep
  <2>2. CASE ReleaseRead(r, o) \/ ReleaseGivesUp(r, o)
    BY <1>2, <2>2
    DEF ReleaseRead, ReleaseGivesUp, Elsewhere, NoTransition, TypeOK
  <2>3. CASE ReleaseDelete(r, o)
    <3>1. release'[q] = ReleasesAfterWrite[q]
      BY <1>2, <2>3, ReleasesWritten DEF ReleaseDelete
    <3> QED
      <4>1. claim'[q].at = Outdated(claim[q].at) /\ seen'[q] = None
        BY <2>3, OutdatedCalls DEF ReleaseDelete, Written
      <4>2. \A x \in Origins : release'[q][x] = Outdated(release[q][x])
        BY <3>1, OutdatedCalls
      <4> QED
        BY <2>3, <4>1, <4>2 DEF ReleaseDelete, chainVars, Elsewhere, NoTransition
  <2> QED
    BY <2>1, <2>2, <2>3
<1>16. CASE SetTimer(r) \/ Boot(r) \/ Quit(r)
  BY <1>2, <1>16 DEF SetTimer, Boot, Quit, Elsewhere, NoTransition, TypeOK
<1>17. CASE QuitStandsDown(r)
  BY <1>2, <1>17, ChainedAppends
  DEF QuitStandsDown, Elsewhere, NoTransition, TypeOK
<1>18. CASE Dies(r)
  BY <1>2, <1>18 DEF Dies, Elsewhere, NoTransition, TypeOK
<1> QED
  BY <1>3, <1>4, <1>5, <1>6, <1>7, <1>9, <1>10, <1>11, <1>12, <1>13, <1>14,
     <1>15, <1>16, <1>17, <1>18
  DEF ClaimStep, ChainStep, ProcessStep, Disturbance, Exit, Crash

---------------------------------------------------------------------------
(* The Lease and the processes, in every scenario *)

StepOf(r) ==
  \/ ClaimStep(r) \/ ChainStep(r) \/ ReleaseStep(r)
  \/ ProcessStep(r) \/ Boot(r) \/ Disturbance(r)

LEMMA NextIsStepOrTick ==
  ASSUME Next
  PROVE  (\E r \in Replicas : StepOf(r)) \/ Tick
BY DEF Next, StepOf

(* Who changes the Lease: a write, after which no delete under way is      *)
(* current any more, or the end of its holder.                             *)
LEMMA WhoWrites ==
  ASSUME TypeOK, NEW r \in Replicas, StepOf(r)
  PROVE  \/ UNCHANGED lease
         \/ /\ Written(r) \/ Written(None)
            /\ \A q \in Replicas, o \in Origins : release'[q][o] # "delete"
         \/ Dies(r)
<1>1. \A q \in Replicas, o \in Origins : ReleasesAfterWrite[q][o] # "delete"
  BY OutdatedCalls DEF Outdated
<1>2. CASE ReleaseStep(r)
  <2>1. PICK o \in Origins :
          ReleaseRead(r, o) \/ ReleaseDelete(r, o) \/ ReleaseGivesUp(r, o)
    BY <1>2 DEF ReleaseStep
  <2>2. CASE ReleaseDelete(r, o)
    <3>1. \A q \in Replicas, p \in Origins :
            release'[q][p] \in {ReleasesAfterWrite[q][p], "idle"}
      BY <2>2, ReleasesWritten DEF ReleaseDelete
    <3> QED
      BY <1>1, <2>2, <3>1 DEF ReleaseDelete
  <2> QED
    BY <2>1, <2>2 DEF ReleaseRead, ReleaseGivesUp
<1>3. CASE ClaimStep(r) \/ ClaimFails(r)
  <2>1. UNCHANGED lease \/ (Written(r) /\ release' = ReleasesAfterWrite)
    BY <1>3, Zenon DEF ClaimStep, Campaign, ClaimRead, ClaimWrite,
                       ClaimRefused, ClaimFails
  <2> QED
    BY <1>1, <2>1
<1>4. CASE ChainStep(r) \/ \E x \in Roles : RoleFailsToStart(r, x)
  BY <1>4, Zenon DEF ChainStep, TransitionBegins, StartEnds, StandDownEnds, RollbackEnds,
                     ReleaseEnds, RoleStarts, RoleStops, RoleFailsToStart
<1>5. CASE ProcessStep(r) \/ Boot(r) \/ Quit(r) \/ Crash(r)
  BY <1>5, Zenon DEF ProcessStep, SetTimer, QuitStandsDown, Exit, Boot, Quit, Crash
<1> QED
  BY <1>2, <1>3, <1>4, <1>5 DEF StepOf, Disturbance

(* A delete begins only with a read that found the Lease one's own. *)
LEMMA DeleteBegins ==
  ASSUME TypeOK, NEW r \in Replicas, StepOf(r), NEW o \in Origins,
         release'[r][o] = "delete"
  PROVE  release[r][o] = "delete" \/ lease = r
<1> USE DEF campaignVars, chainVars
<1>1. \A p \in Origins : ReleasesAfterWrite[r][p] # "delete"
  BY OutdatedCalls DEF Outdated
<1>2. CASE ReleaseStep(r)
  <2>1. PICK p \in Origins :
          ReleaseRead(r, p) \/ ReleaseDelete(r, p) \/ ReleaseGivesUp(r, p)
    BY <1>2 DEF ReleaseStep
  <2>2. CASE ReleaseDelete(r, p)
    BY <1>1, <2>2, ReleasesWritten DEF ReleaseDelete
  <2>3. CASE ReleaseRead(r, p) \/ ReleaseGivesUp(r, p)
    BY <2>3 DEF ReleaseRead, ReleaseGivesUp, TypeOK
  <2> QED
    BY <2>1, <2>2, <2>3
<1>3. CASE ClaimStep(r) \/ ClaimFails(r)
  <2>1. UNCHANGED release \/ release' = ReleasesAfterWrite
    BY <1>3, Zenon DEF ClaimStep, Campaign, ClaimRead, ClaimWrite,
                       ClaimRefused, ClaimFails
  <2> QED
    BY <1>1, <2>1
<1>4. CASE ChainStep(r) \/ \E x \in Roles : RoleFailsToStart(r, x)
  <2>1. UNCHANGED release \/ \E p : release' = [release EXCEPT ![r][p] = "read"]
    BY <1>4, Zenon
    DEF ChainStep, TransitionBegins, StartEnds, StandDownEnds, RollbackEnds,
        ReleaseEnds, RoleStarts, RoleStops, RoleFailsToStart, Finished
  <2> QED
    BY <2>1 DEF TypeOK
<1>5. CASE ProcessStep(r) \/ Boot(r) \/ Quit(r) \/ Crash(r)
  <2>1. UNCHANGED release \/ Dies(r)
    BY <1>5, Zenon
    DEF ProcessStep, SetTimer, QuitStandsDown, Exit, Boot, Quit, Crash
  <2> QED
    BY <2>1 DEF Dies, TypeOK
<1> QED
  BY <1>2, <1>3, <1>4, <1>5 DEF StepOf, Disturbance

LEMMA OwnLeaseStep ==
  ASSUME TypeOK, OwnLease, NEW r \in Replicas, StepOf(r)
  PROVE  OwnLease'
<1> SUFFICES ASSUME NEW q \in Replicas, NEW o \in Origins,
                    release'[q][o] = "delete"
             PROVE  lease' = q
  BY DEF OwnLease
<1>1. lease = q
  <2>1. CASE q = r
    BY <2>1, DeleteBegins DEF OwnLease
  <2>2. CASE q # r
    <3>1. Elsewhere(q)
      BY <2>2, StepElsewhere DEF StepOf
    <3> QED
      BY <3>1 DEF Elsewhere, Outdated, OwnLease
  <2> QED
    BY <2>1, <2>2
<1>2. CASE UNCHANGED lease
  BY <1>1, <1>2
<1>3. CASE Dies(r)
  <2>1. q # r
    BY <1>3 DEF Dies, TypeOK
  <2> QED
    BY <1>1, <1>3, <2>1 DEF Dies
<1> QED
  BY <1>2, <1>3, WhoWrites

(* Only a process that runs takes a step, but for the step that boots it. *)
LEMMA StepIsLive ==
  ASSUME TypeOK, DownIsClean, NEW r \in Replicas, StepOf(r)
  PROVE  \/ Boot(r)
         \/ Dies(r) /\ Live(r)
         \/ proc'[r] # "down" /\ Live(r)
<1>1. proc[r] = "down" =>
        /\ claim[r].at = "idle" /\ ~due[r] /\ chain[r] = <<>>
        /\ phase[r] = "idle" /\ \A o \in Origins : release[r][o] = "idle"
  BY DEF DownIsClean
<1>2. CASE ReleaseStep(r)
  <2>1. UNCHANGED proc
    BY <1>2, Zenon DEF ReleaseStep, ReleaseRead, ReleaseDelete, ReleaseGivesUp
  <2> QED
    BY <1>1, <1>2, <2>1
    DEF ReleaseStep, ReleaseRead, ReleaseDelete, ReleaseGivesUp, Live
<1>3. CASE ClaimStep(r) \/ ClaimFails(r)
  <2>1. UNCHANGED proc
    BY <1>3, Zenon DEF ClaimStep, Campaign, ClaimRead, ClaimWrite,
                       ClaimRefused, ClaimFails
  <2>2. due[r] \/ claim[r].at # "idle"
    BY <1>3 DEF ClaimStep, Campaign, ClaimRead, ClaimWrite, ClaimWrites,
                ClaimRefused, ClaimFails
  <2> QED
    BY <1>1, <2>1, <2>2 DEF Live
<1>4. CASE ChainStep(r) \/ \E x \in Roles : RoleFailsToStart(r, x)
  <2>1. UNCHANGED proc
    BY <1>4, Zenon
    DEF ChainStep, TransitionBegins, StartEnds, StandDownEnds, RollbackEnds,
        ReleaseEnds, RoleStarts, RoleStops, RoleFailsToStart
  <2>2. phase[r] # "idle" \/ chain[r] # <<>>
    BY <1>4
    DEF ChainStep, TransitionBegins, StartEnds, StandDownEnds, RollbackEnds,
        ReleaseEnds, RoleStarts, RoleStops, RoleFailsToStart
  <2> QED
    BY <1>1, <2>1, <2>2 DEF Live
<1>5. CASE SetTimer(r) \/ QuitStandsDown(r) \/ Quit(r)
  BY <1>5 DEF SetTimer, QuitStandsDown, Quit, Campaigning, Live, TypeOK
<1>6. CASE Exit(r) \/ Crash(r)
  BY <1>6 DEF Exit, Crash, Live
<1> QED
  BY <1>2, <1>3, <1>4, <1>5, <1>6 DEF StepOf, Disturbance, ProcessStep

LEMMA DownStep ==
  ASSUME TypeOK, DownIsClean, NEW r \in Replicas, StepOf(r)
  PROVE  DownIsClean'
<1> SUFFICES ASSUME NEW q \in Replicas, proc'[q] = "down"
             PROVE  /\ claim'[q].at = "idle" /\ ~due'[q] /\ failures'[q] = 0
                    /\ backoff'[q] = 0 /\ chain'[q] = <<>>
                    /\ phase'[q] = "idle" /\ up'[q] = {}
                    /\ \A o \in Origins : release'[q][o] = "idle"
  BY DEF DownIsClean
<1>1. CASE q # r
  <2>1. Elsewhere(q)
    BY <1>1, StepElsewhere DEF StepOf
  <2> QED
    BY <2>1 DEF Elsewhere, Outdated, DownIsClean, NoTransition
<1>2. CASE q = r
  <2>1. Dies(r)
    BY <1>2, StepIsLive DEF Boot, TypeOK
  <2>2. claim'[r] = Idle
    BY <2>1 DEF Dies, TypeOK
  <2>3. chain'[r] = <<>>
    BY <2>1 DEF Dies, TypeOK
  <2>4. due'[r] = FALSE
    BY <2>1 DEF Dies, TypeOK
  <2>5. failures'[r] = 0 /\ backoff'[r] = 0 /\ phase'[r] = "idle" /\ up'[r] = {}
        /\ release'[r] = [o \in Origins |-> "idle"]
    BY <2>1 DEF Dies, TypeOK
  <2> QED
    BY <1>2, <2>2, <2>3, <2>4, <2>5 DEF Idle
<1> QED
  BY <1>1, <1>2

(* Time passes over all of it. *)
LEMMA TickOverLease ==
  ASSUME TypeOK, OwnLease, DownIsClean, Tick
  PROVE  OwnLease' /\ DownIsClean'
<1>1. UNCHANGED <<lease, proc, release, claim, failures, held, chain,
                  phase, todo, broken, running, stopFailed, refused, up>>
  BY Zenon DEF Tick
<1>2. OwnLease'
  BY <1>1 DEF OwnLease
<1>3. \A r \in Replicas : proc[r] = "down" => ~due'[r] /\ backoff'[r] = 0
  <2> SUFFICES ASSUME NEW r \in Replicas, proc[r] = "down"
               PROVE  ~due'[r] /\ backoff'[r] = 0
    OBVIOUS
  <2>1. due'[r] <=> proc[r] = "up"
    BY Zenon DEF Tick
  <2>2. backoff[r] = 0 /\ backoff'[r] = IF backoff[r] > 0 THEN backoff[r] - 1 ELSE 0
    BY DEF Tick, DownIsClean
  <2> QED
    BY <2>1, <2>2
<1> QED
  BY <1>1, <1>2, <1>3 DEF DownIsClean

---------------------------------------------------------------------------
LeaseSafe == TypeOK /\ BooksKept /\ OwnLease /\ DownIsClean

LEMMA LeaseInit ==
  ASSUME Init
  PROVE  LeaseSafe
<1>1. TypeOK
  <2>1. \A r \in Replicas : chain[r] \in Seq(Transition)
    BY DEF Init
  <2>2. chain \in [Replicas -> Seq(Transition)]
    BY <2>1 DEF Init
  <2>3. claim \in [Replicas -> Claim]
    BY DEF Init, Idle, Claim
  <2>4. 0 \in 0..BackoffMax /\ 0 \in 0..(TTL * BackoffMax)
    BY LeaseAssumption
  <2>5. /\ refused \in [Replicas -> 0..BackoffMax]
        /\ backoff \in [Replicas -> 0..(TTL * BackoffMax)]
    BY <2>4 DEF Init
  <2>6. left \in [Disturbances -> Nat]
    BY ScenariosAssumption DEF Init
  <2>7. /\ seen \in [Replicas -> 0..TTL \cup {None}]
        /\ failures \in [Replicas -> 0..2]
        /\ due \in [Replicas -> BOOLEAN] /\ held \in [Replicas -> BOOLEAN]
        /\ broken \in [Replicas -> BOOLEAN]
    BY DEF Init
  <2> QED
    BY <2>2, <2>3, <2>5, <2>6, <2>7 DEF Init, TypeOK, Transition
<1>2. BooksKept
  BY DEF Init, BooksKept, Books
<1>3. OwnLease /\ DownIsClean
  BY DEF Init, OwnLease, DownIsClean, Idle
<1> QED
  BY <1>1, <1>2, <1>3 DEF LeaseSafe

LEMMA LeaseNext ==
  ASSUME LeaseSafe, [Next]_vars
  PROVE  LeaseSafe'
<1> USE DEF LeaseSafe
<1>1. ASSUME NEW r \in Replicas, StepOf(r)
      PROVE  LeaseSafe'
  <2>1. TypeOK'
    BY <1>1, ClaimStepType, ChainStepType, ReleaseStepType, ProcessStepType
    DEF StepOf, Disturbance
  <2>2. BooksKept'
    BY <1>1, CampaignBooks, ChainBooks, OtherBooks DEF StepOf, Disturbance
  <2> QED
    BY <1>1, <2>1, <2>2, OwnLeaseStep, DownStep
<1>2. CASE Tick
  <2>1. BooksKept'
    <3>1. CASE Replicas = {}
      BY <3>1 DEF BooksKept
    <3>2. CASE Replicas # {}
      BY <1>2, <3>2, OtherBooks
    <3> QED
      BY <3>1, <3>2
  <2> QED
    BY <1>2, <2>1, TickType, TickOverLease
<1>3. CASE UNCHANGED vars
  <2>1. UNCHANGED <<lease, proc, left, release, claim, due, seen, failures,
                    backoff, held, chain, phase, todo, broken, running,
                    stopFailed, refused, up>>
    BY <1>3 DEF vars, campaignVars, chainVars
  <2>2. TypeOK'
    BY <2>1 DEF TypeOK
  <2>3. BooksKept'
    BY <2>1 DEF BooksKept, Books
  <2>4. OwnLease' /\ DownIsClean'
    BY <2>1 DEF OwnLease, DownIsClean
  <2> QED
    BY <2>2, <2>3, <2>4
<1> QED
  BY <1>1, <1>2, <1>3, NextIsStepOrTick

(* The election keeps its shape, its books and its Lease in order: the     *)
(* invariant the results below rest on, in every scenario.                 *)
THEOREM LeaseInvariant == Spec => []LeaseSafe
<1>1. Init => LeaseSafe
  BY LeaseInit
<1>2. LeaseSafe /\ [Next]_vars => LeaseSafe'
  BY LeaseNext
<1> QED
  BY <1>1, <1>2, PTL DEF Spec

(* campaignFailures, acquireFailures and the back-off stay within their    *)
(* bounds, whatever fails.                                                 *)
THEOREM LeaseType == Spec => []TypeOK
<1>1. LeaseSafe => TypeOK
  BY DEF LeaseSafe
<1> QED
  BY <1>1, LeaseInvariant, PTL

(* transition(): once none is under way, a replica runs all of its roles   *)
(* or none, as held says, and a role that may be at work is one it runs or *)
(* one whose stop it knows to have failed.                                 *)
THEOREM RolesAllOrNone == Spec => []AllOrNone
<1>1. LeaseSafe => AllOrNone
  BY DEF LeaseSafe, BooksKept, Books, AllOrNone
<1> QED
  BY <1>1, LeaseInvariant, PTL

---------------------------------------------------------------------------
(* Starts that do not outlast a tick *)

(* No start is slow any more: none of the disturbances left is one. *)
Punctual == left["slow"] = 0

(* The replica is about to start its roles. *)
Pending(r) == phase[r] = "idle" /\ chain[r] # <<>> /\ Head(chain[r]).to

(* A campaign begins only once what the last one chained is done. *)
OneCampaign(r) ==
  /\ chain[r] # <<>> \/ (\E o \in Origins : release[r][o] # "idle")
       => claim[r].at = "idle" /\ ~due[r]
  /\ due[r] => claim[r].at = "idle" /\ proc[r] = "up"

(* So a start is never queued behind anything, and nothing follows it but  *)
(* stand-downs.                                                            *)
ChainShape(r) ==
  /\ \A k \in 1..Len(chain[r]) : chain[r][k].to =>
       k = 1 /\ chain[r][k].then = None
  /\ phase[r] \in {"start", "rollback", "release"} => Head(chain[r]).to

(* The Lease is being given back only by a replica that has stood down,    *)
(* and deleted only by one whose roles have all stopped.                   *)
ReleaseShape(r) ==
  \A o \in Origins : release[r][o] # "idle" =>
    /\ ~Pending(r) /\ ~held[r] /\ phase[r] \in {"idle", "release"}
    /\ release[r][o] = "delete" => stopFailed[r] = {}

Ordered(r) == OneCampaign(r) /\ ChainShape(r) /\ ReleaseShape(r)

OrderKept == \A r \in Replicas : Ordered(r)

LEMMA OrderedElsewhere ==
  ASSUME NEW q \in Replicas, Ordered(q), Elsewhere(q)
  PROVE  Ordered(q)'
<1>1. /\ claim[q].at = "idle" => claim'[q].at = "idle"
      /\ \A o \in Origins :
           /\ release'[q][o] # "idle" => release[q][o] # "idle"
           /\ release'[q][o] = "delete" => release[q][o] = "delete"
  BY DEF Elsewhere, Outdated
<1>2. /\ proc'[q] = proc[q] /\ due'[q] = due[q] /\ chain'[q] = chain[q]
      /\ held'[q] = held[q] /\ phase'[q] = phase[q]
      /\ stopFailed'[q] = stopFailed[q]
  BY DEF Elsewhere, NoTransition
<1>3. OneCampaign(q)'
  BY <1>1, <1>2 DEF Ordered, OneCampaign
<1>4. ChainShape(q)'
  BY <1>2 DEF Ordered, ChainShape
<1>5. ReleaseShape(q)'
  BY <1>1, <1>2 DEF Ordered, ReleaseShape, Pending
<1> QED
  BY <1>3, <1>4, <1>5 DEF Ordered

(* Two facts about a chain: what is added comes last, what is left after   *)
(* its head has no start in it.                                            *)
LEMMA Appended ==
  ASSUME NEW c \in Seq(Transition), NEW e \in Transition
  PROVE  /\ Append(c, e) \in Seq(Transition) /\ Append(c, e) # <<>>
         /\ c = <<>> => Head(Append(c, e)) = e
         /\ c # <<>> => Head(Append(c, e)) = Head(c)
         /\ \A k \in 1..Len(Append(c, e)) :
              Append(c, e)[k] = IF k = Len(c) + 1 THEN e ELSE c[k]
         /\ Len(Append(c, e)) = Len(c) + 1
<1>1. Append(c, e) \in Seq(Transition) /\ Len(Append(c, e)) = Len(c) + 1
  OBVIOUS
<1>2. \A k \in 1..Len(Append(c, e)) :
        Append(c, e)[k] = IF k = Len(c) + 1 THEN e ELSE c[k]
  OBVIOUS
<1>3. Append(c, e) # <<>> /\ Head(Append(c, e)) = Append(c, e)[1]
  BY <1>1
<1>4. c = <<>> => Len(c) = 0
  OBVIOUS
<1>5. c # <<>> => Len(c) > 0 /\ Head(c) = c[1]
  OBVIOUS
<1> QED
  BY <1>1, <1>2, <1>3, <1>4, <1>5

LEMMA Popped ==
  ASSUME NEW c \in Seq(Transition), c # <<>>,
         \A k \in 1..Len(c) : c[k].to => k = 1 /\ c[k].then = None
  PROVE  /\ \A k \in 1..Len(Tail(c)) : ~Tail(c)[k].to
         /\ Tail(c) # <<>> => ~Head(Tail(c)).to
         /\ Head(c).to => Head(c).then = None
<1>1. \A k \in 1..Len(Tail(c)) : k + 1 \in 1..Len(c) /\ Tail(c)[k] = c[k + 1]
                                 /\ k + 1 # 1
  OBVIOUS
<1>2. \A k \in 1..Len(Tail(c)) : ~Tail(c)[k].to
  BY <1>1
<1>3. Tail(c) # <<>> => 1 \in 1..Len(Tail(c)) /\ Head(Tail(c)) = Tail(c)[1]
  OBVIOUS
<1>4. 1 \in 1..Len(c) /\ Head(c) = c[1]
  OBVIOUS
<1> QED
  BY <1>2, <1>3, <1>4

Start == [to |-> TRUE, then |-> None]
StandDown(then) == [to |-> FALSE, then |-> then]

LEMMA Transitions ==
  /\ Start \in Transition /\ Start.to = TRUE /\ Start.then = None
  /\ \A then \in Origins \cup {None} :
       StandDown(then) \in Transition /\ StandDown(then).to = FALSE
<1>1. Start \in Transition /\ Start.to = TRUE /\ Start.then = None
  BY DEF Start, Transition
<1>2. ASSUME NEW then \in Origins \cup {None}
      PROVE  StandDown(then) \in Transition /\ StandDown(then).to = FALSE
  BY DEF StandDown, Transition
<1> QED
  BY <1>1, <1>2

(* What settling a claim leaves its own replica with. *)
LEMMA SettledHere ==
  ASSUME TypeOK, NEW r \in Replicas, NEW result \in {"won", "lost", "failed"},
         NEW claims \in [Replicas -> Claim], Settled(r, result, claims)
  PROVE  /\ claim'[r].at = "idle"
         /\ ~Campaigning(r) =>
              failures'[r] = failures[r] /\ chain'[r] = chain[r]
         /\ Campaigning(r) /\ result = "won" =>
              failures'[r] = 0 /\ chain'[r] = Append(chain[r], Start)
         /\ Campaigning(r) /\ result = "lost" =>
              failures'[r] = 0 /\ chain'[r] = Append(chain[r], StandDown(None))
         /\ Campaigning(r) /\ result = "failed" =>
              /\ failures'[r] = IF failures[r] < 2 THEN failures[r] + 1 ELSE 2
              /\ chain'[r] = IF held[r] /\ failures'[r] >= 2
                               THEN Append(chain[r], StandDown("campaign"))
                               ELSE chain[r]
<1>1. claim'[r].at = "idle"
  BY DEF Settled, Idle
<1>2. ASSUME ~Campaigning(r)
      PROVE  failures'[r] = failures[r] /\ chain'[r] = chain[r]
  BY <1>2, Zenon DEF Settled
<1>3. ASSUME Campaigning(r), result = "won"
      PROVE  failures'[r] = 0 /\ chain'[r] = Append(chain[r], Start)
  <2>1. failures' = [failures EXCEPT ![r] = 0] /\ Chained(r, TRUE, None)
    <3>1. (result = "won") = TRUE /\ result # "failed"
      BY <1>3
    <3> QED
      BY <1>3, <3>1, Zenon DEF Settled
  <2> QED
    BY <2>1, ChainedAppends DEF TypeOK, Start
<1>4. ASSUME Campaigning(r), result = "lost"
      PROVE  failures'[r] = 0 /\ chain'[r] = Append(chain[r], StandDown(None))
  <2>1. failures' = [failures EXCEPT ![r] = 0] /\ Chained(r, FALSE, None)
    <3>1. (result = "won") = FALSE /\ result # "failed"
      BY <1>4
    <3> QED
      BY <1>4, <3>1, Zenon DEF Settled
  <2> QED
    BY <2>1, ChainedAppends DEF TypeOK, StandDown
<1>5. ASSUME Campaigning(r), result = "failed"
      PROVE  /\ failures'[r] = IF failures[r] < 2 THEN failures[r] + 1 ELSE 2
             /\ chain'[r] = IF held[r] /\ failures'[r] >= 2
                              THEN Append(chain[r], StandDown("campaign"))
                              ELSE chain[r]
  <2>1. /\ failures' = [failures EXCEPT ![r] = IF @ < 2 THEN @ + 1 ELSE 2]
        /\ IF held[r] /\ failures'[r] >= 2
             THEN Chained(r, FALSE, "campaign")
             ELSE UNCHANGED chain
    <3>1. result # "won" /\ result # "lost"
      BY <1>5
    <3> QED
      BY <1>5, <3>1, Zenon DEF Settled
  <2>2. failures'[r] = IF failures[r] < 2 THEN failures[r] + 1 ELSE 2
    BY <2>1 DEF TypeOK
  <2>3. CASE held[r] /\ failures'[r] >= 2
    BY <2>1, <2>2, <2>3, ChainedAppends DEF StandDown
  <2>4. CASE ~(held[r] /\ failures'[r] >= 2)
    BY <2>1, <2>2, <2>4
  <2> QED
    BY <2>3, <2>4
<1> QED
  BY <1>1, <1>2, <1>3, <1>4, <1>5

(* A claim settles with nothing else of its replica under way, and chains  *)
(* at most one transition.                                                 *)
LEMMA SettledOrdered ==
  ASSUME TypeOK, BooksKept, NEW r \in Replicas, Ordered(r),
         claim[r].at # "idle",
         NEW result \in {"won", "lost", "failed"},
         NEW claims \in [Replicas -> Claim], Settled(r, result, claims),
         \A o \in Origins : release'[r][o] \in {release[r][o], Outdated(release[r][o])},
         UNCHANGED <<proc, due, held, phase, stopFailed>>
  PROVE  Ordered(r)'
<1>1. /\ chain[r] = <<>> /\ ~due[r] /\ phase[r] = "idle"
      /\ \A o \in Origins : release[r][o] = "idle"
  BY DEF Ordered, OneCampaign, BooksKept, Books
<1>2. \A o \in Origins : release'[r][o] = "idle"
  BY <1>1 DEF Outdated
<1>3. claim'[r].at = "idle"
  BY SettledHere
<1>4. ~due'[r] /\ phase'[r] = "idle"
  BY <1>1
<1>5. \/ chain'[r] = <<>>
      \/ \E e \in {Start, StandDown(None), StandDown("campaign")} :
           chain'[r] = Append(<<>>, e)
  BY <1>1, SettledHere, Zenon
<1>6. OneCampaign(r)'
  BY <1>2, <1>3, <1>4 DEF OneCampaign
<1>7. ReleaseShape(r)'
  BY <1>2 DEF ReleaseShape
<1>8. ChainShape(r)'
  <2>1. CASE chain'[r] = <<>>
    BY <1>4, <2>1 DEF ChainShape
  <2>2. CASE \E e \in {Start, StandDown(None), StandDown("campaign")} :
           chain'[r] = Append(<<>>, e)
    <3>1. PICK e \in {Start, StandDown(None), StandDown("campaign")} :
            chain'[r] = Append(<<>>, e)
      BY <2>2
    <3>2. e \in Transition /\ (e.to => e.then = None)
      <4>1. None \in Origins \cup {None} /\ "campaign" \in Origins \cup {None}
        BY DEF Origins
      <4>2. StandDown(None).to = FALSE /\ StandDown("campaign").to = FALSE
            /\ StandDown(None) \in Transition /\ StandDown("campaign") \in Transition
        BY <4>1, Transitions, Zenon
      <4>3. CASE e = Start
        BY <4>3, Transitions
      <4>4. CASE e \in {StandDown(None), StandDown("campaign")}
        BY <4>2, <4>4
      <4> QED
        BY <4>3, <4>4
    <3>3. \A k \in 1..Len(chain'[r]) : k = 1 /\ chain'[r][k] = e
      <4>1. <<>> \in Seq(Transition) /\ Len(<<>>) = 0
        OBVIOUS
      <4>2. Len(chain'[r]) = 1
        BY <3>1, <3>2, <4>1, Appended
      <4> QED
        BY <3>1, <3>2, <4>1, <4>2, Appended
    <3> QED
      BY <1>4, <3>2, <3>3 DEF ChainShape
  <2> QED
    BY <1>5, <2>1, <2>2
<1> QED
  BY <1>6, <1>7, <1>8 DEF Ordered

LEMMA CampaignOrdered ==
  ASSUME TypeOK, BooksKept, NEW r \in Replicas, Ordered(r),
         ClaimStep(r) \/ ClaimFails(r)
  PROVE  Ordered(r)'
<1> USE DEF campaignVars, chainVars
<1>1. claim \in [Replicas -> Claim] /\ ClaimsAfterWrite \in [Replicas -> Claim]
  BY ClaimsWritten DEF TypeOK
<1>2. "won" \in {"won", "lost", "failed"} /\ "lost" \in {"won", "lost", "failed"}
      /\ "failed" \in {"won", "lost", "failed"}
  OBVIOUS
<1>3. ASSUME UNCHANGED <<proc, chain, release, phase, held, stopFailed>>,
             \/ due[r] /\ ~due'[r]
             \/ claim[r].at # "idle" /\ UNCHANGED due
      PROVE  Ordered(r)'
  <2>1. chain[r] = <<>> /\ ~due'[r] /\ \A o \in Origins : release[r][o] = "idle"
    BY <1>3 DEF Ordered, OneCampaign
  <2> QED
    BY <1>3, <2>1 DEF Ordered, OneCampaign, ChainShape, ReleaseShape, Pending
<1>4. ASSUME claim[r].at # "idle",
             UNCHANGED <<proc, due, held, phase, stopFailed>>,
             NEW result \in {"won", "lost", "failed"},
             NEW claims \in {claim, ClaimsAfterWrite},
             Settled(r, result, claims),
             UNCHANGED release \/ release' = ReleasesAfterWrite
      PROVE  Ordered(r)'
  <2>1. \A o \in Origins : release'[r][o] \in {release[r][o], Outdated(release[r][o])}
    BY <1>4, OutdatedCalls
  <2>2. claims \in [Replicas -> Claim]
    BY <1>1, <1>4
  <2> QED
    BY <1>4, <2>1, <2>2, SettledOrdered
<1>5. claim \in {claim, ClaimsAfterWrite} /\ ClaimsAfterWrite \in {claim, ClaimsAfterWrite}
  OBVIOUS
<1>6. CASE Campaign(r)
  <2>1. due[r] /\ ~due'[r]
    BY <1>6 DEF Campaign, TypeOK
  <2> QED
    BY <1>3, <1>6, <2>1 DEF Campaign
<1>7. CASE ClaimRead(r)
  <2>1. claim[r].at # "idle"
        /\ UNCHANGED <<proc, due, held, phase, stopFailed, release>>
    BY <1>7 DEF ClaimRead
  <2>2. UNCHANGED chain \/ Settled(r, "lost", claim)
    BY <1>7, Zenon DEF ClaimRead
  <2> QED
    BY <1>2, <1>3, <1>4, <1>5, <2>1, <2>2
<1>8. CASE ClaimWrite(r)
  <2>1. claim[r].at # "idle"
        /\ UNCHANGED <<proc, due, held, phase, stopFailed>>
    BY <1>8 DEF ClaimWrite, ClaimWrites
  <2>2. Settled(r, "won", ClaimsAfterWrite) /\ release' = ReleasesAfterWrite
    BY <1>8, Zenon DEF ClaimWrite
  <2> QED
    BY <1>2, <1>4, <1>5, <2>1, <2>2
<1>9. CASE ClaimRefused(r)
  <2>1. claim[r].at # "idle"
        /\ UNCHANGED <<proc, due, held, phase, stopFailed, release>>
    BY <1>9 DEF ClaimRefused
  <2>2. UNCHANGED chain \/ Settled(r, "lost", claim)
    BY <1>9, Zenon DEF ClaimRefused
  <2> QED
    BY <1>2, <1>3, <1>4, <1>5, <2>1, <2>2
<1>10. CASE ClaimFails(r)
  <2>1. claim[r].at # "idle"
        /\ UNCHANGED <<proc, due, held, phase, stopFailed>>
    BY <1>10 DEF ClaimFails
  <2>2. \/ Settled(r, "failed", claim) /\ UNCHANGED release
        \/ Settled(r, "failed", ClaimsAfterWrite) /\ release' = ReleasesAfterWrite
    BY <1>10, Zenon DEF ClaimFails
  <2> QED
    BY <1>2, <1>4, <1>5, <2>1, <2>2
<1> QED
  BY <1>6, <1>7, <1>8, <1>9, <1>10 DEF ClaimStep

(* A transition that ends leaves only stand-downs behind, and gives the    *)
(* Lease back only if it was one itself.                                   *)
LEMMA FinishedOrdered ==
  ASSUME TypeOK, NEW r \in Replicas, Ordered(r), chain[r] # <<>>, Finished(r),
         UNCHANGED <<proc, claim, due, stopFailed>>,
         phase[r] \in {"idle", "start", "stop", "release"},
         phase[r] = "stop" => ~held'[r],
         phase[r] = "release" => ~held'[r],
         phase[r] = "idle" => held'[r] = held[r] /\ held[r] = Head(chain[r]).to
  PROVE  Ordered(r)'
<1>1. chain[r] \in Seq(Transition)
  BY DEF TypeOK, Transition
<1>2. /\ \A k \in 1..Len(Tail(chain[r])) : ~Tail(chain[r])[k].to
      /\ Tail(chain[r]) # <<>> => ~Head(Tail(chain[r])).to
      /\ Head(chain[r]).to => Head(chain[r]).then = None
  BY <1>1, Popped DEF Ordered, ChainShape
<1>3. chain'[r] = Tail(chain[r]) /\ phase'[r] = "idle"
  BY FinishedPops
<1>4. claim[r].at = "idle" /\ ~due[r]
  BY DEF Ordered, OneCampaign
<1>5. OneCampaign(r)'
  BY <1>4 DEF OneCampaign
<1>6. ChainShape(r)'
  BY <1>2, <1>3 DEF ChainShape
<1>7. ~Pending(r)'
  BY <1>2, <1>3 DEF Pending
<1>8. Head(chain[r]).then = None => release' = release
  BY Zenon DEF Finished
<1>9. Head(chain[r]).then # None =>
        release' = [release EXCEPT ![r][Head(chain[r]).then] = "read"]
  BY Zenon DEF Finished
<1>10. ASSUME NEW o \in Origins, release'[r][o] # "idle"
       PROVE  ~held'[r] /\ (release'[r][o] = "delete" => stopFailed'[r] = {})
  <2>1. \/ release'[r][o] = release[r][o]
        \/ release'[r][o] = "read" /\ Head(chain[r]).then # None
    BY <1>8, <1>9 DEF TypeOK
  <2>2. CASE release[r][o] # "idle" /\ release'[r][o] = release[r][o]
    BY <2>2 DEF Ordered, ReleaseShape
  <2>3. CASE release'[r][o] = "read" /\ Head(chain[r]).then # None
    <3>1. ~Head(chain[r]).to
      BY <1>2, <2>3
    <3>2. phase[r] \notin {"start", "rollback", "release"}
      BY <3>1 DEF Ordered, ChainShape
    <3> QED
      BY <2>3, <3>1, <3>2
  <2> QED
    BY <1>10, <2>1, <2>2, <2>3
<1>11. ReleaseShape(r)'
  BY <1>3, <1>7, <1>10 DEF ReleaseShape
<1> QED
  BY <1>5, <1>6, <1>11 DEF Ordered

LEMMA TransitionOrdered ==
  ASSUME TypeOK, NEW r \in Replicas, Ordered(r), TransitionBegins(r)
  PROVE  Ordered(r)'
<1> USE DEF campaignVars
<1>1. PICK to : to = Head(chain[r]).to
  OBVIOUS
<1>2. to \in BOOLEAN /\ chain[r] # <<>>
  <2>1. chain[r] \in Seq(Transition) /\ chain[r] # <<>>
    BY DEF TypeOK, Transition, TransitionBegins
  <2>2. Head(chain[r]) \in Transition
    BY <2>1
  <2> QED
    BY <1>1, <2>1, <2>2 DEF Transition
<1>3. phase[r] = "idle" /\ UNCHANGED <<proc, claim, due, stopFailed>>
  BY Zenon DEF TransitionBegins
<1>4. CASE held[r] = to /\ Finished(r) /\ UNCHANGED <<held, todo, broken, running, up>>
  <2>1. held'[r] = held[r] /\ held[r] = Head(chain[r]).to
    BY <1>1, <1>4
  <2> QED
    BY <1>2, <1>3, <1>4, <2>1, FinishedOrdered
<1>5. CASE /\ held[r] # to
           /\ held' = [held EXCEPT ![r] = to]
           /\ phase' = [phase EXCEPT ![r] = IF to THEN "start" ELSE "stop"]
           /\ UNCHANGED <<chain, release>>
  <2>1. \A o \in Origins : release[r][o] = "idle"
    <3>1. CASE to = TRUE
      <4>1. Pending(r)
        BY <1>1, <1>2, <1>3, <3>1 DEF Pending
      <4> QED
        BY <4>1 DEF Ordered, ReleaseShape
    <3>2. CASE to = FALSE
      <4>1. held[r] = TRUE
        BY <1>5, <3>2 DEF TypeOK
      <4> QED
        BY <4>1 DEF Ordered, ReleaseShape
    <3> QED
      BY <1>2, <3>1, <3>2
  <2>2. phase'[r] \in {"start", "stop"} /\ (phase'[r] = "start" => Head(chain[r]).to)
    BY <1>1, <1>2, <1>5 DEF TypeOK
  <2>3. OneCampaign(r)'
    BY <1>3, <1>5 DEF Ordered, OneCampaign
  <2>4. ChainShape(r)'
    BY <1>5, <2>2 DEF Ordered, ChainShape
  <2>5. ReleaseShape(r)'
    BY <1>5, <2>1 DEF ReleaseShape
  <2> QED
    BY <2>3, <2>4, <2>5 DEF Ordered
<1> QED
  BY <1>1, <1>4, <1>5, Zenon DEF TransitionBegins

LEMMA ChainOrdered ==
  ASSUME TypeOK, BooksKept, NEW r \in Replicas, Ordered(r),
         ChainStep(r) \/ \E x \in Roles : RoleFailsToStart(r, x)
  PROVE  Ordered(r)'
<1> USE DEF campaignVars
<1>1. /\ phase[r] # "idle" => chain[r] # <<>>
      /\ phase[r] \in {"stop", "release"} => ~held[r]
  BY DEF BooksKept, Books
<1>2. phase[r] \in {"start", "stop", "rollback"} =>
        \A o \in Origins : release[r][o] = "idle"
  BY DEF Ordered, ReleaseShape
<1>3. CASE StartEnds(r)
  <2>1. UNCHANGED <<proc, claim, due, held, stopFailed>> /\ phase[r] = "start"
    BY <1>3, Zenon DEF StartEnds
  <2>2. CASE phase' = [phase EXCEPT ![r] = "rollback"] /\ UNCHANGED <<chain, release>>
    <3>1. phase'[r] = "rollback"
      BY <2>2 DEF TypeOK
    <3>2. OneCampaign(r)' /\ ReleaseShape(r)'
      BY <1>2, <2>1, <2>2 DEF Ordered, OneCampaign, ReleaseShape
    <3>3. ChainShape(r)'
      BY <2>1, <2>2, <3>1 DEF Ordered, ChainShape
    <3> QED
      BY <3>2, <3>3 DEF Ordered
  <2>3. CASE Finished(r)
    BY <1>1, <2>1, <2>3, FinishedOrdered
  <2> QED
    BY <1>3, <2>2, <2>3, Zenon DEF StartEnds
<1>4. CASE StandDownEnds(r)
  <2>1. UNCHANGED <<proc, claim, due, held, stopFailed>> /\ phase[r] = "stop"
        /\ Finished(r)
    BY <1>4, Zenon DEF StandDownEnds
  <2> QED
    BY <1>1, <2>1, FinishedOrdered
<1>5. CASE RollbackEnds(r)
  <2>1. /\ UNCHANGED <<proc, claim, due, chain, stopFailed>>
        /\ phase[r] = "rollback" /\ phase'[r] = "release" /\ held'[r] = FALSE
        /\ \A o \in Origins : release'[r][o] \in {release[r][o], "read"}
    BY <1>5 DEF RollbackEnds, TypeOK, HeldAfterRollback, Origins
  <2>2. OneCampaign(r)'
    BY <1>1, <2>1 DEF Ordered, OneCampaign
  <2>3. ChainShape(r)'
    BY <2>1 DEF Ordered, ChainShape
  <2>4. ReleaseShape(r)'
    BY <1>2, <2>1 DEF ReleaseShape, Pending
  <2> QED
    BY <2>2, <2>3, <2>4 DEF Ordered
<1>6. CASE ReleaseEnds(r)
  <2>1. UNCHANGED <<proc, claim, due, held, stopFailed>> /\ phase[r] = "release"
        /\ Finished(r)
    BY <1>6, Zenon DEF ReleaseEnds
  <2> QED
    BY <1>1, <2>1, FinishedOrdered
<1>7. ASSUME NEW x \in Roles,
             RoleStarts(r, x) \/ RoleStops(r, x) \/ RoleFailsToStart(r, x)
      PROVE  Ordered(r)'
  <2>1. /\ UNCHANGED <<proc, claim, due, held, chain, phase, release>>
        /\ phase[r] \in {"start", "stop", "rollback"}
    BY <1>7 DEF RoleStarts, RoleStops, RoleFailsToStart
  <2> QED
    BY <1>2, <2>1 DEF Ordered, OneCampaign, ChainShape, ReleaseShape
<1> QED
  BY <1>3, <1>4, <1>5, <1>6, <1>7, TransitionOrdered DEF ChainStep

LEMMA ReleaseOrdered ==
  ASSUME TypeOK, NEW r \in Replicas, Ordered(r), ReleaseStep(r)
  PROVE  Ordered(r)'
<1> USE DEF campaignVars, chainVars
<1>1. PICK o \in Origins :
        ReleaseRead(r, o) \/ ReleaseDelete(r, o) \/ ReleaseGivesUp(r, o)
  BY DEF ReleaseStep
<1>2. UNCHANGED <<proc, due, chain, phase, held, stopFailed>>
  BY <1>1, Zenon DEF ReleaseRead, ReleaseDelete, ReleaseGivesUp
<1>3. claim[r].at = "idle" => claim'[r].at = "idle"
  BY <1>1, OutdatedCalls DEF ReleaseRead, ReleaseDelete, ReleaseGivesUp, Outdated
<1>4. \A p \in Origins : release'[r][p] # "idle" =>
        /\ release[r][p] # "idle"
        /\ release'[r][p] = "delete" => release[r][p] = "delete" \/ stopFailed[r] = {}
  <2>1. CASE ReleaseDelete(r, o)
    <3>1. \A p \in Origins :
            release'[r][p] \in {"idle", Outdated(release[r][p])}
      BY <2>1, ReleasesWritten, OutdatedCalls DEF ReleaseDelete
    <3> QED
      BY <3>1 DEF Outdated
  <2>2. CASE ReleaseRead(r, o) \/ ReleaseGivesUp(r, o)
    BY <2>2 DEF ReleaseRead, ReleaseGivesUp, MayRelease, TypeOK
  <2> QED
    BY <1>1, <2>1, <2>2
<1>5. OneCampaign(r)'
  BY <1>2, <1>3, <1>4 DEF Ordered, OneCampaign
<1>6. ChainShape(r)'
  BY <1>2 DEF Ordered, ChainShape
<1>7. ReleaseShape(r)'
  BY <1>2, <1>4 DEF Ordered, ReleaseShape, Pending
<1> QED
  BY <1>5, <1>6, <1>7 DEF Ordered

LEMMA ProcessOrdered ==
  ASSUME TypeOK, BooksKept, DownIsClean, NEW r \in Replicas, Ordered(r),
         ProcessStep(r) \/ Boot(r) \/ Quit(r) \/ Crash(r)
  PROVE  Ordered(r)'
<1> USE DEF campaignVars, chainVars
<1>1. CASE SetTimer(r) \/ Quit(r)
  <2>1. UNCHANGED <<claim, release, chain, phase, held, stopFailed>>
    BY <1>1, Zenon DEF SetTimer, Quit
  <2>2. ~due'[r]
    BY <1>1 DEF SetTimer, Quit, Ordered, OneCampaign, TypeOK
  <2> QED
    BY <2>1, <2>2 DEF Ordered, OneCampaign, ChainShape, ReleaseShape, Pending
<1>2. CASE QuitStandsDown(r)
  <2>1. UNCHANGED <<claim, release, due, phase, held, stopFailed>>
    BY <1>2, Zenon DEF QuitStandsDown
  <2>2. claim[r].at = "idle" /\ ~due[r]
    BY <1>2 DEF QuitStandsDown, Ordered, OneCampaign
  <2>3. "stop" \in Origins \cup {None}
    BY DEF Origins
  <2>4. /\ chain[r] \in Seq(Transition) /\ StandDown("stop") \in Transition
        /\ StandDown("stop").to = FALSE
    BY <2>3, Transitions DEF TypeOK, Transition
  <2>5. chain'[r] = Append(chain[r], StandDown("stop"))
    BY <1>2, ChainedAppends DEF QuitStandsDown, StandDown
  <2>6. Len(chain'[r]) = Len(chain[r]) + 1 /\ Len(chain[r]) \in Nat
        /\ \A k \in 1..Len(chain'[r]) :
             chain'[r][k] = IF k = Len(chain[r]) + 1 THEN StandDown("stop") ELSE chain[r][k]
    BY <2>4, <2>5, Appended
  <2>7. /\ chain[r] = <<>> => ~Head(chain'[r]).to
        /\ chain[r] # <<>> => Head(chain'[r]) = Head(chain[r])
    BY <2>4, <2>5, Appended
  <2>8. OneCampaign(r)'
    BY <2>1, <2>2 DEF OneCampaign
  <2>9. ChainShape(r)'
    <3>1. \A k \in 1..Len(chain'[r]) : chain'[r][k].to =>
            k = 1 /\ chain'[r][k].then = None
      <4> SUFFICES ASSUME NEW k \in 1..Len(chain'[r]), chain'[r][k].to
                   PROVE  k = 1 /\ chain'[r][k].then = None
        OBVIOUS
      <4>1. k # Len(chain[r]) + 1
        BY <2>4, <2>6
      <4>2. k \in 1..Len(chain[r]) /\ chain'[r][k] = chain[r][k]
        BY <2>6, <4>1
      <4> QED
        BY <4>2 DEF Ordered, ChainShape
    <3>2. phase'[r] \in {"start", "rollback", "release"} => Head(chain'[r]).to
      BY <2>1, <2>7 DEF Ordered, ChainShape, BooksKept, Books
    <3> QED
      BY <3>1, <3>2 DEF ChainShape
  <2>10. ReleaseShape(r)'
    <3>1. Pending(r)' => Pending(r)
      BY <2>1, <2>7 DEF Pending
    <3> QED
      BY <2>1, <3>1 DEF Ordered, ReleaseShape
  <2> QED
    BY <2>8, <2>9, <2>10 DEF Ordered
<1>3. CASE Dies(r)
  <2>1. /\ \A o \in Origins : release'[r][o] = "idle"
        /\ phase'[r] = "idle" /\ due'[r] = FALSE
    BY <1>3 DEF Dies, TypeOK
  <2>2. chain'[r] = <<>>
    BY <1>3 DEF Dies, TypeOK
  <2> QED
    BY <2>1, <2>2 DEF Ordered, OneCampaign, ChainShape, ReleaseShape
<1>4. CASE Boot(r)
  <2>1. UNCHANGED <<release, due, chain, phase, held, stopFailed>>
    BY <1>4, Zenon DEF Boot
  <2>2. /\ chain[r] = <<>> /\ ~due[r] /\ phase[r] = "idle"
        /\ \A o \in Origins : release[r][o] = "idle"
    BY <1>4 DEF Boot, DownIsClean
  <2> QED
    BY <2>1, <2>2 DEF Ordered, OneCampaign, ChainShape, ReleaseShape
<1> QED
  BY <1>1, <1>2, <1>3, <1>4 DEF ProcessStep, Exit, Crash

(* Nothing of a campaign outlasts its tick. *)
LEMMA TickEnds ==
  ASSUME Punctual, Tick, NEW r \in Replicas
  PROVE  /\ chain[r] = <<>> /\ claim[r].at = "idle"
         /\ ~due[r] /\ proc[r] # "settling"
         /\ \A o \in Origins : release[r][o] = "idle"
<1>1. ~ \E q \in Replicas : Starting(q)
  BY DEF Punctual, Tick, Spend
<1>2. TickIsOver(r)
  BY DEF Tick
<1> QED
  BY <1>1, <1>2 DEF TickIsOver

LEMMA TickOrdered ==
  ASSUME BooksKept, Punctual, Tick, NEW r \in Replicas
  PROVE  Ordered(r)'
<1>1. UNCHANGED <<proc, release, claim, held, chain, phase, stopFailed>>
  BY Zenon DEF Tick
<1>2. due'[r] => proc[r] = "up"
  BY Zenon DEF Tick
<1>3. phase[r] = "idle"
  BY TickEnds DEF BooksKept, Books
<1> QED
  BY <1>1, <1>2, <1>3, TickEnds DEF Ordered, OneCampaign, ChainShape, ReleaseShape

(* No disturbance comes back. *)
LEMMA LeftSpent ==
  ASSUME [Next]_vars
  PROVE  UNCHANGED left \/ \E d \in Disturbances : Spend(d)
<1>1. \A d \in {"api", "start", "stop", "crash", "quit", "slow"} : d \in Disturbances
  BY DEF Disturbances
<1>2. ASSUME NEW r \in Replicas, StepOf(r)
      PROVE  UNCHANGED left \/ Spend("api") \/ Spend("start") \/ Spend("stop")
             \/ Spend("crash") \/ Spend("quit")
  <2>1. CASE ClaimStep(r) \/ ChainStep(r)
    BY <2>1, Zenon
    DEF ClaimStep, Campaign, ClaimRead, ClaimWrite, ClaimRefused,
        ChainStep, TransitionBegins, StartEnds, StandDownEnds, RollbackEnds,
        ReleaseEnds, RoleStarts, RoleStops
  <2>2. CASE ~(ClaimStep(r) \/ ChainStep(r))
    BY <1>2, <2>2, Zenon
    DEF StepOf, ReleaseStep, ReleaseRead, ReleaseDelete, ReleaseGivesUp,
        ProcessStep, SetTimer, QuitStandsDown, Exit, Boot, Disturbance,
        ClaimFails, Quit, Crash, RoleFailsToStart
  <2> QED
    BY <2>1, <2>2
<1>3. CASE Tick
  BY <1>1, <1>3 DEF Tick
<1>4. CASE UNCHANGED vars
  BY <1>4 DEF vars
<1> QED
  BY <1>1, <1>2, <1>3, <1>4, NextIsStepOrTick

LEMMA PunctualStep ==
  ASSUME TypeOK, Punctual, [Next]_vars
  PROVE  Punctual'
<1>1. ASSUME NEW d \in Disturbances, Spend(d)
      PROVE  Punctual'
  <2>1. d # "slow"
    BY <1>1 DEF Spend, Punctual
  <2>2. "slow" \in Disturbances
    BY DEF Disturbances
  <2> QED
    BY <1>1, <2>1, <2>2 DEF Spend, Punctual, TypeOK
<1>2. CASE UNCHANGED left
  BY <1>2 DEF Punctual
<1> QED
  BY <1>1, <1>2, LeftSpent

LEMMA OrderNext ==
  ASSUME LeaseSafe, Punctual, OrderKept, [Next]_vars
  PROVE  OrderKept'
<1> USE DEF LeaseSafe
<1>1. ASSUME NEW r \in Replicas, StepOf(r)
      PROVE  OrderKept'
  <2>1. Ordered(r)
    BY DEF OrderKept
  <2>2. Ordered(r)'
    BY <1>1, <2>1, CampaignOrdered, ChainOrdered, ReleaseOrdered, ProcessOrdered
    DEF StepOf, Disturbance
  <2>3. ASSUME NEW q \in Replicas, q # r
        PROVE  Ordered(q)'
    BY <1>1, <2>3, StepElsewhere, OrderedElsewhere DEF OrderKept, StepOf
  <2> QED
    BY <2>2, <2>3 DEF OrderKept
<1>2. CASE Tick
  BY <1>2, TickOrdered DEF OrderKept
<1>3. CASE UNCHANGED vars
  BY <1>3 DEF vars, campaignVars, chainVars, OrderKept, Ordered, OneCampaign,
              ChainShape, ReleaseShape, Pending
<1> QED
  BY <1>1, <1>2, <1>3, NextIsStepOrTick

(* Only releaseLease takes the Lease away, and only its holder's. *)
LEMMA OnlyDeletes ==
  ASSUME TypeOK, NEW r \in Replicas, StepOf(r), lease # None, lease' = None
  PROVE  \E o \in Origins : ReleaseDelete(r, o)
<1>1. r # None /\ Gone # None
  BY LeaseAssumption
<1>2. CASE ReleaseStep(r)
  BY <1>2 DEF ReleaseStep, ReleaseRead, ReleaseGivesUp
<1>3. CASE ClaimStep(r) \/ ClaimFails(r)
  <2>1. UNCHANGED lease \/ lease' = r
    BY <1>3, Zenon DEF ClaimStep, Campaign, ClaimRead, ClaimWrite,
                       ClaimRefused, ClaimFails, Written
  <2> QED
    BY <1>1, <2>1
<1>4. CASE ChainStep(r) \/ \E x \in Roles : RoleFailsToStart(r, x)
  <2>1. UNCHANGED lease
    BY <1>4, Zenon
    DEF ChainStep, TransitionBegins, StartEnds, StandDownEnds, RollbackEnds,
        ReleaseEnds, RoleStarts, RoleStops, RoleFailsToStart
  <2> QED
    BY <2>1
<1>5. CASE ProcessStep(r) \/ Boot(r) \/ Quit(r) \/ Crash(r)
  <2>1. UNCHANGED lease \/ lease' \in {lease, Gone}
    BY <1>5, Zenon
    DEF ProcessStep, SetTimer, QuitStandsDown, Exit, Boot, Quit, Crash, Dies
  <2> QED
    BY <1>1, <2>1
<1> QED
  BY <1>2, <1>3, <1>4, <1>5 DEF StepOf, Disturbance

LEMMA ReleaseIsSafe ==
  ASSUME LeaseSafe, Punctual, OrderKept, [Next]_vars,
         NEW r \in Replicas, lease = r, lease' = None
  PROVE  up[r] = {}
<1> USE DEF LeaseSafe
<1>1. lease # None
  BY LeaseAssumption
<1>2. PICK s \in Replicas : StepOf(s)
  BY <1>1, NextIsStepOrTick DEF Tick, vars
<1>3. PICK o \in Origins : ReleaseDelete(s, o)
  BY <1>1, <1>2, OnlyDeletes
<1>4. s = r /\ release[s][o] = "delete"
  BY <1>3 DEF ReleaseDelete, OwnLease
<1>5. ~held[r] /\ phase[r] \in {"idle", "release"} /\ stopFailed[r] = {}
  BY <1>4 DEF OrderKept, Ordered, ReleaseShape
<1> QED
  BY <1>5 DEF BooksKept, Books

LEMMA OrderInit ==
  ASSUME Init
  PROVE  OrderKept
BY DEF Init, OrderKept, Ordered, OneCampaign, ChainShape, ReleaseShape, Idle

(* releaseLease: whatever crashes, fails or is shut down, the Lease is     *)
(* given back only by a replica none of whose roles may still be at work,  *)
(* as long as starts last less than a campaign's interval.                 *)
THEOREM LeaseReleasedWhenStopped ==
  Spec /\ left["slow"] = 0 => ReleasedWhenStopped
<1>1. Init /\ left["slow"] = 0 => Punctual /\ OrderKept
  BY OrderInit DEF Punctual
<1>2. LeaseSafe /\ Punctual /\ OrderKept /\ [Next]_vars
        => Punctual' /\ OrderKept'
  BY PunctualStep, OrderNext DEF LeaseSafe
<1>3. LeaseSafe /\ Punctual /\ OrderKept /\ [Next]_vars
        => [\A r \in Replicas : lease = r /\ lease' = None => up[r] = {}]_vars
  BY ReleaseIsSafe
<1> QED
  BY <1>1, <1>2, <1>3, LeaseInvariant, PTL DEF Spec, ReleasedWhenStopped

---------------------------------------------------------------------------
(* One server at a time: stops that succeed, too *)

(* No stop fails any more. *)
Stoppable == left["stop"] = 0

(* The replica has roles at work, or is about to start them. *)
Leads(r) == up[r] # {} \/ Pending(r)

(* The campaign of this tick is still to settle. *)
Ahead(r) == IF due[r] \/ claim[r].at # "idle" THEN 1 ELSE 0

(* A replica that leads holds the Lease, and nobody else is about to take  *)
(* it: another has seen it unchanged for at most as many ticks as the      *)
(* leader's campaigns have failed, counting the one ahead, hence never for *)
(* the three it takes.  A replica that shuts down campaigns no more, but   *)
(* it is gone before the next tick.                                        *)
KeepsLease(r) ==
  Leads(r) =>
    /\ lease = r /\ claim[r].at \notin {"create", "conflict"}
    /\ \A q \in Replicas \ {r} :
         /\ claim[q].at # "replace"
         /\ seen[q] # None =>
              /\ seen[q] <= 2
              /\ Campaigning(r) => seen[q] <= failures[r] + Ahead(r)

(* After two failed campaigns it stands down and starts nothing. *)
GivesUp(r) ==
  failures[r] = 2 =>
    /\ chain[r] = <<>> => ~held[r]
    /\ \A k \in 1..Len(chain[r]) : ~chain[r][k].to

(* A replica that backs off neither leads nor claims. *)
BacksOff(r) == backoff[r] > 0 => ~Leads(r) /\ claim[r].at = "idle"

OneLeader ==
  \A r \in Replicas :
    KeepsLease(r) /\ GivesUp(r) /\ BacksOff(r) /\ stopFailed[r] = {}

(* All of it together: the invariant of an election nothing slows down. *)
Elected == LeaseSafe /\ Punctual /\ OrderKept /\ Stoppable /\ OneLeader

(* No two lead. *)
LEMMA LeadersAgree ==
  ASSUME OneLeader, NEW r \in Replicas, Leads(r), NEW q \in Replicas, Leads(q)
  PROVE  q = r
BY DEF OneLeader, KeepsLease

(* A replica with nothing chained has its roles up only if it leads by its *)
(* own books.                                                              *)
LEMMA AtRest ==
  ASSUME LeaseSafe, OneLeader, NEW r \in Replicas, chain[r] = <<>>, Leads(r)
  PROVE  held[r] /\ failures[r] # 2
<1>1. ~Pending(r) /\ up[r] # {}
  BY DEF Leads, Pending
<1>2. phase[r] = "idle" /\ stopFailed[r] = {} /\ GivesUp(r)
  BY DEF LeaseSafe, BooksKept, Books, OneLeader
<1>3. held[r]
  BY <1>1, <1>2 DEF LeaseSafe, BooksKept, Books
<1> QED
  BY <1>2, <1>3 DEF GivesUp

(* While a replica leads, nobody writes its Lease but itself. *)
LEMMA Undisturbed ==
  ASSUME Elected, NEW r \in Replicas, Leads(r), NEW s \in Replicas \ {r},
         StepOf(s)
  PROVE  lease' = r /\ claim'[r] = claim[r]
<1> USE DEF Elected, LeaseSafe, campaignVars, chainVars
<1>1. lease = r /\ claim[s].at # "replace" /\ r # None
  BY LeaseAssumption DEF OneLeader, KeepsLease
<1>2. ~ClaimWrites(s)
  BY <1>1 DEF ClaimWrites
<1>3. \A o \in Origins : ~ReleaseDelete(s, o)
  BY <1>1 DEF ReleaseDelete, OwnLease
<1>4. claim \in [Replicas -> Claim]
  BY DEF TypeOK
<1>5. CASE ClaimStep(s) \/ ClaimFails(s)
  <2>1. \/ Campaign(s) \/ ClaimRead(s) \/ ClaimRefused(s)
        \/ Settled(s, "failed", claim) /\ UNCHANGED lease
    BY <1>2, <1>5, Zenon DEF ClaimStep, ClaimWrite, ClaimFails
  <2>2. ASSUME NEW res, Settled(s, res, claim)
        PROVE  claim'[r] = claim[r]
    BY <1>4, <2>2, SettledElsewhere
  <2>3. CASE Campaign(s)
    BY <1>1, <1>4, <2>3 DEF Campaign
  <2>4. CASE ClaimRead(s)
    <3>1. \/ \E p : claim' = [claim EXCEPT ![s].at = p]
          \/ Settled(s, "lost", claim)
      BY <2>4, Zenon DEF ClaimRead
    <3>2. UNCHANGED lease
      BY <2>4, Zenon DEF ClaimRead
    <3> QED
      BY <1>1, <1>4, <2>2, <3>1, <3>2
  <2>5. CASE ClaimRefused(s)
    <3>1. \/ claim' = [claim EXCEPT ![s] = [at |-> "read", again |-> TRUE]]
          \/ Settled(s, "lost", claim)
      BY <2>5, Zenon DEF ClaimRefused
    <3>2. UNCHANGED lease
      BY <2>5, Zenon DEF ClaimRefused
    <3> QED
      BY <1>1, <1>4, <2>2, <3>1, <3>2
  <2> QED
    BY <1>1, <2>1, <2>2, <2>3, <2>4, <2>5
<1>6. CASE ReleaseStep(s)
  <2>1. UNCHANGED <<lease, claim>>
    BY <1>3, <1>6, Zenon DEF ReleaseStep, ReleaseRead, ReleaseGivesUp
  <2> QED
    BY <1>1, <2>1
<1>7. CASE ChainStep(s) \/ \E x \in Roles : RoleFailsToStart(s, x)
  <2>1. UNCHANGED <<lease, claim>>
    BY <1>7, Zenon
    DEF ChainStep, TransitionBegins, StartEnds, StandDownEnds, RollbackEnds,
        ReleaseEnds, RoleStarts, RoleStops, RoleFailsToStart
  <2> QED
    BY <1>1, <2>1
<1>8. CASE SetTimer(s) \/ QuitStandsDown(s) \/ Boot(s) \/ Quit(s)
  BY <1>1, <1>4, <1>8 DEF SetTimer, QuitStandsDown, Boot, Quit
<1>9. CASE Dies(s)
  BY <1>1, <1>4, <1>9 DEF Dies
<1> QED
  BY <1>5, <1>6, <1>7, <1>8, <1>9
  DEF StepOf, Disturbance, ProcessStep, Exit, Crash

(* A step of another replica keeps its distance: it takes the Lease of the *)
(* leader for itself only if it has stood for three ticks.                 *)
LEMMA KeepsFromOthers ==
  ASSUME Elected, NEW r \in Replicas, NEW s \in Replicas \ {r}, StepOf(s)
  PROVE  KeepsLease(r)'
<1> USE DEF Elected, LeaseSafe
<1>1. Elsewhere(r)
  BY StepElsewhere DEF StepOf
<1>2. Leads(r)' => Leads(r)
  BY <1>1 DEF Leads, Pending, Elsewhere, NoTransition
<1> SUFFICES ASSUME Leads(r)
             PROVE  KeepsLease(r)'
  BY <1>2 DEF KeepsLease
<1>3. lease = r /\ lease' = r /\ claim'[r] = claim[r] /\ r # None
  BY Undisturbed, LeaseAssumption DEF OneLeader, KeepsLease
<1>4. /\ proc'[r] = proc[r] /\ failures'[r] = failures[r] /\ due'[r] = due[r]
      /\ failures[r] \in 0..2 /\ Ahead(r)' = Ahead(r) /\ Ahead(r) \in 0..1
  BY <1>1, <1>3 DEF Elsewhere, Ahead, TypeOK
<1>5. Campaigning(r)' => Campaigning(r)
  BY <1>4 DEF Campaigning
<1>6. /\ claim[r].at \notin {"create", "conflict"}
      /\ \A q \in Replicas \ {r} :
           /\ claim[q].at # "replace"
           /\ seen[q] # None =>
                /\ seen[q] <= 2
                /\ Campaigning(r) => seen[q] <= failures[r] + Ahead(r)
  BY DEF OneLeader, KeepsLease
<1>7. ASSUME NEW q \in Replicas \ {r, s}
      PROVE  claim'[q].at # "replace" /\ seen'[q] \in {seen[q], None}
  <2>1. Elsewhere(q)
    BY StepElsewhere DEF StepOf
  <2> QED
    BY <1>6, <2>1 DEF Elsewhere, Outdated
<1>8. claim'[s].at # "replace" /\ seen'[s] \in {seen[s], 0, None}
  <2> USE DEF campaignVars, chainVars
  <2>1. claim[s].at # "replace" /\ s \in Replicas /\ lease \notin {None, s}
    BY <1>3, <1>6
  <2>2. \A o \in Origins : ~ReleaseDelete(s, o)
    BY <1>3 DEF ReleaseDelete, OwnLease
  <2>3. ~ClaimWrites(s)
    BY <2>1 DEF ClaimWrites
  <2>4. claim \in [Replicas -> Claim]
        /\ "lost" \in {"won", "lost", "failed"} /\ "failed" \in {"won", "lost", "failed"}
    BY DEF TypeOK
  <2>5. ASSUME Settled(s, "lost", claim) \/ Settled(s, "failed", claim)
        PROVE  claim'[s].at = "idle"
    BY <2>4, <2>5, SettledHere
  <2>6. CASE Campaign(s)
    BY <2>1, <2>4, <2>6 DEF Campaign
  <2>7. CASE ClaimRead(s)
    <3>1. /\ seen' = [seen EXCEPT ![s] = IF @ = None THEN 0 ELSE @]
          /\ MayTakeOver(s) \/ Settled(s, "lost", claim)
      BY <2>1, <2>7, Zenon DEF ClaimRead
    <3>2. seen'[s] = IF seen[s] = None THEN 0 ELSE seen[s]
      BY <2>1, <3>1 DEF TypeOK
    <3>3. seen[s] # None => seen[s] \in 0..TTL
      BY <2>1 DEF TypeOK
    <3>4. ~MayTakeOver(s)
      BY <1>6, <3>2, <3>3, LeaseAssumption DEF MayTakeOver
    <3> QED
      BY <2>5, <3>1, <3>2, <3>4
  <2>8. CASE ClaimRefused(s)
    <3>1. UNCHANGED seen
          /\ \/ claim' = [claim EXCEPT ![s] = [at |-> "read", again |-> TRUE]]
             \/ Settled(s, "lost", claim)
      BY <2>8, Zenon DEF ClaimRefused
    <3> QED
      BY <2>1, <2>4, <2>5, <3>1
  <2>9. CASE ClaimFails(s)
    <3>1. UNCHANGED seen /\ Settled(s, "failed", claim)
      BY <2>3, <2>9, Zenon DEF ClaimFails
    <3> QED
      BY <2>5, <3>1
  <2>10. CASE ReleaseStep(s)
    <3>1. UNCHANGED <<seen, claim>>
      BY <2>2, <2>10, Zenon DEF ReleaseStep, ReleaseRead, ReleaseGivesUp
    <3> QED
      BY <2>1, <3>1
  <2>11. CASE ChainStep(s) \/ \E x \in Roles : RoleFailsToStart(s, x)
    <3>1. UNCHANGED <<seen, claim>>
      BY <2>11, Zenon
      DEF ChainStep, TransitionBegins, StartEnds, StandDownEnds, RollbackEnds,
          ReleaseEnds, RoleStarts, RoleStops, RoleFailsToStart
    <3> QED
      BY <2>1, <3>1
  <2>12. CASE SetTimer(s) \/ QuitStandsDown(s) \/ Boot(s) \/ Quit(s)
    <3>1. /\ UNCHANGED seen
          /\ \/ UNCHANGED claim
             \/ claim' = [claim EXCEPT ![s] = [at |-> "read", again |-> FALSE]]
      BY <2>12, Zenon DEF SetTimer, QuitStandsDown, Boot, Quit
    <3> QED
      BY <2>1, <2>4, <3>1
  <2>13. CASE Dies(s)
    BY <2>1, <2>4, <2>13 DEF Dies, Idle, TypeOK
  <2> QED
    BY <2>3, <2>6, <2>7, <2>8, <2>9, <2>10, <2>11, <2>12, <2>13
    DEF StepOf, Disturbance, ProcessStep, Exit, Crash, ClaimStep, ClaimWrite
<1>9. ASSUME NEW q \in Replicas \ {r}
      PROVE  /\ claim'[q].at # "replace"
             /\ seen'[q] # None =>
                  /\ seen'[q] <= 2
                  /\ Campaigning(r)' => seen'[q] <= failures'[r] + Ahead(r)'
  <2>1. claim'[q].at # "replace" /\ seen'[q] \in {seen[q], 0, None}
    BY <1>7, <1>8
  <2> QED
    BY <1>4, <1>5, <1>6, <2>1
<1> QED
  BY <1>3, <1>6, <1>9 DEF KeepsLease

(* After a transition has ended, no start is next. *)
LEMMA FinishedLeads ==
  ASSUME TypeOK, NEW r \in Replicas, Ordered(r), chain[r] # <<>>, Finished(r)
  PROVE  /\ ~Pending(r)'
         /\ \A k \in 1..Len(chain'[r]) : ~chain'[r][k].to
<1>1. chain[r] \in Seq(Transition)
  BY DEF TypeOK, Transition
<1>2. /\ \A k \in 1..Len(Tail(chain[r])) : ~Tail(chain[r])[k].to
      /\ Tail(chain[r]) # <<>> => ~Head(Tail(chain[r])).to
  BY <1>1, Popped DEF Ordered, ChainShape
<1> QED
  BY <1>2, FinishedPops DEF Pending

(* A claim that does not win chains no start. *)
LEMMA LostLeads ==
  ASSUME TypeOK, NEW r \in Replicas, chain[r] = <<>>,
         NEW result \in {"lost", "failed"},
         NEW claims \in [Replicas -> Claim], Settled(r, result, claims)
  PROVE  /\ \A k \in 1..Len(chain'[r]) : ~chain'[r][k].to
         /\ chain'[r] # <<>> => ~Head(chain'[r]).to
<1>1. None \in Origins \cup {None} /\ "campaign" \in Origins \cup {None}
  BY DEF Origins
<1>2. result \in {"won", "lost", "failed"} /\ result # "won"
  OBVIOUS
<1>3. chain'[r] = <<>> \/ \E t \in Origins \cup {None} : chain'[r] = Append(<<>>, StandDown(t))
  BY <1>1, <1>2, SettledHere, Zenon
<1>4. ASSUME NEW t \in Origins \cup {None}, chain'[r] = Append(<<>>, StandDown(t))
      PROVE  /\ \A k \in 1..Len(chain'[r]) : ~chain'[r][k].to
             /\ ~Head(chain'[r]).to
  <2>1. StandDown(t) \in Transition /\ StandDown(t).to = FALSE
    BY Transitions
  <2>2. <<>> \in Seq(Transition) /\ Len(<<>>) = 0
    OBVIOUS
  <2>3. Head(chain'[r]) = StandDown(t) /\ Len(chain'[r]) = 1
        /\ \A k \in 1..Len(chain'[r]) :
             chain'[r][k] = IF k = Len(<<>>) + 1 THEN StandDown(t) ELSE <<>>[k]
    BY <1>4, <2>1, <2>2, Appended
  <2>4. \A k \in 1..Len(chain'[r]) : chain'[r][k] = StandDown(t)
    BY <2>2, <2>3
  <2> QED
    BY <2>1, <2>3, <2>4
<1> QED
  BY <1>3, <1>4

(* The stand-down of stop() comes last. *)
LEMMA QuitLeads ==
  ASSUME TypeOK, NEW r \in Replicas, QuitStandsDown(r)
  PROVE  /\ Pending(r)' => Pending(r)
         /\ chain'[r] # <<>>
         /\ (\A k \in 1..Len(chain[r]) : ~chain[r][k].to) =>
              \A k \in 1..Len(chain'[r]) : ~chain'[r][k].to
<1>1. "stop" \in Origins \cup {None}
  BY DEF Origins
<1>2. /\ chain[r] \in Seq(Transition) /\ StandDown("stop") \in Transition
      /\ StandDown("stop").to = FALSE
  BY <1>1, Transitions DEF TypeOK, Transition
<1>3. chain'[r] = Append(chain[r], StandDown("stop")) /\ UNCHANGED phase
  BY ChainedAppends DEF QuitStandsDown, StandDown
<1>4. Len(chain'[r]) = Len(chain[r]) + 1 /\ Len(chain[r]) \in Nat
      /\ \A k \in 1..Len(chain'[r]) :
           chain'[r][k] = IF k = Len(chain[r]) + 1 THEN StandDown("stop") ELSE chain[r][k]
  BY <1>2, <1>3, Appended
<1>5. /\ chain[r] = <<>> => ~Head(chain'[r]).to
      /\ chain[r] # <<>> => Head(chain'[r]) = Head(chain[r])
      /\ chain'[r] # <<>>
  BY <1>2, <1>3, Appended
<1>6. Pending(r)' => Pending(r)
  BY <1>3, <1>5 DEF Pending
<1>7. ASSUME \A k \in 1..Len(chain[r]) : ~chain[r][k].to,
             NEW k \in 1..Len(chain'[r])
      PROVE  ~chain'[r][k].to
  <2>1. CASE k = Len(chain[r]) + 1
    BY <1>2, <1>4, <2>1
  <2>2. CASE k # Len(chain[r]) + 1
    BY <1>4, <1>7, <2>2
  <2> QED
    BY <2>1, <2>2
<1> QED
  BY <1>5, <1>6, <1>7

(* A replica comes to lead only by winning its claim. *)
LEMMA LeadsByClaim ==
  ASSUME Elected, NEW r \in Replicas, StepOf(r), Leads(r)', ~Leads(r)
  PROVE  ClaimWrite(r)
<1> USE DEF Elected, LeaseSafe, campaignVars, chainVars
<1>1. Ordered(r) /\ (phase[r] # "idle" => chain[r] # <<>>)
  BY DEF OrderKept, BooksKept, Books
<1>2. up[r] = {} /\ ~Pending(r)
  BY DEF Leads
<1>3. "lost" \in {"lost", "failed"} /\ "failed" \in {"lost", "failed"}
  OBVIOUS
<1>4. claim \in [Replicas -> Claim] /\ ClaimsAfterWrite \in [Replicas -> Claim]
  BY ClaimsWritten DEF TypeOK
<1>5. CASE ClaimStep(r) \/ ClaimFails(r)
  <2>1. UNCHANGED <<up, phase>>
    BY <1>5, Zenon DEF ClaimStep, Campaign, ClaimRead, ClaimWrite,
                       ClaimRefused, ClaimFails
  <2>2. UNCHANGED chain => ~Leads(r)'
    BY <1>2, <2>1 DEF Leads, Pending
  <2>3. Campaign(r) \/ claim[r].at # "idle"
    BY <1>5 DEF ClaimStep, ClaimRead, ClaimWrite, ClaimWrites,
                ClaimRefused, ClaimFails
  <2>4. Campaign(r) => UNCHANGED chain
    BY Zenon DEF Campaign
  <2>5. \/ UNCHANGED chain
        \/ Settled(r, "lost", claim)
        \/ Settled(r, "failed", claim)
        \/ Settled(r, "failed", ClaimsAfterWrite)
        \/ ClaimWrite(r)
    BY <1>5, Zenon DEF ClaimStep, Campaign, ClaimRead, ClaimRefused, ClaimFails
  <2>6. ASSUME NEW result \in {"lost", "failed"},
               NEW claims \in {claim, ClaimsAfterWrite},
               Settled(r, result, claims), claim[r].at # "idle"
        PROVE  ~Leads(r)'
    <3>1. chain[r] = <<>> /\ claims \in [Replicas -> Claim]
      BY <1>1, <1>4, <2>6 DEF Ordered, OneCampaign
    <3>2. chain'[r] # <<>> => ~Head(chain'[r]).to
      BY <2>6, <3>1, LostLeads
    <3> QED
      BY <1>2, <2>1, <3>2 DEF Leads, Pending
  <2>7. claim \in {claim, ClaimsAfterWrite} /\ ClaimsAfterWrite \in {claim, ClaimsAfterWrite}
    OBVIOUS
  <2> QED
    BY <1>3, <2>2, <2>3, <2>4, <2>5, <2>6, <2>7
<1>6. ASSUME chain[r] # <<>>, Finished(r), UNCHANGED up
      PROVE  FALSE
  BY <1>1, <1>2, <1>6, FinishedLeads DEF Leads
<1>7. CASE TransitionBegins(r)
  <2>1. phase[r] = "idle" /\ chain[r] # <<>>
    BY <1>7, Zenon DEF TransitionBegins
  <2>2. CASE Finished(r) /\ UNCHANGED up
    BY <1>6, <2>1, <2>2
  <2>3. CASE /\ phase' = [phase EXCEPT ![r] = IF Head(chain[r]).to THEN "start" ELSE "stop"]
             /\ up' = [up EXCEPT ![r] = IF Head(chain[r]).to THEN Roles ELSE @]
    <3>1. ~Head(chain[r]).to
      BY <1>2, <2>1 DEF Pending
    <3>2. phase'[r] = "stop" /\ up'[r] = up[r]
      BY <2>3, <3>1 DEF TypeOK
    <3> QED
      BY <1>2, <3>2 DEF Leads, Pending
  <2> QED
    BY <1>7, <2>2, <2>3, Zenon DEF TransitionBegins
<1>8. CASE StartEnds(r) \/ StandDownEnds(r) \/ ReleaseEnds(r)
  <2>1. UNCHANGED up /\ phase[r] # "idle"
    BY <1>8 DEF StartEnds, StandDownEnds, ReleaseEnds
  <2>2. Finished(r) \/ phase' = [phase EXCEPT ![r] = "rollback"]
    BY <1>8, Zenon DEF StartEnds, StandDownEnds, ReleaseEnds
  <2>3. CASE Finished(r)
    BY <1>1, <1>6, <2>1, <2>3
  <2>4. CASE phase' = [phase EXCEPT ![r] = "rollback"]
    <3>1. phase'[r] = "rollback"
      BY <2>4 DEF TypeOK
    <3> QED
      BY <1>2, <2>1, <3>1 DEF Leads, Pending
  <2> QED
    BY <2>2, <2>3, <2>4
<1>9. CASE RollbackEnds(r)
  <2>1. UNCHANGED up /\ phase'[r] = "release"
    BY <1>9 DEF RollbackEnds, TypeOK
  <2> QED
    BY <1>2, <2>1 DEF Leads, Pending
<1>10. ASSUME NEW x \in Roles,
              RoleStarts(r, x) \/ RoleStops(r, x) \/ RoleFailsToStart(r, x)
       PROVE  FALSE
  <2>1. UNCHANGED <<phase, chain>>
    BY <1>10, Zenon DEF RoleStarts, RoleStops, RoleFailsToStart
  <2>2. up'[r] \subseteq up[r]
    BY <1>10 DEF RoleStarts, RoleStops, RoleFailsToStart, TypeOK
  <2> QED
    BY <1>2, <2>1, <2>2 DEF Leads, Pending
<1>11. CASE ReleaseStep(r) \/ SetTimer(r) \/ Boot(r) \/ Quit(r)
  <2>1. UNCHANGED <<phase, chain, up>>
    BY <1>11, Zenon DEF ReleaseStep, ReleaseRead, ReleaseDelete, ReleaseGivesUp,
                        SetTimer, Boot, Quit
  <2> QED
    BY <1>2, <2>1 DEF Leads, Pending
<1>12. CASE QuitStandsDown(r)
  <2>1. UNCHANGED up
    BY <1>12, Zenon DEF QuitStandsDown
  <2> QED
    BY <1>2, <1>12, <2>1, QuitLeads DEF Leads
<1>13. CASE Dies(r)
  <2>1. up'[r] = {}
    BY <1>13 DEF Dies, TypeOK
  <2>2. chain'[r] = <<>>
    BY <1>13 DEF Dies, TypeOK
  <2> QED
    BY <2>1, <2>2 DEF Leads, Pending
<1> QED
  BY <1>5, <1>7, <1>8, <1>9, <1>10, <1>11, <1>12, <1>13
  DEF StepOf, Disturbance, ProcessStep, Exit, Crash, ChainStep

(* A write of the Lease starts everybody's count anew. *)
LEMMA WriteKeeps ==
  ASSUME TypeOK, NEW r \in Replicas, Written(r), claim'[r].at = "idle",
         \A q \in Replicas \ {r} : claim'[q] = ClaimsAfterWrite[q]
  PROVE  KeepsLease(r)'
<1>1. lease' = r /\ \A q \in Replicas : seen'[q] = None
  BY DEF Written
<1>2. \A q \in Replicas \ {r} : claim'[q].at # "replace"
  BY OutdatedCalls DEF Outdated
<1> QED
  BY <1>1, <1>2 DEF KeepsLease

(* A replica that leads does not give its Lease back. *)
LEMMA LeaderKeeps ==
  ASSUME Elected, NEW r \in Replicas, Leads(r)
  PROVE  \A o \in Origins : release[r][o] # "delete"
<1> SUFFICES ASSUME NEW o \in Origins, release[r][o] = "delete"
             PROVE  FALSE
  OBVIOUS
<1>1. ~Pending(r) /\ ~held[r] /\ phase[r] \in {"idle", "release"}
      /\ stopFailed[r] = {}
  BY DEF Elected, OrderKept, Ordered, ReleaseShape
<1>2. up[r] = {}
  BY <1>1 DEF Elected, LeaseSafe, BooksKept, Books
<1> QED
  BY <1>1, <1>2 DEF Leads

(* Its own steps: a campaign that fails is counted before it is over. *)
LEMMA KeepsOwn ==
  ASSUME Elected, NEW r \in Replicas, StepOf(r)
  PROVE  KeepsLease(r)'
<1> USE DEF Elected, LeaseSafe, campaignVars, chainVars
<1>1. claim \in [Replicas -> Claim] /\ ClaimsAfterWrite \in [Replicas -> Claim]
      /\ "won" \in {"won", "lost", "failed"} /\ "failed" \in {"won", "lost", "failed"}
  BY ClaimsWritten DEF TypeOK
<1>2. ASSUME Written(r), NEW result \in {"won", "failed"},
             Settled(r, result, ClaimsAfterWrite)
      PROVE  KeepsLease(r)'
  <2>1. result \in {"won", "lost", "failed"}
    BY <1>2
  <2>2. claim'[r].at = "idle"
    BY <1>1, <1>2, <2>1, SettledHere
  <2>3. \A q \in Replicas \ {r} : claim'[q] = ClaimsAfterWrite[q]
    BY <1>1, <1>2, SettledElsewhere
  <2> QED
    BY <1>2, <2>2, <2>3, WriteKeeps
<1>3. "won" \in {"won", "failed"} /\ "failed" \in {"won", "failed"}
  OBVIOUS
<1>4. CASE ClaimWrite(r)
  BY <1>2, <1>3, <1>4 DEF ClaimWrite
<1>5. CASE /\ Written(r) /\ Settled(r, "failed", ClaimsAfterWrite)
  BY <1>2, <1>3, <1>5
<1> SUFFICES ASSUME Leads(r), Leads(r)', ~ClaimWrite(r),
                    ~(Written(r) /\ Settled(r, "failed", ClaimsAfterWrite))
             PROVE  KeepsLease(r)'
  BY <1>4, <1>5, LeadsByClaim DEF KeepsLease
<1>6. /\ lease = r /\ r # None /\ claim[r].at \notin {"create", "conflict"}
      /\ \A q \in Replicas \ {r} :
           /\ claim[q].at # "replace"
           /\ seen[q] # None =>
                /\ seen[q] <= 2
                /\ Campaigning(r) => seen[q] <= failures[r] + Ahead(r)
  BY LeaseAssumption DEF OneLeader, KeepsLease
<1>7. ~Dies(r)
  <2>1. ASSUME Dies(r)
        PROVE  up'[r] = {} /\ chain'[r] = <<>>
    BY <2>1 DEF Dies, TypeOK
  <2> QED
    BY <2>1 DEF Leads, Pending
<1>8. \A o \in Origins : ~ReleaseDelete(r, o)
  BY LeaderKeeps DEF ReleaseDelete
<1>9. Live(r)
  BY DEF DownIsClean, Leads, Pending, Live
<1>10. Ordered(r) /\ BacksOff(r) /\ failures[r] \in 0..2 /\ backoff[r] \in Nat
  <2>1. PICK m \in Nat : m = TTL * BackoffMax
    BY LeaseAssumption
  <2> QED
    BY <2>1 DEF OrderKept, OneLeader, TypeOK
<1> DEFINE Counted ==
      /\ lease' = r /\ claim'[r].at \notin {"create", "conflict"}
      /\ Campaigning(r)' =>
           /\ Campaigning(r)
           /\ \/ failures'[r] = 2
              \/ failures[r] + Ahead(r) <= failures'[r] + Ahead(r)'
           /\ failures'[r] \in 0..2 /\ Ahead(r)' \in 0..1
<1>11. ASSUME UNCHANGED lease, claim'[r] = claim[r], due'[r] = due[r],
              failures'[r] = failures[r],
              proc'[r] = proc[r] \/ ~Campaigning(r)' \/ Campaigning(r)
       PROVE  Counted
  <2>1. Ahead(r)' = Ahead(r) /\ Ahead(r) \in 0..1
    BY <1>11 DEF Ahead
  <2> QED
    BY <1>6, <1>10, <1>11, <2>1 DEF Campaigning
<1>12. Counted
  <2>1. CASE Campaign(r)
    <3>1. due[r] /\ ~(backoff[r] > 0)
      BY <1>10, <2>1 DEF Campaign, BacksOff
    <3>2. UNCHANGED <<lease, proc, failures>> /\ claim'[r].at = "read"
      BY <1>1, <2>1, <3>1 DEF Campaign
    <3>3. Ahead(r) = 1 /\ Ahead(r)' = 1
      BY <3>1, <3>2 DEF Ahead
    <3> QED
      BY <1>6, <1>10, <3>2, <3>3 DEF Campaigning
  <2>2. CASE ClaimRead(r)
    <3>1. claim' = [claim EXCEPT ![r].at = "replace"] /\ claim[r].at = "read"
          /\ UNCHANGED <<lease, proc, failures>>
      BY <1>6, <2>2, Zenon DEF ClaimRead
    <3>2. claim'[r].at = "replace"
      BY <1>1, <3>1 DEF Claim
    <3>3. Ahead(r) = 1 /\ Ahead(r)' = 1
      BY <3>1, <3>2 DEF Ahead
    <3> QED
      BY <1>6, <1>10, <3>1, <3>2, <3>3 DEF Campaigning
  <2>3. CASE ClaimFails(r)
    <3>1. /\ Settled(r, "failed", claim) /\ UNCHANGED <<lease, proc, due>>
          /\ claim[r].at # "idle"
      BY <2>3, Zenon DEF ClaimFails
    <3>2. claim'[r].at = "idle" /\ ~due[r]
      BY <1>1, <1>10, <3>1, SettledHere DEF Ordered, OneCampaign
    <3>3. Campaigning(r) =>
            failures'[r] = IF failures[r] < 2 THEN failures[r] + 1 ELSE 2
      BY <1>1, <3>1, SettledHere
    <3>4. Ahead(r) = 1 /\ Ahead(r)' = 0
      BY <3>1, <3>2 DEF Ahead
    <3> QED
      BY <1>6, <1>10, <3>1, <3>2, <3>3, <3>4 DEF Campaigning
  <2>4. CASE ClaimRefused(r)
    BY <1>6, <2>4 DEF ClaimRefused
  <2>5. CASE ReleaseStep(r)
    <3>1. UNCHANGED <<lease, proc, claim, due, failures>>
      BY <1>8, <2>5, Zenon DEF ReleaseStep, ReleaseRead, ReleaseGivesUp
    <3> QED
      BY <1>11, <3>1
  <2>6. CASE ChainStep(r) \/ \E x \in Roles : RoleFailsToStart(r, x)
    <3>1. UNCHANGED <<lease, proc, claim, due, failures>>
      BY <2>6, Zenon
      DEF ChainStep, TransitionBegins, StartEnds, StandDownEnds, RollbackEnds,
          ReleaseEnds, RoleStarts, RoleStops, RoleFailsToStart
    <3> QED
      BY <1>11, <3>1
  <2>7. CASE SetTimer(r)
    <3>1. UNCHANGED <<lease, claim, due, failures>> /\ Campaigning(r)
      BY <2>7 DEF SetTimer, Campaigning
    <3> QED
      BY <1>11, <3>1
  <2>8. CASE Quit(r) \/ QuitStandsDown(r)
    <3>1. UNCHANGED <<lease, claim>> /\ ~Campaigning(r)'
      BY <2>8 DEF Quit, QuitStandsDown, Campaigning, TypeOK
    <3> QED
      BY <1>6, <3>1
  <2>9. ~Boot(r)
    BY <1>9 DEF Boot, Live
  <2> QED
    BY <1>7, <2>1, <2>2, <2>3, <2>4, <2>5, <2>6, <2>7, <2>8, <2>9
    DEF StepOf, Disturbance, ProcessStep, Exit, Crash, ClaimStep
<1>13. ASSUME NEW q \in Replicas \ {r}
       PROVE  /\ claim'[q].at # "replace"
              /\ seen'[q] # None =>
                   /\ seen'[q] <= 2
                   /\ Campaigning(r)' => seen'[q] <= failures'[r] + Ahead(r)'
  <2>1. Elsewhere(q)
    BY StepElsewhere DEF StepOf
  <2>2. claim'[q].at # "replace" /\ seen'[q] \in {seen[q], None}
    BY <1>6, <2>1 DEF Elsewhere, Outdated
  <2>3. Ahead(r) \in 0..1
    BY DEF Ahead
  <2>4. seen[q] # None => seen[q] \in 0..TTL
    BY DEF TypeOK
  <2> QED
    BY <1>6, <1>10, <1>12, <2>2, <2>3, <2>4, LeaseAssumption
<1> QED
  BY <1>12, <1>13 DEF KeepsLease

(* A tick: the leader's campaigns have failed at most once, so the others  *)
(* have seen its Lease for one tick at most, and its next one is due.      *)
LEMMA TickKeeps ==
  ASSUME Elected, NEW r \in Replicas, Tick
  PROVE  KeepsLease(r)'
<1> USE DEF Elected, LeaseSafe
<1>1. UNCHANGED <<lease, proc, release, claim, failures, held, chain,
                  phase, todo, broken, running, stopFailed, refused, up>>
  BY Zenon DEF Tick
<1> SUFFICES ASSUME Leads(r)
             PROVE  KeepsLease(r)'
  BY <1>1 DEF KeepsLease, Leads, Pending
<1>2. \A q \in Replicas : chain[q] = <<>> /\ claim[q].at = "idle" /\ ~due[q]
  BY TickEnds
<1>3. failures[r] \in 0..1
  <2>1. failures[r] # 2
    BY <1>2, AtRest
  <2>2. failures[r] \in 0..2
    BY DEF TypeOK
  <2> QED
    BY <2>1, <2>2
<1>4. proc[r] = "up"
  <2>1. Live(r)
    BY DEF DownIsClean, Leads, Pending, Live
  <2>2. Quiet(r)
    BY <1>2, TickEnds DEF Quiet
  <2>3. TickIsOver(r)
    BY DEF Tick
  <2> QED
    BY <2>1, <2>2, <2>3 DEF TickIsOver, Live, TypeOK
<1>5. due'[r]
  BY <1>4, Zenon DEF Tick
<1>6. Ahead(r) = 0 /\ Ahead(r)' = 1
  BY <1>2, <1>5 DEF Ahead
<1>7. ASSUME NEW q \in Replicas \ {r}
      PROVE  seen'[q] # None =>
               seen'[q] <= 2 /\ seen'[q] <= failures'[r] + Ahead(r)'
  <2>1. seen'[q] = Older(seen[q])
    BY DEF Tick
  <2>2. CASE seen[q] = None
    BY <2>1, <2>2 DEF Older
  <2>3. CASE seen[q] # None
    <3>1. seen[q] \in 0..TTL /\ Campaigning(r)
      BY <1>4, <2>3 DEF TypeOK, Campaigning
    <3>2. seen[q] <= failures[r] + Ahead(r)
      BY <2>3, <3>1 DEF OneLeader, KeepsLease
    <3>3. seen'[q] \in Nat /\ seen'[q] <= seen[q] + 1
      BY <2>1, <2>3, <3>1, LeaseAssumption DEF Older
    <3> QED
      BY <1>1, <1>3, <1>6, <3>1, <3>2, <3>3, LeaseAssumption
  <2> QED
    BY <2>2, <2>3
<1>8. lease = r
  BY DEF OneLeader, KeepsLease
<1> QED
  BY <1>1, <1>2, <1>7, <1>8 DEF KeepsLease

---------------------------------------------------------------------------
(* The rest of OneLeader, one part at a time. *)
LEMMA GivesUpStep ==
  ASSUME Elected, NEW r \in Replicas, StepOf(r)
  PROVE  GivesUp(r)'
<1> USE DEF Elected, LeaseSafe, campaignVars, chainVars
<1>1. Ordered(r) /\ GivesUp(r) /\ Books(r)
  BY DEF OrderKept, OneLeader, BooksKept
<1>2. claim \in [Replicas -> Claim] /\ ClaimsAfterWrite \in [Replicas -> Claim]
  BY ClaimsWritten DEF TypeOK
<1>3. ASSUME UNCHANGED failures, UNCHANGED chain, UNCHANGED held
      PROVE  GivesUp(r)'
  BY <1>1, <1>3 DEF GivesUp
<1>4. ASSUME claim[r].at # "idle", UNCHANGED held,
             NEW result \in {"won", "lost", "failed"},
             NEW claims \in {claim, ClaimsAfterWrite},
             Settled(r, result, claims)
      PROVE  GivesUp(r)'
  <2>1. chain[r] = <<>> /\ claims \in [Replicas -> Claim]
    BY <1>1, <1>2, <1>4 DEF Ordered, OneCampaign
  <2>2. CASE ~Campaigning(r)
    BY <1>1, <1>4, <2>1, <2>2, SettledHere DEF GivesUp
  <2>3. CASE Campaigning(r) /\ result \in {"won", "lost"}
    <3>1. failures'[r] = 0
      BY <1>4, <2>1, <2>3, SettledHere
    <3> QED
      BY <3>1 DEF GivesUp
  <2>4. CASE Campaigning(r) /\ result = "failed"
    <3>1. result \in {"lost", "failed"}
      BY <2>4
    <3>2. \A k \in 1..Len(chain'[r]) : ~chain'[r][k].to
      BY <1>4, <2>1, <3>1, LostLeads
    <3>3. chain'[r] = IF held[r] /\ failures'[r] >= 2
                        THEN Append(chain[r], StandDown("campaign"))
                        ELSE chain[r]
      BY <1>4, <2>1, <2>4, SettledHere
    <3>4. Append(<<>>, StandDown("campaign")) # <<>>
      <4>1. "campaign" \in Origins \cup {None} /\ <<>> \in Seq(Transition)
        BY DEF Origins
      <4> QED
        BY <4>1, Transitions, Appended
    <3>5. failures'[r] = 2 /\ chain'[r] = <<>> => ~held[r]
      <4>1. CASE held[r] /\ failures'[r] >= 2
        BY <3>3, <3>4, <4>1
      <4>2. CASE ~(held[r] /\ failures'[r] >= 2)
        BY <4>2
      <4> QED
        BY <4>1, <4>2
    <3> QED
      BY <1>4, <3>2, <3>5 DEF GivesUp
  <2> QED
    BY <1>4, <2>2, <2>3, <2>4
<1>5. ASSUME chain[r] # <<>>, Finished(r), UNCHANGED failures, failures[r] = 2 => ~held'[r]
      PROVE  GivesUp(r)'
  BY <1>1, <1>5, FinishedLeads DEF GivesUp
<1>6. CASE ClaimStep(r) \/ ClaimFails(r)
  <2>1. "won" \in {"won", "lost", "failed"} /\ "lost" \in {"won", "lost", "failed"}
        /\ "failed" \in {"won", "lost", "failed"}
        /\ claim \in {claim, ClaimsAfterWrite}
        /\ ClaimsAfterWrite \in {claim, ClaimsAfterWrite}
    OBVIOUS
  <2>2. UNCHANGED held
    BY <1>6, Zenon DEF ClaimStep, Campaign, ClaimRead, ClaimWrite,
                       ClaimRefused, ClaimFails
  <2>3. Campaign(r) \/ claim[r].at # "idle"
    BY <1>6 DEF ClaimStep, ClaimRead, ClaimWrite, ClaimWrites,
                ClaimRefused, ClaimFails
  <2>4. Campaign(r) => UNCHANGED <<failures, chain>>
    BY Zenon DEF Campaign
  <2>5. \/ UNCHANGED <<failures, chain>>
        \/ Settled(r, "lost", claim)
        \/ Settled(r, "failed", claim)
        \/ Settled(r, "failed", ClaimsAfterWrite)
        \/ Settled(r, "won", ClaimsAfterWrite)
    BY <1>6, Zenon DEF ClaimStep, Campaign, ClaimRead, ClaimWrite, ClaimRefused, ClaimFails
  <2> QED
    BY <1>3, <1>4, <2>1, <2>2, <2>3, <2>4, <2>5
<1>7. CASE TransitionBegins(r)
  <2>1. phase[r] = "idle" /\ chain[r] # <<>> /\ UNCHANGED failures
    BY <1>7, Zenon DEF TransitionBegins
  <2>2. failures[r] = 2 => ~Head(chain[r]).to
    <3>1. chain[r] \in Seq(Transition)
      BY DEF TypeOK, Transition
    <3>2. 1 \in 1..Len(chain[r]) /\ Head(chain[r]) = chain[r][1]
      BY <2>1, <3>1
    <3> QED
      BY <1>1, <3>2 DEF GivesUp
  <2>3. CASE held[r] = Head(chain[r]).to /\ Finished(r) /\ UNCHANGED held
    BY <1>5, <2>1, <2>2, <2>3
  <2>4. CASE UNCHANGED chain
    BY <1>1, <2>1, <2>4 DEF GivesUp
  <2> QED
    BY <1>7, <2>3, <2>4, Zenon DEF TransitionBegins
<1>8. CASE StartEnds(r)
  <2>1. phase[r] = "start" /\ UNCHANGED <<failures, held>>
    BY <1>8, Zenon DEF StartEnds
  <2>2. UNCHANGED chain \/ Finished(r)
    BY <1>8, Zenon DEF StartEnds
  <2>3. chain[r] # <<>> /\ Head(chain[r]).to
    BY <1>1, <2>1 DEF Books, Ordered, ChainShape
  <2>4. failures[r] # 2
    <3>1. chain[r] \in Seq(Transition)
      BY DEF TypeOK, Transition
    <3>2. 1 \in 1..Len(chain[r]) /\ Head(chain[r]) = chain[r][1]
      BY <2>3, <3>1
    <3> QED
      BY <1>1, <2>3, <3>2 DEF GivesUp
  <2> QED
    BY <1>3, <1>5, <2>1, <2>2, <2>3, <2>4
<1>9. CASE StandDownEnds(r) \/ ReleaseEnds(r)
  <2>1. phase[r] \in {"stop", "release"} /\ UNCHANGED <<failures, held>> /\ Finished(r)
    BY <1>9 DEF StandDownEnds, ReleaseEnds
  <2>2. ~held[r] /\ chain[r] # <<>>
    BY <1>1, <2>1 DEF Books
  <2> QED
    BY <1>5, <2>1, <2>2
<1>10. CASE RollbackEnds(r)
  <2>1. UNCHANGED <<failures, chain>> /\ phase[r] = "rollback"
    BY <1>10, Zenon DEF RollbackEnds
  <2> QED
    BY <1>1, <2>1 DEF GivesUp, Books
<1>11. CASE \/ ReleaseStep(r) \/ SetTimer(r) \/ Boot(r) \/ Quit(r)
            \/ \E x \in Roles : RoleStarts(r, x) \/ RoleStops(r, x)
                                  \/ RoleFailsToStart(r, x)
  <2>1. UNCHANGED failures /\ UNCHANGED chain /\ UNCHANGED held
    BY <1>11, Zenon
    DEF ReleaseStep, ReleaseRead, ReleaseDelete, ReleaseGivesUp, SetTimer,
        Boot, Quit, RoleStarts, RoleStops, RoleFailsToStart
  <2> QED
    BY <1>3, <2>1
<1>12. CASE QuitStandsDown(r)
  <2>1. UNCHANGED <<failures, held>>
    BY <1>12, Zenon DEF QuitStandsDown
  <2> QED
    BY <1>1, <1>12, <2>1, QuitLeads DEF GivesUp
<1>13. CASE Dies(r)
  <2>1. failures'[r] = 0
    BY <1>13 DEF Dies, TypeOK
  <2> QED
    BY <2>1 DEF GivesUp
<1> QED
  BY <1>6, <1>7, <1>8, <1>9, <1>10, <1>11, <1>12, <1>13
  DEF StepOf, Disturbance, ProcessStep, Exit, Crash, ChainStep

LEMMA BacksOffStep ==
  ASSUME Elected, NEW r \in Replicas, StepOf(r)
  PROVE  BacksOff(r)'
<1> USE DEF Elected, LeaseSafe, campaignVars, chainVars
<1>1. Ordered(r) /\ BacksOff(r) /\ Books(r) /\ stopFailed[r] = {}
  BY DEF OrderKept, OneLeader, BooksKept
<1>2. CASE RollbackEnds(r)
  <2>1. phase[r] = "rollback" /\ todo[r] = {} /\ UNCHANGED <<claim, up>>
    BY <1>2, Zenon DEF RollbackEnds
  <2>2. phase'[r] = "release"
    BY <1>2 DEF RollbackEnds, TypeOK
  <2>3. up[r] = {} /\ chain[r] # <<>>
    BY <1>1, <2>1 DEF Books
  <2>4. claim[r].at = "idle"
    BY <1>1, <2>3 DEF Ordered, OneCampaign
  <2> QED
    BY <2>1, <2>2, <2>3, <2>4 DEF BacksOff, Leads, Pending
<1>3. CASE Dies(r)
  <2>1. backoff'[r] = 0
    BY <1>3 DEF Dies, TypeOK
  <2> QED
    BY <2>1 DEF BacksOff
<1>4. CASE ~RollbackEnds(r) /\ ~Dies(r)
  <2>1. backoff'[r] = backoff[r]
    <3>1. UNCHANGED backoff
      <4>1. CASE ClaimStep(r) \/ ClaimFails(r) \/ ReleaseStep(r)
        BY <4>1, Zenon
        DEF ClaimStep, Campaign, ClaimRead, ClaimWrite, ClaimRefused, ClaimFails,
            ReleaseStep, ReleaseRead, ReleaseDelete, ReleaseGivesUp
      <4>2. CASE ~(ClaimStep(r) \/ ClaimFails(r) \/ ReleaseStep(r))
        BY <1>4, <4>2, Zenon
        DEF StepOf, ChainStep, TransitionBegins, StartEnds, StandDownEnds,
            ReleaseEnds, RoleStarts, RoleStops, Disturbance, RoleFailsToStart,
            ProcessStep, SetTimer, QuitStandsDown, Exit, Boot, Quit, Crash
      <4> QED
        BY <4>1, <4>2
    <3> QED
      BY <3>1
  <2> SUFFICES ASSUME backoff[r] > 0
               PROVE  BacksOff(r)'
    BY <2>1 DEF BacksOff
  <2>2. ~Leads(r) /\ claim[r].at = "idle"
    BY <1>1 DEF BacksOff
  <2>3. ~ClaimRead(r) /\ ~ClaimWrite(r) /\ ~ClaimRefused(r) /\ ~ClaimFails(r)
    BY <2>2 DEF ClaimRead, ClaimWrite, ClaimWrites, ClaimRefused, ClaimFails
  <2>4. ~Leads(r)'
    BY <2>2, <2>3, LeadsByClaim
  <2>5. ~Boot(r)
    BY DEF Boot, DownIsClean
  <2>6. claim'[r].at = "idle"
    <3>1. CASE ReleaseStep(r)
      <4>1. UNCHANGED claim \/ claim' = ClaimsAfterWrite
        BY <3>1, Zenon DEF ReleaseStep, ReleaseRead, ReleaseDelete, ReleaseGivesUp
      <4> QED
        BY <2>2, <4>1, OutdatedCalls DEF Outdated
    <3>2. CASE ~ReleaseStep(r)
      <4>1. UNCHANGED claim
        <5>1. CASE Campaign(r)
          BY <5>1 DEF Campaign
        <5>2. CASE ~Campaign(r)
          BY <1>4, <2>3, <2>5, <3>2, <5>2, Zenon
          DEF StepOf, ClaimStep, ChainStep, TransitionBegins, StartEnds, StandDownEnds,
              ReleaseEnds, RoleStarts, RoleStops, Disturbance, RoleFailsToStart,
              ProcessStep, SetTimer, QuitStandsDown, Exit, Quit, Crash
        <5> QED
          BY <5>1, <5>2
      <4> QED
        BY <2>2, <4>1
    <3> QED
      BY <3>1, <3>2
  <2> QED
    BY <2>4, <2>6 DEF BacksOff
<1> QED
  BY <1>2, <1>3, <1>4

(* No stop fails. *)
LEMMA StopsStep ==
  ASSUME Elected, NEW r \in Replicas, StepOf(r)
  PROVE  stopFailed'[r] = {}
<1> USE DEF Elected, LeaseSafe, campaignVars, chainVars
<1>1. stopFailed[r] = {} /\ ~Spend("stop")
  BY DEF OneLeader, Spend, Stoppable
<1>2. UNCHANGED stopFailed \/ Dies(r)
      \/ \E x \in Roles : stopFailed' = [stopFailed EXCEPT ![r] = @ \ {x}]
  <2>1. CASE ClaimStep(r) \/ ClaimFails(r) \/ ReleaseStep(r)
    BY <2>1, Zenon
    DEF ClaimStep, Campaign, ClaimRead, ClaimWrite, ClaimRefused, ClaimFails,
        ReleaseStep, ReleaseRead, ReleaseDelete, ReleaseGivesUp
  <2>2. CASE ~(ClaimStep(r) \/ ClaimFails(r) \/ ReleaseStep(r))
    BY <1>1, <2>2, Zenon
    DEF StepOf, ChainStep, TransitionBegins, StartEnds, StandDownEnds, RollbackEnds,
        ReleaseEnds, RoleStarts, RoleStops, Disturbance, RoleFailsToStart,
        ProcessStep, SetTimer, QuitStandsDown, Exit, Boot, Quit, Crash
  <2> QED
    BY <2>1, <2>2
<1> QED
  BY <1>1, <1>2 DEF Dies, TypeOK

LEMMA StoppableStep ==
  ASSUME TypeOK, Stoppable, [Next]_vars
  PROVE  Stoppable'
<1>1. ASSUME NEW d \in Disturbances, Spend(d)
      PROVE  Stoppable'
  <2>1. d # "stop"
    BY <1>1 DEF Spend, Stoppable
  <2>2. "stop" \in Disturbances
    BY DEF Disturbances
  <2> QED
    BY <1>1, <2>1, <2>2 DEF Spend, Stoppable, TypeOK
<1>2. CASE UNCHANGED left
  BY <1>2 DEF Stoppable
<1> QED
  BY <1>1, <1>2, LeftSpent

LEMMA OneLeaderElsewhere ==
  ASSUME NEW q \in Replicas, Elsewhere(q),
         GivesUp(q), BacksOff(q), stopFailed[q] = {}
  PROVE  GivesUp(q)' /\ BacksOff(q)' /\ stopFailed'[q] = {}
<1>1. /\ failures'[q] = failures[q] /\ chain'[q] = chain[q]
      /\ held'[q] = held[q] /\ stopFailed'[q] = stopFailed[q]
      /\ backoff'[q] = backoff[q] /\ phase'[q] = phase[q] /\ up'[q] = up[q]
  BY DEF Elsewhere, NoTransition
<1>2. claim[q].at = "idle" => claim'[q].at = "idle"
  BY DEF Elsewhere, Outdated
<1> QED
  BY <1>1, <1>2 DEF GivesUp, BacksOff, Leads, Pending

LEMMA ElectedNext ==
  ASSUME Elected, [Next]_vars
  PROVE  Elected'
<1>1. LeaseSafe' /\ Punctual' /\ OrderKept' /\ Stoppable'
  BY LeaseNext, PunctualStep, OrderNext, StoppableStep DEF Elected, LeaseSafe
<1>2. ASSUME NEW r \in Replicas, StepOf(r)
      PROVE  OneLeader'
  <2>1. ASSUME NEW q \in Replicas, q # r
        PROVE  KeepsLease(q)' /\ GivesUp(q)' /\ BacksOff(q)' /\ stopFailed'[q] = {}
    <3>1. KeepsLease(q)'
      BY <1>2, <2>1, KeepsFromOthers
    <3>2. Elsewhere(q)
      BY <1>2, <2>1, StepElsewhere DEF StepOf, Elected, LeaseSafe
    <3>3. GivesUp(q) /\ BacksOff(q) /\ stopFailed[q] = {}
      BY DEF Elected, OneLeader
    <3> QED
      BY <3>1, <3>2, <3>3, OneLeaderElsewhere
  <2>2. KeepsLease(r)' /\ GivesUp(r)' /\ BacksOff(r)' /\ stopFailed'[r] = {}
    BY <1>2, KeepsOwn, GivesUpStep, BacksOffStep, StopsStep
  <2> QED
    BY <2>1, <2>2 DEF OneLeader
<1>3. ASSUME Tick
      PROVE  OneLeader'
  <2>1. UNCHANGED <<failures, held, chain, phase, claim, stopFailed, up>>
    BY <1>3, Zenon DEF Tick
  <2>2. ASSUME NEW r \in Replicas
        PROVE  KeepsLease(r)' /\ GivesUp(r)' /\ BacksOff(r)' /\ stopFailed'[r] = {}
    <3>1. GivesUp(r) /\ BacksOff(r) /\ stopFailed[r] = {}
      BY DEF Elected, OneLeader
    <3>2. backoff[r] \in Nat
      <4>1. PICK m \in Nat : m = TTL * BackoffMax
        BY LeaseAssumption
      <4> QED
        BY <4>1 DEF Elected, LeaseSafe, TypeOK
    <3>3. backoff'[r] > 0 => backoff[r] > 0
      BY <1>3, <3>2 DEF Tick
    <3>4. GivesUp(r)'
      BY <2>1, <3>1 DEF GivesUp
    <3>5. BacksOff(r)'
      BY <2>1, <3>1, <3>3 DEF BacksOff, Leads, Pending
    <3> QED
      BY <1>3, <2>1, <3>1, <3>4, <3>5, TickKeeps
  <2> QED
    BY <2>2 DEF OneLeader
<1>4. ASSUME UNCHANGED vars
      PROVE  OneLeader'
  <2>1. UNCHANGED <<lease, proc, claim, due, seen, failures, backoff, held,
                    chain, phase, stopFailed, up>>
    BY <1>4 DEF vars, campaignVars, chainVars
  <2> QED
    BY <2>1 DEF Elected, OneLeader, KeepsLease, GivesUp, BacksOff, Leads, Pending,
                Ahead, Campaigning
<1>5. OneLeader'
  BY <1>2, <1>3, <1>4, NextIsStepOrTick
<1> QED
  BY <1>1, <1>5 DEF Elected

---------------------------------------------------------------------------
(* The single server *)

LEMMA ServerNow ==
  ASSUME Elected
  PROVE  \/ AtWork = {} /\ TheServer = None
         \/ \E r \in Replicas : AtWork = {r} /\ TheServer = r
<1>1. CASE AtWork = {}
  BY <1>1 DEF TheServer
<1>2. CASE AtWork # {}
  <2>1. PICK r \in Replicas : r \in AtWork
    BY <1>2 DEF AtWork
  <2>2. AtWork = {r}
    BY <2>1, LeadersAgree DEF Elected, AtWork, Leads
  <2>3. Cardinality(AtWork) = 1
    BY <2>2, FS_Singleton
  <2>4. (CHOOSE q \in Replicas : q \in AtWork) = r
    BY <2>2
  <2> QED
    BY <1>2, <2>2, <2>3, <2>4 DEF TheServer
<1> QED
  BY <1>1, <1>2

(* Every step maps to a step of SingleServer or to a stutter. *)
LEMMA ServerStep ==
  ASSUME Elected, [Next]_vars, Elected'
  PROVE  [Single!Next]_TheServer
<1>1. \/ UNCHANGED up
      \/ \E s \in Replicas : \A q \in Replicas \ {s} : up'[q] = up[q]
  <2>1. ASSUME NEW s \in Replicas, StepOf(s)
        PROVE  \A q \in Replicas \ {s} : up'[q] = up[q]
    BY <2>1, StepElsewhere DEF StepOf, Elected, LeaseSafe, Elsewhere, NoTransition
  <2>2. CASE Tick
    BY <2>2, Zenon DEF Tick
  <2>3. CASE UNCHANGED vars
    BY <2>3 DEF vars, chainVars
  <2> QED
    BY <2>1, <2>2, <2>3, NextIsStepOrTick
<1>2. \/ AtWork = {} /\ TheServer = None
      \/ \E r \in Replicas : AtWork = {r} /\ TheServer = r
  BY ServerNow
<1>3. \/ AtWork' = {} /\ TheServer' = None
      \/ \E r \in Replicas : AtWork' = {r} /\ TheServer' = r
  <2>1. (\/ AtWork = {} /\ TheServer = None
         \/ \E r \in Replicas : AtWork = {r} /\ TheServer = r)'
    BY ServerNow, PTL
  <2> QED
    BY <2>1
<1>4. ASSUME NEW r \in Replicas, NEW q \in Replicas, AtWork = {r}, AtWork' = {q}
      PROVE  q = r
  BY <1>1, <1>4 DEF AtWork
<1>5. \A r \in Replicas : r # None
  BY LeaseAssumption
<1> QED
  BY <1>2, <1>3, <1>4, <1>5 DEF Single!Next, Single!Take, Single!Leave

LEMMA ElectedInit ==
  ASSUME Init, left["slow"] = 0, left["stop"] = 0
  PROVE  Elected /\ Single!Init
<1>1. LeaseSafe /\ OrderKept /\ Punctual /\ Stoppable
  BY LeaseInit, OrderInit DEF Punctual, Stoppable
<1>2. OneLeader
  BY DEF Init, OneLeader, KeepsLease, GivesUp, BacksOff, Leads, Pending
<1>3. TheServer = None
  BY DEF Init, TheServer, AtWork
<1> QED
  BY <1>1, <1>2, <1>3 DEF Elected, Single!Init

(* The election implements the single server: at any time at most one      *)
(* replica is at the work, and it has left it before another starts,       *)
(* through crashes, shutdowns, failed starts and any number of campaigns   *)
(* whose calls fail before or after the API server served them, as long as *)
(* starts last less than a campaign's interval and roles can be stopped.   *)
THEOREM OneServerAtATime ==
  Spec /\ left["slow"] = 0 /\ left["stop"] = 0 => Single!Safety
<1>1. Init /\ left["slow"] = 0 /\ left["stop"] = 0 => Elected /\ Single!Init
  BY ElectedInit
<1>2. Elected /\ [Next]_vars => Elected'
  BY ElectedNext
<1>3. Elected /\ [Next]_vars /\ Elected' => [Single!Next]_TheServer
  BY ServerStep
<1> QED
  BY <1>1, <1>2, <1>3, PTL DEF Spec, Single!Safety
=============================================================================
