----------------------------- MODULE LeaderLease ----------------------------
(***************************************************************************)
(* The election of one api-server replica on a Kubernetes Lease            *)
(* (core/leader-lease.ts).                                                 *)
(*                                                                         *)
(* Time moves in ticks of a third of the lease's duration, the interval of *)
(* the campaigns, so the duration is TTL ticks and a tick holds one        *)
(* campaign of each replica.  Within a tick everything interleaves.  The   *)
(* calls to the API server, the stop of a role and the end of a process    *)
(* that has stopped take less than a tick; a start that lasts longer is a  *)
(* disturbance ("slow").                                                   *)
(*                                                                         *)
(* Record versions are abstracted to what is asked of them: whether the    *)
(* Lease was written since a call of a replica read it ("conflict"), and   *)
(* for how long a replica has seen it stand unchanged (seen).  The name r  *)
(* stands for the identity of r's current process: a Lease whose process   *)
(* is gone is held by Gone.                                                *)
(***************************************************************************)
EXTENDS Naturals, Sequences, FiniteSets

CONSTANTS
  Replicas, Roles, None, Gone,
  TTL,             (* the duration of the Lease, in campaigns *)
  BackoffMax,      (* how many durations a replica backs off at most *)
  Scenarios        (* how many disturbances of each kind *)

ASSUME LeaseAssumption ==
  /\ TTL \in Nat /\ TTL >= 3 /\ BackoffMax \in Nat
  /\ None \notin Replicas \cup Nat /\ Gone \notin Replicas /\ None # Gone

VARIABLES
  lease,        (* who holds the Lease; None: there is none *)
  proc,         (* the process of a replica *)
  claim,        (* the claim of its campaign *)
  due,          (* the timer has fired, the campaign has not begun *)
  seen,         (* ticks since it first saw the Lease as it is now *)
  failures,     (* campaignFailures *)
  held,
  chain,        (* transition: what is chained on it, the head under way *)
  phase,        (* what the head of the chain is doing *)
  todo,         (* the roles it still waits for *)
  broken,       (* a role failed to start *)
  running, stopFailed,
  refused,      (* acquireFailures *)
  backoff,      (* ticks left until backoffUntil *)
  release,      (* the calls of releaseLease under way *)
  up,           (* the roles that may really be at work *)
  left          (* disturbances still to come *)

campaignVars == <<claim, due, seen, failures, backoff>>
chainVars == <<held, chain, phase, todo, broken, running, stopFailed,
               refused, up>>
vars == <<lease, proc, left, release, campaignVars, chainVars>>

Disturbances == {"api", "start", "stop", "crash", "quit", "slow"}
Origins == {"chain", "campaign", "stop"}

ASSUME ScenariosAssumption == Scenarios \subseteq [Disturbances -> Nat]

Live(r) == proc[r] # "down"

(* A campaign acts on its claim only in the generation it began in. *)
Campaigning(r) == proc[r] \in {"boot", "up"}

Spend(d) == left[d] > 0 /\ left' = [left EXCEPT ![d] = @ - 1]

---------------------------------------------------------------------------
(* The Lease *)

(* A write of the Lease changes its version and its renewTime: every call  *)
(* that read it before conflicts, every replica has it to observe anew.    *)
Outdated(p) == IF p \in {"replace", "delete"} THEN "conflict" ELSE p

ClaimsAfterWrite == [r \in Replicas |-> [claim[r] EXCEPT !.at = Outdated(@)]]
ReleasesAfterWrite ==
  [r \in Replicas |-> [o \in Origins |-> Outdated(release[r][o])]]

Written(h) ==
  /\ lease' = h
  /\ seen' = [r \in Replicas |-> None]

Idle == [at |-> "idle", again |-> FALSE]

(* stop() settles, or a stand-down or a claim does, by chaining. *)
Chained(r, to, then) ==
  chain' = [chain EXCEPT ![r] = Append(@, [to |-> to, then |-> then])]

(* What the campaign does once its claim is settled, and with what calls   *)
(* left in flight.                                                         *)
Settled(r, result, claims) ==
  /\ claim' = [claims EXCEPT ![r] = Idle]
  /\ \/ ~Campaigning(r) /\ UNCHANGED <<failures, chain>>
     \/ /\ Campaigning(r) /\ result \in {"won", "lost"}
        /\ failures' = [failures EXCEPT ![r] = 0]
        /\ Chained(r, result = "won", None)
     \/ /\ Campaigning(r) /\ result = "failed"
        /\ failures' = [failures EXCEPT ![r] = IF @ < 2 THEN @ + 1 ELSE 2]
        /\ IF held[r] /\ failures'[r] >= 2
             THEN Chained(r, FALSE, "campaign")
             ELSE UNCHANGED chain

(* Mutant: a tick too early. *)
MayTakeOverEarly(r) == seen'[r] >= TTL - 1

(* The Lease of another is taken over once it has stood for its duration. *)
MayTakeOver(r) == seen'[r] >= TTL

ClaimRead(r) ==
  /\ claim[r].at = "read"
  /\ \/ /\ lease = None
        /\ claim' = [claim EXCEPT ![r].at = "create"]
        /\ UNCHANGED <<seen, failures, chain>>
     \/ /\ lease = r
        /\ claim' = [claim EXCEPT ![r].at = "replace"]
        /\ UNCHANGED <<seen, failures, chain>>
     \/ /\ lease \notin {None, r}
        /\ seen' = [seen EXCEPT ![r] = IF @ = None THEN 0 ELSE @]
        /\ \/ /\ MayTakeOver(r)
              /\ claim' = [claim EXCEPT ![r].at = "replace"]
              /\ UNCHANGED <<failures, chain>>
           \/ ~MayTakeOver(r) /\ Settled(r, "lost", claim)
  /\ UNCHANGED <<lease, proc, left, release, due, backoff, held, phase, todo,
                 broken, running, stopFailed, refused, up>>

ClaimWrites(r) ==
  \/ claim[r].at = "create" /\ lease = None
  \/ claim[r].at = "replace"

ClaimWrite(r) ==
  /\ ClaimWrites(r)
  /\ Written(r)
  /\ Settled(r, "won", ClaimsAfterWrite)
  /\ release' = ReleasesAfterWrite
  /\ UNCHANGED <<proc, left, due, backoff, held, phase, todo, broken,
                 running, stopFailed, refused, up>>

(* 404 on the first try reads again, 404 on the second and 409 lose. *)
ClaimRefused(r) ==
  /\ claim[r].at \in {"create", "conflict"} /\ ~ClaimWrites(r)
  /\ \/ /\ claim[r].at = "conflict" /\ lease = None /\ ~claim[r].again
        /\ claim' = [claim EXCEPT ![r] = [at |-> "read", again |-> TRUE]]
        /\ UNCHANGED <<failures, chain>>
     \/ /\ ~(claim[r].at = "conflict" /\ lease = None /\ ~claim[r].again)
        /\ Settled(r, "lost", claim)
  /\ UNCHANGED <<lease, proc, left, release, due, seen, backoff, held, phase,
                 todo, broken, running, stopFailed, refused, up>>

(* A call fails, before the API server served it or after. *)
ClaimFails(r) ==
  /\ claim[r].at # "idle" /\ Spend("api")
  /\ \/ /\ Settled(r, "failed", claim)
        /\ UNCHANGED <<lease, seen, release>>
     \/ /\ ClaimWrites(r) /\ Written(r)
        /\ Settled(r, "failed", ClaimsAfterWrite)
        /\ release' = ReleasesAfterWrite
  /\ UNCHANGED <<proc, due, backoff, held, phase, todo, broken,
                 running, stopFailed, refused, up>>

(* The timer's callback.  A replica that backs off does not campaign. *)
Campaign(r) ==
  /\ due[r]
  /\ due' = [due EXCEPT ![r] = FALSE]
  /\ claim' = IF backoff[r] > 0 THEN claim
              ELSE [claim EXCEPT ![r] = [at |-> "read", again |-> FALSE]]
  /\ UNCHANGED <<lease, proc, left, release, seen, failures, backoff,
                 chainVars>>

(* Mutant: a role that did not stop is not looked for. *)
MayAlwaysRelease(r) == TRUE

(* releaseLease: kept while a role may still be at work, else read, and    *)
(* deleted if it is still one's own.                                       *)
MayRelease(r) == stopFailed[r] = {}

ReleaseRead(r, o) ==
  /\ release[r][o] = "read"
  /\ release' = [release EXCEPT ![r][o] =
       IF MayRelease(r) /\ lease = r THEN "delete" ELSE "idle"]
  /\ UNCHANGED <<lease, proc, left, campaignVars, chainVars>>

ReleaseDelete(r, o) ==
  /\ release[r][o] = "delete"
  /\ Written(None)
  /\ claim' = ClaimsAfterWrite
  /\ release' = [ReleasesAfterWrite EXCEPT ![r][o] = "idle"]
  /\ UNCHANGED <<proc, left, due, failures, backoff, chainVars>>

ReleaseGivesUp(r, o) ==
  /\ \/ release[r][o] = "conflict" /\ UNCHANGED left
     \/ release[r][o] \in {"read", "delete", "conflict"} /\ Spend("api")
  /\ release' = [release EXCEPT ![r][o] = "idle"]
  /\ UNCHANGED <<lease, proc, campaignVars, chainVars>>

---------------------------------------------------------------------------
(* The chained transitions *)

Finished(r) ==
  LET then == Head(chain[r]).then
  IN  /\ chain' = [chain EXCEPT ![r] = Tail(@)]
      /\ phase' = [phase EXCEPT ![r] = "idle"]
      /\ release' = IF then = None THEN release
                    ELSE [release EXCEPT ![r][then] = "read"]

TransitionBegins(r) ==
  /\ phase[r] = "idle" /\ chain[r] # <<>>
  /\ LET to == Head(chain[r]).to
     IN \/ /\ held[r] = to
           /\ Finished(r)
           /\ UNCHANGED <<held, todo, broken, running, up>>
        \/ /\ held[r] # to
           /\ held' = [held EXCEPT ![r] = to]
           /\ phase' = [phase EXCEPT ![r] = IF to THEN "start" ELSE "stop"]
           /\ todo' = [todo EXCEPT ![r] = IF to THEN Roles ELSE running[r]]
           /\ running' = [running EXCEPT ![r] = IF to THEN @ ELSE {}]
           /\ up' = [up EXCEPT ![r] = IF to THEN Roles ELSE @]
           /\ broken' = [broken EXCEPT ![r] = FALSE]
           /\ UNCHANGED <<chain, release>>
  /\ UNCHANGED <<lease, proc, left, campaignVars, stopFailed, refused>>

RoleStarts(r, x) ==
  /\ phase[r] = "start" /\ x \in todo[r]
  /\ todo' = [todo EXCEPT ![r] = @ \ {x}]
  /\ running' = [running EXCEPT ![r] = @ \cup {x}]
  /\ UNCHANGED <<lease, proc, left, release, campaignVars, held, chain, phase,
                 broken, stopFailed, refused, up>>

RoleFailsToStart(r, x) ==
  /\ phase[r] = "start" /\ x \in todo[r]
  /\ Spend("start")
  /\ todo' = [todo EXCEPT ![r] = @ \ {x}]
  /\ broken' = [broken EXCEPT ![r] = TRUE]
  /\ UNCHANGED <<lease, proc, release, campaignVars, held, chain, phase,
                 running, stopFailed, refused, up>>

(* Mutant: the role that failed to start is not stopped. *)
RolledBackIfRunning(r) == running[r]

(* The roles a start that failed is rolled back on: all of them, as one    *)
(* that failed to start may have started in part.                          *)
RolledBack(r) == Roles

StartEnds(r) ==
  /\ phase[r] = "start" /\ todo[r] = {}
  /\ \/ /\ ~broken[r]
        /\ refused' = [refused EXCEPT ![r] = 0]
        /\ Finished(r)
        /\ UNCHANGED <<todo, running>>
     \/ /\ broken[r]
        /\ phase' = [phase EXCEPT ![r] = "rollback"]
        /\ todo' = [todo EXCEPT ![r] = RolledBack(r)]
        /\ running' = [running EXCEPT ![r] = {}]
        /\ UNCHANGED <<refused, chain, release>>
  /\ UNCHANGED <<lease, proc, left, campaignVars, held, broken,
                 stopFailed, up>>

(* stopRole: a role is tried twice and then taken as not stopped. *)
RoleStops(r, x) ==
  /\ phase[r] \in {"stop", "rollback"} /\ x \in todo[r]
  /\ todo' = [todo EXCEPT ![r] = @ \ {x}]
  /\ \/ /\ stopFailed' = [stopFailed EXCEPT ![r] = @ \ {x}]
        /\ up' = [up EXCEPT ![r] = @ \ {x}]
        /\ UNCHANGED left
     \/ /\ Spend("stop")
        /\ stopFailed' = [stopFailed EXCEPT ![r] = @ \cup {x}]
        /\ UNCHANGED up
  /\ UNCHANGED <<lease, proc, release, campaignVars, held, chain, phase,
                 broken, running, refused>>

StandDownEnds(r) ==
  /\ phase[r] = "stop" /\ todo[r] = {}
  /\ Finished(r)
  /\ UNCHANGED <<lease, proc, left, campaignVars, held, todo, broken,
                 running, stopFailed, refused, up>>

(* The replica backs off for whole durations and gives the Lease back,     *)
(* which the chain waits for.                                              *)
Backoff(n) == TTL * (IF n < BackoffMax THEN n ELSE BackoffMax)

(* Mutant: a replica whose start failed goes on as the leader. *)
StillHeld == TRUE

(* held is reset, so that the next Lease it gets starts the roles again. *)
HeldAfterRollback == FALSE

RollbackEnds(r) ==
  /\ phase[r] = "rollback" /\ todo[r] = {}
  /\ refused' = [refused EXCEPT ![r] = IF @ < BackoffMax THEN @ + 1 ELSE @]
  /\ backoff' = [backoff EXCEPT ![r] = Backoff(refused[r] + 1)]
  /\ held' = [held EXCEPT ![r] = HeldAfterRollback]
  /\ phase' = [phase EXCEPT ![r] = "release"]
  /\ release' = [release EXCEPT ![r]["chain"] = "read"]
  /\ UNCHANGED <<lease, proc, left, claim, due, seen, failures, chain, todo,
                 broken, running, stopFailed, up>>

ReleaseEnds(r) ==
  /\ phase[r] = "release" /\ release[r]["chain"] = "idle"
  /\ Finished(r)
  /\ UNCHANGED <<lease, proc, left, campaignVars, held, todo, broken,
                 running, stopFailed, refused, up>>

---------------------------------------------------------------------------
(* The process *)

(* start(): the first campaign, whose end, transition included, sets the   *)
(* timer.                                                                  *)
Boot(r) ==
  /\ proc[r] = "down"
  /\ proc' = [proc EXCEPT ![r] = "boot"]
  /\ claim' = [claim EXCEPT ![r] = [at |-> "read", again |-> FALSE]]
  /\ UNCHANGED <<lease, left, release, due, seen, failures, backoff,
                 chainVars>>

Quiet(r) ==
  /\ claim[r].at = "idle" /\ chain[r] = <<>>
  /\ \A o \in Origins : release[r][o] = "idle"

SetTimer(r) ==
  /\ proc[r] = "boot" /\ Quiet(r)
  /\ proc' = [proc EXCEPT ![r] = "up"]
  /\ UNCHANGED <<lease, left, release, campaignVars, chainVars>>

(* stop(): the generation moves and the timer is cleared; the stand-down   *)
(* waits for the claim in flight, which may yet win the Lease.             *)
Quit(r) ==
  /\ Campaigning(r) /\ Spend("quit")
  /\ proc' = [proc EXCEPT ![r] = "settling"]
  /\ due' = [due EXCEPT ![r] = FALSE]
  /\ UNCHANGED <<lease, release, claim, seen, failures, backoff, chainVars>>

QuitStandsDown(r) ==
  /\ proc[r] = "settling" /\ claim[r].at = "idle"
  /\ proc' = [proc EXCEPT ![r] = "stopping"]
  /\ Chained(r, FALSE, "stop")
  /\ UNCHANGED <<lease, left, release, campaignVars, held, phase, todo,
                 broken, running, stopFailed, refused, up>>

Dies(r) ==
  /\ lease' = IF lease = r THEN Gone ELSE lease
  /\ proc' = [proc EXCEPT ![r] = "down"]
  /\ claim' = [claim EXCEPT ![r] = Idle]
  /\ due' = [due EXCEPT ![r] = FALSE]
  /\ seen' = [seen EXCEPT ![r] = None]
  /\ failures' = [failures EXCEPT ![r] = 0]
  /\ backoff' = [backoff EXCEPT ![r] = 0]
  /\ held' = [held EXCEPT ![r] = FALSE]
  /\ chain' = [chain EXCEPT ![r] = <<>>]
  /\ phase' = [phase EXCEPT ![r] = "idle"]
  /\ todo' = [todo EXCEPT ![r] = {}]
  /\ broken' = [broken EXCEPT ![r] = FALSE]
  /\ running' = [running EXCEPT ![r] = {}]
  /\ stopFailed' = [stopFailed EXCEPT ![r] = {}]
  /\ refused' = [refused EXCEPT ![r] = 0]
  /\ release' = [release EXCEPT ![r] = [o \in Origins |-> "idle"]]
  /\ up' = [up EXCEPT ![r] = {}]

Exit(r) == proc[r] = "stopping" /\ Quiet(r) /\ Dies(r) /\ UNCHANGED left

Crash(r) == Live(r) /\ Spend("crash") /\ Dies(r)

---------------------------------------------------------------------------
Starting(r) == phase[r] = "start" /\ todo[r] # {}

(* What takes less than a tick is over before the next one. *)
TickIsOver(r) ==
  /\ ~due[r] /\ claim[r].at = "idle"
  /\ proc[r] # "settling" /\ ~(proc[r] = "stopping" /\ Quiet(r))
  /\ proc[r] = "boot" => ~Quiet(r)
  /\ \A o \in Origins : release[r][o] = "idle"
  /\ chain[r] # <<>> => Starting(r)

Older(n) == IF n = None THEN None ELSE IF n < TTL THEN n + 1 ELSE n

Tick ==
  /\ \A r \in Replicas : TickIsOver(r)
  /\ IF \E r \in Replicas : Starting(r) THEN Spend("slow") ELSE UNCHANGED left
  /\ due' = [r \in Replicas |-> proc[r] = "up"]
  /\ seen' = [r \in Replicas |-> Older(seen[r])]
  /\ backoff' = [r \in Replicas |-> IF backoff[r] > 0 THEN backoff[r] - 1 ELSE 0]
  /\ UNCHANGED <<lease, proc, release, claim, failures, held, chain,
                 phase, todo, broken, running, stopFailed, refused, up>>

---------------------------------------------------------------------------
Init ==
  /\ lease = None
  /\ proc = [r \in Replicas |-> "down"]
  /\ claim = [r \in Replicas |-> Idle]
  /\ due = [r \in Replicas |-> FALSE]
  /\ seen = [r \in Replicas |-> None]
  /\ failures = [r \in Replicas |-> 0]
  /\ held = [r \in Replicas |-> FALSE]
  /\ chain = [r \in Replicas |-> <<>>]
  /\ phase = [r \in Replicas |-> "idle"]
  /\ todo = [r \in Replicas |-> {}]
  /\ broken = [r \in Replicas |-> FALSE]
  /\ running = [r \in Replicas |-> {}]
  /\ stopFailed = [r \in Replicas |-> {}]
  /\ refused = [r \in Replicas |-> 0]
  /\ backoff = [r \in Replicas |-> 0]
  /\ release = [r \in Replicas |-> [o \in Origins |-> "idle"]]
  /\ up = [r \in Replicas |-> {}]
  /\ left \in Scenarios

ClaimStep(r) == Campaign(r) \/ ClaimRead(r) \/ ClaimWrite(r) \/ ClaimRefused(r)

ChainStep(r) ==
  \/ TransitionBegins(r) \/ StartEnds(r) \/ StandDownEnds(r)
  \/ RollbackEnds(r) \/ ReleaseEnds(r)
  \/ \E x \in Roles : RoleStarts(r, x) \/ RoleStops(r, x)

ReleaseStep(r) ==
  \E o \in Origins : ReleaseRead(r, o) \/ ReleaseDelete(r, o)
                       \/ ReleaseGivesUp(r, o)

ProcessStep(r) == SetTimer(r) \/ QuitStandsDown(r) \/ Exit(r)

Disturbance(r) ==
  \/ ClaimFails(r) \/ Quit(r) \/ Crash(r)
  \/ \E x \in Roles : RoleFailsToStart(r, x)

Next ==
  \/ \E r \in Replicas : \/ ClaimStep(r) \/ ChainStep(r) \/ ReleaseStep(r)
                          \/ ProcessStep(r) \/ Boot(r) \/ Disturbance(r)
  \/ Tick

Spec == Init /\ [][Next]_vars

(* Calls are answered, timers fire, roles start and stop, time goes on and *)
(* Kubernetes restarts what ended.  A tick ends only once the rest of it   *)
(* is done, so it is enough that some such step is taken.                  *)
Goes ==
  \/ \E r \in Replicas : \/ ClaimStep(r) \/ ChainStep(r) \/ ReleaseStep(r)
                          \/ ProcessStep(r)
  \/ Tick

FairSpec ==
  Spec /\ WF_vars(Goes) /\ \A r \in Replicas : WF_vars(Boot(r))

---------------------------------------------------------------------------
Claim == [at : {"idle", "read", "create", "replace", "conflict"},
          again : BOOLEAN]

(* The counters of failed campaigns and refused starts and the time to    *)
(* back off stay within their bounds, and the rest keeps its shape.       *)
TypeOK ==
  /\ lease \in Replicas \cup {None, Gone}
  /\ proc \in [Replicas -> {"down", "boot", "up", "settling", "stopping"}]
  /\ claim \in [Replicas -> Claim]
  /\ due \in [Replicas -> BOOLEAN]
  /\ seen \in [Replicas -> 0..TTL \cup {None}]
  /\ failures \in [Replicas -> 0..2]
  /\ held \in [Replicas -> BOOLEAN]
  /\ chain \in [Replicas -> Seq([to : BOOLEAN, then : Origins \cup {None}])]
  /\ phase \in [Replicas -> {"idle", "start", "stop", "rollback", "release"}]
  /\ todo \in [Replicas -> SUBSET Roles]
  /\ broken \in [Replicas -> BOOLEAN]
  /\ running \in [Replicas -> SUBSET Roles]
  /\ stopFailed \in [Replicas -> SUBSET Roles]
  /\ refused \in [Replicas -> 0..BackoffMax]
  /\ backoff \in [Replicas -> 0..(TTL * BackoffMax)]
  /\ release \in
       [Replicas -> [Origins -> {"idle", "read", "delete", "conflict"}]]
  /\ up \in [Replicas -> SUBSET Roles]
  /\ left \in [Disturbances -> Nat]

(* The roles of a replica are up together or not at all once no transition *)
(* is under way, as its books say, and none is at work that the books      *)
(* neither run nor own up to, whatever failed to start or to stop.         *)
AllOrNone ==
  \A r \in Replicas : chain[r] = <<>> =>
    /\ running[r] = IF held[r] THEN Roles ELSE {}
    /\ up[r] \subseteq running[r] \cup stopFailed[r]

(* The replicas that may be at the work, as the one server of SingleServer. *)
AtWork == {r \in Replicas : up[r] # {}}
TheServer ==
  IF AtWork = {} THEN None
  ELSE IF Cardinality(AtWork) = 1 THEN CHOOSE r \in Replicas : r \in AtWork
  ELSE AtWork

Single == INSTANCE SingleServer WITH server <- TheServer

(* The election implements a single server: a replica starts a role only   *)
(* after every role of the last one has stopped, through crashes, failed   *)
(* campaigns and lost answers, and somebody always gets to serve.          *)
OneServer == Single!Spec

(* A replica gives the Lease back only when none of its roles is at work,  *)
(* not even one whose stop failed or that a later transition started.      *)
ReleasedWhenStopped ==
  [][\A r \in Replicas : lease = r /\ lease' = None => up[r] = {}]_vars

(* The replica that serves gets to serve all of it, on its own Lease: no   *)
(* failed start or stand-down leaves the books in a state that never       *)
(* starts again.                                                           *)
LeaderServes == []<>(\E r \in Replicas : lease = r /\ running[r] = Roles)
=============================================================================
