-------------------------- MODULE MCRuntimeDelivery -------------------------
(* Instances of RuntimeDelivery for TLC.                                   *)
EXTENDS RuntimeDelivery, TLC

CONSTANTS env, file       \* contribution kinds

KindSymmetry == Permutations({env, file})

BothKinds == {{env, file}}
EnvComesAndGoes == {{}, {env}}
EnvOnly == {{env} \cup EventKinds}
EventsOnly == {EventKinds}
NoWorkspaceAfterUpdate == {EventKinds, {"message"}}

(* Contributions only *)
NoEvents == {}

(* A seed and an install, each holding what is posted behind it. *)
TwoMutations == {"seed", "install"}
OneSeed == {"seed"}

(* Two directives of one key, the newer replacing the older. *)
DefaultsEvents == {"defaults1", "defaults2"}

KeyOf == [seed |-> "seed", install |-> "install",
          defaults1 |-> "defaults", defaults2 |-> "defaults",
          message |-> "message"]

TsOf == [seed |-> 1, install |-> 1, defaults1 |-> 1, defaults2 |-> 2,
         message |-> 1]

KindOf == [seed |-> "workspace", install |-> "workspace",
           defaults1 |-> "session-defaults",
           defaults2 |-> "session-defaults", message |-> "message"]

Key == [e \in Events |-> KeyOf[e]]
Ts == [e \in Events |-> TsOf[e]]
Kind == [e \in Events |-> KindOf[e]]

(* Bounds *)
OneTry == [s \in Slots |-> 1]
TwoTries == [s \in Slots |-> 2]

Calm == [d \in Disturbances |-> 0]
RacesBudget == [Calm EXCEPT !["edit"] = 2, !["lose"] = 1, !["fault"] = 1]
RestartsBudget == [Calm EXCEPT !["edit"] = 1, !["unbumped"] = 1, !["stop"] = 1,
                               !["roll"] = 1]
CreateBudget == [Calm EXCEPT !["fault"] = 2]
KeyBudget == [Calm EXCEPT !["fault"] = 1, !["expire"] = 1]
CatchUpBudget == [Calm EXCEPT !["edit"] = 1, !["stop"] = 1, !["lose"] = 1]
GapBudget == [Calm EXCEPT !["fault"] = 1, !["stop"] = 1]

(* The disturbances of the refuted claim *)
TornBudget == [Calm EXCEPT !["edit"] = 3, !["fault"] = 1]
=============================================================================
