-------------------------- MODULE DeploymentLedger --------------------------
(***************************************************************************)
(* What deploying the cascade topology promises to whoever reads the       *)
(* database: a draft revision that only grows, a deployed revision that    *)
(* moves in one step together with the success of the one operation that   *)
(* was pinned to the current draft and to the revision deployed before it, *)
(* and operations that end once and for all.                               *)
(***************************************************************************)
EXTENDS Integers

CONSTANTS Op, MaxRevision

VARIABLES
    revision,   \* the draft topology
    deployed,   \* the revision said to be deployed
    outcome,    \* none, open, or how the operation ended
    pin         \* the draft and deployed revisions an operation was created for

lvars == <<revision, deployed, outcome, pin>>

Ended  == {"succeeded", "failed", "rolled_back"}
NoPin  == [rev |-> 0, prior |-> 0]

LInit ==
    /\ revision = 1
    /\ deployed = 0
    /\ outcome  = [o \in Op |-> "none"]
    /\ pin      = [o \in Op |-> NoPin]

Edit ==
    /\ revision < MaxRevision
    /\ revision' = revision + 1
    /\ UNCHANGED <<deployed, outcome, pin>>

Open(o) ==
    /\ outcome[o] = "none"
    /\ outcome' = [outcome EXCEPT ![o] = "open"]
    /\ pin' = [pin EXCEPT ![o] = [rev |-> revision, prior |-> deployed]]
    /\ UNCHANGED <<revision, deployed>>

Succeed(o) ==
    /\ outcome[o] = "open"
    /\ pin[o] = [rev |-> revision, prior |-> deployed]
    /\ outcome'  = [outcome EXCEPT ![o] = "succeeded"]
    /\ deployed' = revision
    /\ UNCHANGED <<revision, pin>>

GiveUp(o) ==
    /\ outcome[o] = "open"
    /\ \E how \in Ended \ {"succeeded"} :
          outcome' = [outcome EXCEPT ![o] = how]
    /\ UNCHANGED <<revision, deployed, pin>>

LNext ==
    \/ Edit
    \/ \E o \in Op : Open(o) \/ Succeed(o) \/ GiveUp(o)

LSpec == LInit /\ [][LNext]_lvars

=============================================================================
