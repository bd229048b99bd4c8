------------------------- MODULE Requests_proofs ----------------------------
(***************************************************************************)
(* What overlapping requests and background tasks leave behind, for any    *)
(* number of them: the expiry timer, the deployment service, the network   *)
(* map and the Marzban import.  They share no state: each part below is    *)
(* about the specification of one of them, and cites no lemma of another.  *)
(***************************************************************************)
EXTENDS ExpireScheduler, TopologyDeployment, NetworkMap, MarzbanImport,
        FiniteSetTheorems, TLAPS

-----------------------------------------------------------------------------
(***************************************************************************)
(* ExpireScheduler. scheduleNext clears the timer it knows before it asks  *)
(* the database, so that while one run awaits the answer there is no timer *)
(* at all, and only that run sets the next one.                            *)
(***************************************************************************)

KnownTimer == armed \subseteq {handle}

\* A run that is about to set a timer has cleared the one before.
ClearedFirst == arming.at # "idle" => armed = {}

ExpiryInv == KnownTimer /\ ClearedFirst

LEMMA ExpiryInvInit == ExpiryInit => ExpiryInv
  BY DEF ExpiryInit, ExpiryInv, KnownTimer, ClearedFirst

\* Arming, or joining the run that does, keeps the invariant.
LEMMA ArmInv ==
  ASSUME ExpiryInv, Arm PROVE ExpiryInv'
  <1>1. CASE arming.at # "idle"
    BY <1>1 DEF Arm, ExpiryInv, KnownTimer, ClearedFirst
  <1>2. CASE arming.at = "idle"
    BY <1>2 DEF Arm, ExpiryInv, KnownTimer, ClearedFirst
  <1> QED BY <1>1, <1>2

LEMMA SetTimerInv ==
  ASSUME ExpiryInv, SetTimer PROVE ExpiryInv'
  <1>1. armed = {}
    BY DEF SetTimer, ExpiryInv, ClearedFirst
  <1>2. armed' \subseteq {handle'}
    BY <1>1 DEF SetTimer
  <1>3. arming'.at = "idle"
    BY DEF SetTimer
  <1> QED BY <1>2, <1>3 DEF ExpiryInv, KnownTimer, ClearedFirst

\* A timer that fires leaves the ones it was held with.
LEMMA TimerFiresInv ==
  ASSUME ExpiryInv, TimerFires PROVE ExpiryInv'
  <1>1. armed' \subseteq armed /\ UNCHANGED <<handle, arming>>
    BY DEF TimerFires
  <1> QED BY <1>1 DEF ExpiryInv, KnownTimer, ClearedFirst

\* Steps that end, begin or skip a run of scheduleNext and touch no timer.
LEMMA TimersUntouched ==
  ASSUME ExpiryInv, UNCHANGED <<armed, handle>>,
         arming' = arming \/ (arming'.at # "idle" => arming.at # "idle")
  PROVE  ExpiryInv'
  BY DEF ExpiryInv, KnownTimer, ClearedFirst

LEMMA ExpiryInvNext == ExpiryInv /\ [ExpiryNext]_expiryVars => ExpiryInv'
  <1> SUFFICES ASSUME ExpiryInv, [ExpiryNext]_expiryVars PROVE ExpiryInv'
    OBVIOUS
  <1>1. CASE ReadNearest
    BY <1>1, TimersUntouched DEF ReadNearest
  <1>2. CASE SetTimer
    BY <1>2, SetTimerInv
  <1>3. CASE ArmFails
    BY <1>3, TimersUntouched DEF ArmFails
  <1>4. CASE FindOverdue
    BY <1>4, TimersUntouched DEF FindOverdue
  <1>5. CASE SweepEnds
    BY <1>5, ArmInv DEF SweepEnds
  <1>6. CASE SweepFails
    <2>1. CASE waiting \cap {"timer", "past"} # {}
      BY <1>6, <2>1, ArmInv DEF SweepFails
    <2>2. CASE waiting \cap {"timer", "past"} = {}
      BY <1>6, <2>2, TimersUntouched DEF SweepFails
    <2> QED BY <2>1, <2>2
  <1>7. ASSUME NEW u \in Subscriber, DisableUser(u) PROVE ExpiryInv'
    BY <1>7, TimersUntouched DEF DisableUser
  <1>8. ASSUME NEW u \in Subscriber, SaveSubscription(u) PROVE ExpiryInv'
    BY <1>8, TimersUntouched DEF SaveSubscription
  <1>9. CASE Boot
    BY <1>9, TimersUntouched DEF Boot
  <1>10. CASE Watchdog
    BY <1>10, TimersUntouched DEF Watchdog
  <1>11. CASE TimerFires
    BY <1>11, TimerFiresInv
  <1>12. CASE Notify
    <2>1. PICK t \in note : IF t <= clock THEN UNCHANGED <<armed, handle, arming>>
                            ELSE Arm \/ UNCHANGED <<armed, handle, arming>>
      BY <1>12 DEF Notify
    <2> QED BY <2>1, ArmInv, TimersUntouched
  <1>13. CASE PanelStops
    BY <1>13 DEF PanelStops, ExpiryInv, KnownTimer, ClearedFirst
  <1>14. CASE ClockTicks
    BY <1>14, TimersUntouched DEF ClockTicks
  <1>15. CASE UNCHANGED expiryVars
    BY <1>15, TimersUntouched DEF expiryVars
  <1> QED BY <1>1, <1>2, <1>3, <1>4, <1>5, <1>6, <1>7, <1>8, <1>9, <1>10, <1>11,
             <1>12, <1>13, <1>14, <1>15 DEF ExpiryNext

(* The runtime never holds more than one timer, and the scheduler knows it:  *)
(* however the runs of scheduleNext, the sweeps and the saves overlap.       *)
THEOREM OneTimerHolds == ExpirySpec => []OneTimer
  <1>1. ExpiryInv => OneTimer
    <2> SUFFICES ASSUME armed \subseteq {handle} PROVE Cardinality(armed) <= 1
      BY DEF ExpiryInv, KnownTimer, OneTimer
    <2>1. IsFiniteSet({handle}) /\ Cardinality({handle}) = 1
      BY FS_Singleton
    <2>2. IsFiniteSet(armed) /\ Cardinality(armed) <= Cardinality({handle})
      BY <2>1, FS_Subset
    <2> QED BY <2>1, <2>2
  <1> QED BY ExpiryInvInit, ExpiryInvNext, <1>1, PTL DEF ExpirySpec

-----------------------------------------------------------------------------
(***************************************************************************)
(* TopologyDeployment. AllOrNothing needs what each request has done so    *)
(* far (Progress) and, of a request nothing disturbs, what each node       *)
(* carries: what it carried before, for the nodes the request has not      *)
(* changed, and the pinned revision, for those it is through with          *)
(* (Undisturbed).                                                          *)
(***************************************************************************)

\* What a request may hold.
ADeployment ==
    [pc : {"none", "apply", "verify", "mark", "restore", "ended"},
     rev : Nat, prior : Nat, todo : SUBSET TopoNode, changed : SUBSET TopoNode,
     token : [TopoNode -> Nat], evidence : SUBSET TopoNode,
     code : {"none", "stale", "invalid", "nodeFailed", "contractViolation",
             "verificationFailed", "updateFailed", "deployed"},
     failedNode : TopoNode \cup {0}, rolledBack : SUBSET TopoNode,
     rollbackFailed : SUBSET TopoNode, alone : BOOLEAN, before : [TopoNode -> Nat]]

DeploymentTypes ==
    /\ topoRev \in Nat /\ topoDeployed \in Nat /\ topoDeployed <= topoRev
    /\ carries \in [TopoNode -> Nat]
    /\ deployment \in [Deployment -> ADeployment]

Advancing == {"apply", "verify", "mark"}

\* How far a request is: what it has changed and not verified is the node it is
\* at, and nothing has failed before it restores.
Progress(d) ==
    LET r == deployment[d] IN
    /\ r.pc = "none" => ~r.alone
    /\ r.pc \in Advancing =>
        /\ r.failedNode = 0 /\ r.rollbackFailed = {}
        /\ r.evidence \cup r.todo = TopoNode
    /\ r.pc = "mark" => r.todo = {}
    /\ r.pc = "apply" => r.changed \cap r.todo = {}
    /\ r.pc = "verify" => \A n \in r.changed \cap r.todo : Current(d, n)
    /\ r.pc \in Advancing \cup {"restore"} => r.code # "deployed"

\* What the nodes of a request that nothing disturbs carry.
Undisturbed(d) ==
    LET r == deployment[d] IN
    r.alone /\ InFlight(d) =>
        /\ \A e \in Deployment \ {d} : ~InFlight(e)
        /\ \A n \in r.changed : r.token[n] = r.before[n]
        /\ \A n \in TopoNode \ (r.changed \cup r.rollbackFailed \cup {r.failedNode}) :
               carries[n] = r.before[n]
        /\ r.pc \in Advancing => \A n \in TopoNode \ r.todo : carries[n] = r.rev

DeploymentInv ==
    /\ DeploymentTypes
    /\ \A d \in Deployment : Progress(d)
    /\ \A d \in Deployment : Undisturbed(d)

LEMMA DeploymentInvInit == DeploymentInit => DeploymentInv
  <1> SUFFICES ASSUME DeploymentInit PROVE DeploymentInv
    OBVIOUS
  <1>1. NoDeployment \in ADeployment /\ NoDeployment.pc = "none" /\ ~NoDeployment.alone
    BY DEF NoDeployment, ADeployment
  <1>2. DeploymentTypes
    BY <1>1 DEF DeploymentInit, DeploymentTypes
  <1>3. \A d \in Deployment : deployment[d] = NoDeployment
    BY DEF DeploymentInit
  <1> QED
    BY <1>1, <1>2, <1>3 DEF DeploymentInv, Progress, Undisturbed, InFlight, Advancing

\* A request that is not itself at work keeps what it has, if the nodes are as
\* they were or it counts as disturbed.
LEMMA OthersKeep ==
  ASSUME NEW e \in Deployment, Progress(e), Undisturbed(e),
         deployment'[e] = deployment[e],
         \/ ~(deployment[e].alone /\ InFlight(e))
         \/ /\ carries' = carries
            /\ \A f \in Deployment : InFlight(f)' => InFlight(f)
  PROVE  Progress(e)' /\ Undisturbed(e)'
  <1>1. Progress(e)'
    BY DEF Progress, Current
  <1>2. Undisturbed(e)'
    BY DEF Undisturbed, InFlight
  <1> QED BY <1>1, <1>2

\* A step of a request in flight: the others keep what they have.
LEMMA InFlightStep ==
  ASSUME DeploymentInv, NEW d \in Deployment, InFlight(d), NEW s \in ADeployment,
         Goes(d, s), topoRev' = topoRev, topoDeployed' \in Nat, topoDeployed' <= topoRev,
         carries' \in [TopoNode -> Nat], Progress(d)', Undisturbed(d)'
  PROVE  DeploymentInv'
  <1>1. DeploymentTypes'
    BY DEF DeploymentInv, DeploymentTypes, Goes
  <1>2. ASSUME NEW e \in Deployment, e # d PROVE Progress(e)' /\ Undisturbed(e)'
    <2>1. deployment'[e] = deployment[e]
      BY <1>2 DEF DeploymentInv, DeploymentTypes, Goes
    <2>2. Progress(e) /\ Undisturbed(e)
      BY DEF DeploymentInv
    <2>3. ~(deployment[e].alone /\ InFlight(e))
      BY <1>2, <2>2 DEF Undisturbed
    <2> QED BY <2>1, <2>2, <2>3, OthersKeep
  <1> QED
    BY <1>1, <1>2 DEF DeploymentInv

\* A node a request is at is the only one.
LEMMA CurrentUnique ==
  ASSUME NEW d \in Deployment, NEW m \in TopoNode, NEW n \in TopoNode, Current(d, m), Current(d, n)
  PROVE  m = n
  <1>1. m \in Nat /\ n \in Nat /\ m <= n /\ n <= m
    BY TopoAssumption DEF Current
  <1> QED BY <1>1

LEMMA PinKeeps ==
  ASSUME DeploymentInv, NEW d \in Deployment, Pin(d) PROVE DeploymentInv'
  <1> USE DEF DeploymentInv
  <1>0. deployment[d].pc = "none" /\ UNCHANGED <<topoRev, topoDeployed, carries>>
    BY DEF Pin
  <1>1. PICK expected \in DraftRev :
        \/ /\ expected = topoRev
           /\ deployment' = [e \in Deployment |->
                  IF e = d THEN Pinned(d, expected)
                  ELSE [deployment[e] EXCEPT !.alone = FALSE]]
        \/ Goes(d, [NoDeployment EXCEPT !.pc = "ended", !.code = "stale", !.rev = expected])
        \/ Goes(d, [NoDeployment EXCEPT !.pc = "ended", !.code = "invalid", !.rev = expected])
    BY DEF Pin
  <1>2. expected \in Nat
    BY TopoAssumption DEF DraftRev
  <1>3. CASE deployment' = [e \in Deployment |->
                  IF e = d THEN Pinned(d, expected)
                  ELSE [deployment[e] EXCEPT !.alone = FALSE]]
    <2> DEFINE p == Pinned(d, expected)
    <2>1. /\ p \in ADeployment /\ p.pc \in {"mark", "apply"} /\ (p.pc = "mark" => TopoNode = {})
          /\ p.todo = TopoNode /\ p.changed = {} /\ p.evidence = {} /\ p.failedNode = 0
          /\ p.rollbackFailed = {} /\ p.before = carries /\ p.code = "none"
          /\ p.alone = ~\E e \in Deployment : InFlight(e)
      BY <1>2 DEF Pinned, NoDeployment, ADeployment, DeploymentTypes
    <2> HIDE DEF p
    <2>2. deployment'[d] = p
      BY <1>3 DEF p
    <2>3. \A e \in Deployment \ {d} :
             /\ deployment'[e] \in ADeployment /\ ~deployment'[e].alone
             /\ deployment'[e].pc = deployment[e].pc
             /\ deployment'[e] = [deployment[e] EXCEPT !.alone = FALSE]
      <3> SUFFICES ASSUME NEW e \in Deployment \ {d}
                   PROVE /\ deployment'[e] \in ADeployment /\ ~deployment'[e].alone
                         /\ deployment'[e].pc = deployment[e].pc
                         /\ deployment'[e] = [deployment[e] EXCEPT !.alone = FALSE]
        OBVIOUS
      <3>1. deployment'[e] = [deployment[e] EXCEPT !.alone = FALSE] /\ deployment[e] \in ADeployment
        BY <1>3 DEF DeploymentTypes
      <3> QED BY <3>1 DEF ADeployment
    <2>4. DeploymentTypes'
      BY <1>0, <1>3, <2>1, <2>2, <2>3 DEF DeploymentTypes
    <2>5. Progress(d)'
      BY <2>1, <2>2 DEF Progress, Advancing
    <2>6. Undisturbed(d)'
      <3>1. p.alone => \A e \in Deployment \ {d} : ~InFlight(e)'
        BY <2>1, <2>3 DEF InFlight
      <3> QED
        BY <1>0, <2>1, <2>2, <3>1 DEF Undisturbed
    <2>7. ASSUME NEW e \in Deployment \ {d} PROVE Progress(e)' /\ Undisturbed(e)'
      <3>1. deployment[e] \in ADeployment /\ Progress(e)
        BY DEF DeploymentTypes
      <3> DEFINE r == deployment[e]
                 q == deployment'[e]
      <3>4. /\ q.pc = r.pc /\ ~q.alone /\ q.failedNode = r.failedNode /\ q.todo = r.todo
            /\ q.rollbackFailed = r.rollbackFailed /\ q.evidence = r.evidence /\ q.changed = r.changed
            /\ q.code = r.code
        <4>1. q = [r EXCEPT !.alone = FALSE] /\ r \in ADeployment
          BY <2>3, <3>1
        <4> HIDE DEF q, r
        <4> QED BY <4>1 DEF ADeployment
      <3>2. Progress(e)'
        BY <3>1, <3>4 DEF Progress, Current
      <3>3. Undisturbed(e)'
        BY <2>3 DEF Undisturbed
      <3> QED BY <3>2, <3>3
    <2> QED BY <2>4, <2>5, <2>6, <2>7
  <1>4. ASSUME NEW s \in ADeployment, s.pc = "ended", Goes(d, s) PROVE DeploymentInv'
    <2>1. DeploymentTypes' /\ deployment'[d] = s
          /\ \A e \in Deployment \ {d} : deployment'[e] = deployment[e]
      BY <1>0, <1>4 DEF DeploymentTypes, Goes
    <2>2. Progress(d)' /\ Undisturbed(d)'
      BY <1>4, <2>1 DEF Progress, Undisturbed, InFlight, Advancing
    <2>3. \A f \in Deployment : InFlight(f)' => InFlight(f)
      BY <1>4, <2>1 DEF InFlight
    <2>4. \A e \in Deployment \ {d} : Progress(e)' /\ Undisturbed(e)'
      BY <1>0, <2>1, <2>3, OthersKeep
    <2> QED BY <2>1, <2>2, <2>4
  <1>5. \A code \in {"stale", "invalid"} :
           LET s == [NoDeployment EXCEPT !.pc = "ended", !.code = code, !.rev = expected]
           IN s \in ADeployment /\ s.pc = "ended"
    BY <1>2 DEF NoDeployment, ADeployment
  <1> QED
    BY <1>1, <1>3, <1>4, <1>5

\* A deployment that notes a node as changed is still one.
LEMMA ChangedTyped ==
  ASSUME NEW r \in ADeployment, NEW n \in TopoNode, NEW v \in Nat
  PROVE  [r EXCEPT !.pc = "verify", !.changed = r.changed \cup {n}, !.token[n] = v] \in ADeployment
  <1> DEFINE tokens == [r.token EXCEPT ![n] = v]
             nodes == r.changed \cup {n}
  <1>1. tokens \in [TopoNode -> Nat] /\ nodes \in SUBSET TopoNode
    BY DEF ADeployment
  <1>2. [r EXCEPT !.pc = "verify", !.changed = nodes, !.token[n] = v]
          = [r EXCEPT !.pc = "verify", !.changed = nodes, !.token = tokens]
    BY DEF ADeployment
  <1> HIDE DEF tokens, nodes
  <1>3. [r EXCEPT !.pc = "verify", !.changed = nodes, !.token = tokens] \in ADeployment
    BY <1>1 DEF ADeployment
  <1> QED BY <1>2, <1>3 DEF nodes

LEMMA ApplyKeeps ==
  ASSUME DeploymentInv, NEW d \in Deployment, NEW n \in TopoNode, Apply(d, n) PROVE DeploymentInv'
  <1> DEFINE r == deployment[d]
  <1>0. /\ r \in ADeployment /\ r.pc = "apply" /\ n \in r.todo /\ Current(d, n)
        /\ Progress(d) /\ Undisturbed(d) /\ InFlight(d)
        /\ topoRev' = topoRev /\ topoDeployed' = topoDeployed
        /\ topoDeployed \in Nat /\ topoDeployed <= topoRev /\ carries \in [TopoNode -> Nat]
    BY DEF Apply, Current, DeploymentInv, DeploymentTypes, InFlight
  <1>1. /\ n \notin r.changed /\ r.failedNode = 0 /\ r.rollbackFailed = {}
        /\ r.evidence \cup r.todo = TopoNode /\ r.changed \cap r.todo = {} /\ n # 0
        /\ r.code # "deployed"
    BY <1>0, TopoAssumption DEF Progress, Advancing
  \* What the deployer has changed is recorded with what the node carried.
  <1>2. ASSUME NEW s \in ADeployment, Goes(d, s), carries' = [carries EXCEPT ![n] = r.rev],
               s.changed = r.changed \cup {n}, s.token = [r.token EXCEPT ![n] = carries[n]],
               s.rev = r.rev, s.before = r.before, s.alone = r.alone, s.todo = r.todo,
               s.evidence = r.evidence, s.rollbackFailed = r.rollbackFailed,
               s.code # "deployed",
               \/ s.pc = "verify" /\ s.failedNode = 0
               \/ s.pc = "restore" /\ s.failedNode = n
        PROVE DeploymentInv'
    <2>1. deployment'[d] = s
      BY <1>2 DEF Goes, DeploymentInv, DeploymentTypes
    <2>2. carries' \in [TopoNode -> Nat]
      BY <1>0, <1>2 DEF ADeployment
    <2>3. Progress(d)'
      <3>1. \A m \in s.changed \cap s.todo : m = n
        BY <1>1, <1>2
      <3>2. Current(d, n)'
        BY <1>0, <1>2, <2>1 DEF Current
      <3> QED BY <1>1, <1>2, <2>1, <3>1, <3>2 DEF Progress, Advancing
    <2>4. Undisturbed(d)'
      <3> SUFFICES ASSUME s.alone
                   PROVE /\ \A e \in Deployment \ {d} : ~InFlight(e)'
                         /\ \A m \in s.changed : s.token[m] = s.before[m]
                         /\ \A m \in TopoNode \ (s.changed \cup s.rollbackFailed \cup {s.failedNode}) :
                                carries'[m] = s.before[m]
                         /\ s.pc \in Advancing => \A m \in TopoNode \ s.todo : carries'[m] = s.rev
        BY <2>1 DEF Undisturbed
      <3>1. /\ \A e \in Deployment \ {d} : ~InFlight(e)
            /\ \A m \in r.changed : r.token[m] = r.before[m]
            /\ \A m \in TopoNode \ r.changed : m # 0 => carries[m] = r.before[m]
            /\ \A m \in TopoNode \ r.todo : carries[m] = r.rev
        BY <1>0, <1>1, <1>2 DEF Undisturbed, Advancing
      <3>2. \A e \in Deployment \ {d} : ~InFlight(e)'
        BY <1>2, <3>1 DEF Goes, InFlight, DeploymentInv, DeploymentTypes
      <3>3. \A m \in TopoNode : m # 0
        BY TopoAssumption
      <3>4. \A m \in s.changed : s.token[m] = s.before[m]
        BY <1>0, <1>1, <1>2, <3>1, <3>3 DEF ADeployment
      <3>5. \A m \in TopoNode \ s.changed : carries'[m] = s.before[m]
        BY <1>0, <1>2, <3>1, <3>3
      <3>6. \A m \in TopoNode \ s.todo : carries'[m] = s.rev
        BY <1>0, <1>2, <3>1
      <3> QED BY <3>2, <3>4, <3>5, <3>6
    <2> QED BY <1>0, <1>2, <2>2, <2>3, <2>4, InFlightStep
  <1> DEFINE c == [r EXCEPT !.pc = "verify", !.changed = r.changed \cup {n}, !.token[n] = carries[n]]
             f == [Failing(d, "nodeFailed", n) EXCEPT !.changed = r.changed \cup {n}, !.token[n] = carries[n]]
             k == [r EXCEPT !.pc = "verify"]
  <1>3. /\ c \in ADeployment /\ c.changed = r.changed \cup {n} /\ c.token = [r.token EXCEPT ![n] = carries[n]]
        /\ c.rev = r.rev /\ c.before = r.before /\ c.alone = r.alone /\ c.todo = r.todo
        /\ c.evidence = r.evidence /\ c.rollbackFailed = r.rollbackFailed
        /\ c.pc = "verify" /\ c.failedNode = 0 /\ c.code # "deployed"
    <2>1. carries[n] \in Nat /\ r \in ADeployment
      BY <1>0
    <2>2. c \in ADeployment
      BY <2>1, ChangedTyped
    <2> QED BY <1>1, <2>1, <2>2 DEF ADeployment
  <1>4. /\ f \in ADeployment /\ f.changed = r.changed \cup {n} /\ f.token = [r.token EXCEPT ![n] = carries[n]]
        /\ f.rev = r.rev /\ f.before = r.before /\ f.alone = r.alone /\ f.todo = r.todo
        /\ f.evidence = r.evidence /\ f.rollbackFailed = r.rollbackFailed
        /\ f.pc = "restore" /\ f.failedNode = n /\ f.code # "deployed"
    <2> DEFINE g == Failing(d, "nodeFailed", n)
    <2>1. g \in ADeployment
      BY <1>0 DEF Failing, ADeployment
    <2>2. /\ g.changed = r.changed /\ g.token = r.token /\ g.rev = r.rev /\ g.before = r.before
          /\ g.alone = r.alone /\ g.todo = r.todo /\ g.evidence = r.evidence
          /\ g.rollbackFailed = r.rollbackFailed /\ g.pc = "restore" /\ g.failedNode = n
          /\ g.code # "deployed"
      BY <1>0 DEF Failing, ADeployment
    <2> HIDE DEF g
    <2>3. [g EXCEPT !.changed = r.changed \cup {n}, !.token[n] = carries[n]] \in ADeployment
      <3> DEFINE tokens == [g.token EXCEPT ![n] = carries[n]]
                 nodes == r.changed \cup {n}
      <3>1. tokens \in [TopoNode -> Nat] /\ nodes \in SUBSET TopoNode
        BY <1>0, <2>1 DEF ADeployment
      <3>2. [g EXCEPT !.changed = nodes, !.token[n] = carries[n]]
              = [g EXCEPT !.changed = nodes, !.token = tokens]
        BY <2>1 DEF ADeployment
      <3> HIDE DEF tokens, nodes
      <3>3. [g EXCEPT !.changed = nodes, !.token = tokens] \in ADeployment
        BY <2>1, <3>1 DEF ADeployment
      <3> QED BY <3>2, <3>3 DEF nodes
    <2> QED BY <1>0, <2>1, <2>2, <2>3 DEF ADeployment, g
  <1>5. /\ k \in ADeployment /\ k.changed = r.changed /\ k.token = r.token
        /\ k.rev = r.rev /\ k.before = r.before /\ k.alone = r.alone /\ k.todo = r.todo
        /\ k.evidence = r.evidence /\ k.rollbackFailed = r.rollbackFailed
        /\ k.pc = "verify" /\ k.failedNode = 0 /\ k.code # "deployed"
    BY <1>0, <1>1 DEF ADeployment
  <1>6. \/ carries' = [carries EXCEPT ![n] = r.rev] /\ (Goes(d, c) \/ Goes(d, f))
        \/ carries' = carries /\ Goes(d, k)
    BY DEF Apply
  <1> HIDE DEF c, f, k
  \* The node carries the revision already.
  <1>7. CASE carries' = carries /\ Goes(d, k)
    <2>1. deployment'[d] = k
      BY <1>7 DEF Goes, DeploymentInv, DeploymentTypes
    <2>2. Progress(d)'
      BY <1>1, <1>5, <2>1 DEF Progress, Advancing
    <2>3. \A e \in Deployment \ {d} : InFlight(e)' => InFlight(e)
      BY <1>7 DEF Goes, InFlight, DeploymentInv, DeploymentTypes
    <2>4. Undisturbed(d)'
      BY <1>0, <1>1, <1>5, <1>7, <2>1, <2>3 DEF Undisturbed, Advancing
    <2> QED BY <1>0, <1>5, <1>7, <2>2, <2>4, InFlightStep
  <1> QED
    BY <1>2, <1>3, <1>4, <1>6, <1>7

\* Whatever fails before the nodes are restored touches no node but the one the
\* answer will name.
LEMMA FailKeeps ==
  ASSUME DeploymentInv, NEW d \in Deployment, deployment[d].pc \in Advancing,
         NEW node \in TopoNode \cup {0},
         NEW code \in {"stale", "nodeFailed", "contractViolation", "verificationFailed", "updateFailed"},
         Goes(d, Failing(d, code, node)), topoRev' = topoRev, topoDeployed' \in Nat,
         topoDeployed' <= topoRev, carries' \in [TopoNode -> Nat],
         \A m \in TopoNode \ {node} : carries'[m] = carries[m]
  PROVE  DeploymentInv'
  <1> DEFINE r == deployment[d]
             s == Failing(d, code, node)
  <1>1. /\ r \in ADeployment /\ Progress(d) /\ Undisturbed(d) /\ InFlight(d)
    BY DEF DeploymentInv, DeploymentTypes, InFlight, Advancing
  <1>2. /\ s \in ADeployment /\ s.pc = "restore" /\ s.failedNode = node /\ s.changed = r.changed
        /\ s.token = r.token /\ s.before = r.before /\ s.alone = r.alone
        /\ s.rollbackFailed = {} /\ r.rollbackFailed = {} /\ r.failedNode = 0
        /\ s.code # "deployed"
    BY <1>1 DEF Failing, ADeployment, Progress
  <1> HIDE DEF s
  <1>3. deployment'[d] = s /\ \A e \in Deployment \ {d} : deployment'[e] = deployment[e]
    BY DEF Goes, DeploymentInv, DeploymentTypes, s
  <1>4. Progress(d)'
    BY <1>2, <1>3 DEF Progress, Advancing
  <1>5. \A e \in Deployment \ {d} : InFlight(e)' => InFlight(e)
    BY <1>3 DEF InFlight
  <1>6. \A m \in TopoNode : m # 0
    BY TopoAssumption
  <1>7. Undisturbed(d)'
    BY <1>1, <1>2, <1>3, <1>5, <1>6 DEF Undisturbed, Advancing
  <1> QED BY <1>1, <1>2, <1>4, <1>7, InFlightStep DEF s

LEMMA ApplyFailsKeeps ==
  ASSUME DeploymentInv, NEW d \in Deployment, NEW n \in TopoNode, ApplyFails(d, n) PROVE DeploymentInv'
  <1>1. deployment[d].pc \in Advancing /\ topoRev' = topoRev /\ topoDeployed' = topoDeployed
        /\ topoDeployed \in Nat /\ topoDeployed <= topoRev /\ carries \in [TopoNode -> Nat]
        /\ deployment[d].rev \in Nat
    BY DEF ApplyFails, Advancing, DeploymentInv, DeploymentTypes, ADeployment
  <1>2. carries' \in [TopoNode -> Nat] /\ \A m \in TopoNode \ {n} : carries'[m] = carries[m]
    BY <1>1 DEF ApplyFails
  <1>3. PICK code \in {"nodeFailed", "contractViolation"} : Goes(d, Failing(d, code, n))
    BY DEF ApplyFails
  <1> QED BY <1>1, <1>2, <1>3, FailKeeps

LEMMA VerifyFailsKeeps ==
  ASSUME DeploymentInv, NEW d \in Deployment, NEW n \in TopoNode, VerifyFails(d, n) PROVE DeploymentInv'
  <1>1. deployment[d].pc \in Advancing /\ topoRev' = topoRev /\ topoDeployed' = topoDeployed
        /\ topoDeployed \in Nat /\ topoDeployed <= topoRev /\ carries \in [TopoNode -> Nat]
        /\ carries' = carries /\ Goes(d, Failing(d, "verificationFailed", n))
    BY DEF VerifyFails, Advancing, DeploymentInv, DeploymentTypes
  <1> QED BY <1>1, FailKeeps

LEMMA VerifyKeeps ==
  ASSUME DeploymentInv, NEW d \in Deployment, NEW n \in TopoNode, Verify(d, n) PROVE DeploymentInv'
  <1> DEFINE r == deployment[d]
             rest == r.todo \ {n}
             s == [r EXCEPT !.pc = IF rest = {} THEN "mark" ELSE "apply",
                            !.todo = rest, !.evidence = r.evidence \cup {n}]
  <1>1. /\ r \in ADeployment /\ r.pc = "verify" /\ Current(d, n) /\ n \in r.todo /\ carries[n] = r.rev
        /\ Progress(d) /\ Undisturbed(d) /\ InFlight(d) /\ Goes(d, s)
        /\ topoRev' = topoRev /\ topoDeployed' = topoDeployed /\ carries' = carries
        /\ topoDeployed \in Nat /\ topoDeployed <= topoRev /\ carries \in [TopoNode -> Nat]
    BY DEF Verify, Current, DeploymentInv, DeploymentTypes, InFlight
  <1>2. /\ s \in ADeployment /\ s.todo = rest /\ s.evidence = r.evidence \cup {n}
        /\ s.pc = IF rest = {} THEN "mark" ELSE "apply"
        /\ s.changed = r.changed /\ s.token = r.token /\ s.before = r.before /\ s.rev = r.rev
        /\ s.alone = r.alone /\ s.failedNode = r.failedNode /\ s.rollbackFailed = r.rollbackFailed
        /\ s.code = r.code
    BY <1>1 DEF ADeployment
  <1> HIDE DEF s
  <1>3. deployment'[d] = s /\ \A e \in Deployment \ {d} : deployment'[e] = deployment[e]
    BY <1>1 DEF Goes, DeploymentInv, DeploymentTypes
  <1>4. /\ r.failedNode = 0 /\ r.rollbackFailed = {} /\ r.evidence \cup r.todo = TopoNode
        /\ \A m \in r.changed \cap r.todo : Current(d, m)
    BY <1>1 DEF Progress, Advancing
  <1>5. r.changed \cap rest = {}
    <2> SUFFICES ASSUME NEW m \in r.changed \cap rest PROVE FALSE
      OBVIOUS
    <2>1. m \in TopoNode /\ Current(d, m)
      BY <1>1, <1>4 DEF ADeployment
    <2> QED BY <1>1, <2>1, CurrentUnique
  <1>6. Progress(d)'
    BY <1>1, <1>2, <1>3, <1>4, <1>5 DEF Progress, Advancing
  <1>7. \A e \in Deployment \ {d} : InFlight(e)' => InFlight(e)
    BY <1>3 DEF InFlight
  <1>8. \A m \in TopoNode \ rest : m = n \/ m \in TopoNode \ r.todo
    OBVIOUS
  <1>9. Undisturbed(d)'
    <2> SUFFICES ASSUME s.alone
                 PROVE /\ \A e \in Deployment \ {d} : ~InFlight(e)'
                       /\ \A m \in s.changed : s.token[m] = s.before[m]
                       /\ \A m \in TopoNode \ (s.changed \cup s.rollbackFailed \cup {s.failedNode}) :
                              carries'[m] = s.before[m]
                       /\ \A m \in TopoNode \ s.todo : carries'[m] = s.rev
      BY <1>3 DEF Undisturbed
    <2> QED BY <1>1, <1>2, <1>7, <1>8 DEF Undisturbed, Advancing
  <1> QED BY <1>1, <1>2, <1>6, <1>9, InFlightStep

\* Restoring a node gives it what it carried, or is named as failed.
LEMMA RestoreKeeps ==
  ASSUME DeploymentInv, NEW d \in Deployment, NEW n \in TopoNode, Restore(d, n) PROVE DeploymentInv'
  <1> DEFINE r == deployment[d]
             s == [r EXCEPT !.changed = r.changed \ {n}, !.rolledBack = r.rolledBack \cup {n}]
             f == [r EXCEPT !.changed = r.changed \ {n}, !.rollbackFailed = r.rollbackFailed \cup {n}]
  <1>1. /\ r \in ADeployment /\ r.pc = "restore" /\ n \in r.changed
        /\ Progress(d) /\ Undisturbed(d) /\ InFlight(d)
        /\ topoRev' = topoRev /\ topoDeployed' = topoDeployed
        /\ topoDeployed \in Nat /\ topoDeployed <= topoRev /\ carries \in [TopoNode -> Nat]
        /\ r.token[n] \in Nat
    BY DEF Restore, LastChanged, DeploymentInv, DeploymentTypes, InFlight, ADeployment
  <1>2. /\ s \in ADeployment /\ s.pc = "restore" /\ s.changed = r.changed \ {n}
        /\ s.token = r.token /\ s.before = r.before /\ s.alone = r.alone
        /\ s.failedNode = r.failedNode /\ s.rollbackFailed = r.rollbackFailed
        /\ s.code = r.code
    BY <1>1 DEF ADeployment
  <1>3. /\ f \in ADeployment /\ f.pc = "restore" /\ f.changed = r.changed \ {n}
        /\ f.token = r.token /\ f.before = r.before /\ f.alone = r.alone
        /\ f.failedNode = r.failedNode /\ f.rollbackFailed = r.rollbackFailed \cup {n}
        /\ f.code = r.code
    BY <1>1 DEF ADeployment
  <1>4. \/ Goes(d, s) /\ carries' = [carries EXCEPT ![n] = r.token[n]]
        \/ Goes(d, f) /\ (carries' = carries \/ carries' = [carries EXCEPT ![n] = r.token[n]])
    BY DEF Restore
  <1> HIDE DEF s, f
  <1>5. carries' \in [TopoNode -> Nat] /\ \A m \in TopoNode \ {n} : carries'[m] = carries[m]
    BY <1>1, <1>4
  <1>6. ASSUME NEW q \in ADeployment, Goes(d, q), q.pc = "restore", q.changed = r.changed \ {n},
               q.token = r.token, q.before = r.before, q.alone = r.alone, q.failedNode = r.failedNode,
               q.code = r.code,
               \/ q.rollbackFailed = r.rollbackFailed /\ carries'[n] = r.token[n]
               \/ q.rollbackFailed = r.rollbackFailed \cup {n}
        PROVE DeploymentInv'
    <2>1. deployment'[d] = q /\ \A e \in Deployment \ {d} : deployment'[e] = deployment[e]
      BY <1>6 DEF Goes, DeploymentInv, DeploymentTypes
    <2>2. \A e \in Deployment \ {d} : InFlight(e)' => InFlight(e)
      BY <2>1 DEF InFlight
    <2>3. Progress(d)'
      BY <1>1, <1>6, <2>1 DEF Progress, Advancing
    <2>4. Undisturbed(d)'
      BY <1>1, <1>5, <1>6, <2>1, <2>2 DEF Undisturbed, Advancing
    <2> QED BY <1>1, <1>5, <1>6, <2>3, <2>4, InFlightStep
  <1>7. CASE Goes(d, s) /\ carries' = [carries EXCEPT ![n] = r.token[n]]
    <2>1. carries'[n] = r.token[n]
      BY <1>1, <1>7
    <2> QED BY <1>2, <1>6, <1>7, <2>1
  <1>8. CASE Goes(d, f)
    BY <1>3, <1>6, <1>8
  <1> QED BY <1>4, <1>7, <1>8

\* A request that has ended claims nothing any more.
LEMMA EndKeeps ==
  ASSUME DeploymentInv, NEW d \in Deployment, InFlight(d), NEW s \in ADeployment, Goes(d, s), s.pc = "ended",
         topoRev' = topoRev, topoDeployed' \in Nat, topoDeployed' <= topoRev, carries' = carries
  PROVE  DeploymentInv'
  <1>1. deployment'[d] = s
    BY DEF Goes, DeploymentInv, DeploymentTypes
  <1>2. Progress(d)' /\ Undisturbed(d)'
    BY <1>1 DEF Progress, Undisturbed, InFlight, Advancing
  <1>3. carries' \in [TopoNode -> Nat]
    BY DEF DeploymentInv, DeploymentTypes
  <1> QED BY <1>2, <1>3, InFlightStep

LEMMA AnswerFailedKeeps ==
  ASSUME DeploymentInv, NEW d \in Deployment, AnswerFailed(d) PROVE DeploymentInv'
  <1> DEFINE s == [deployment[d] EXCEPT !.pc = "ended"]
  <1>1. s \in ADeployment /\ s.pc = "ended" /\ InFlight(d)
    <2>1. deployment[d] \in ADeployment /\ deployment[d].pc = "restore"
      BY DEF DeploymentInv, DeploymentTypes, AnswerFailed
    <2> QED BY <2>1 DEF ADeployment, InFlight
  <1>2. Goes(d, s) /\ topoRev' = topoRev /\ topoDeployed' = topoDeployed /\ carries' = carries
        /\ topoDeployed \in Nat /\ topoDeployed <= topoRev
    BY DEF AnswerFailed, DeploymentInv, DeploymentTypes
  <1> QED BY <1>1, <1>2, EndKeeps

LEMMA MarkDeployedKeeps ==
  ASSUME DeploymentInv, NEW d \in Deployment, MarkDeployed(d) PROVE DeploymentInv'
  <1> DEFINE r == deployment[d]
             s == [r EXCEPT !.pc = "ended", !.code = "deployed"]
  <1>1. /\ r \in ADeployment /\ r.pc \in Advancing /\ InFlight(d)
        /\ topoRev \in Nat /\ topoDeployed \in Nat /\ topoDeployed <= topoRev
        /\ carries \in [TopoNode -> Nat]
        /\ topoRev' = topoRev /\ carries' = carries
    BY DEF MarkDeployed, DeploymentInv, DeploymentTypes, InFlight, Advancing
  <1>2. s \in ADeployment /\ s.pc = "ended"
    BY <1>1 DEF ADeployment
  <1>3. topoDeployed' \in Nat /\ topoDeployed' <= topoRev
    <2>1. topoDeployed' = topoDeployed \/ topoDeployed' = topoRev
      BY DEF MarkDeployed, Unmoved
    <2> QED BY <1>1, <2>1
  <1>4. \/ Goes(d, s) \/ Goes(d, Failing(d, "updateFailed", 0)) \/ Goes(d, Failing(d, "stale", 0))
    BY DEF MarkDeployed
  <1>5. CASE Goes(d, s)
    BY <1>1, <1>2, <1>3, <1>5, EndKeeps
  <1>6. ASSUME NEW code \in {"updateFailed", "stale"}, Goes(d, Failing(d, code, 0)) PROVE DeploymentInv'
    BY <1>1, <1>3, <1>6, FailKeeps
  <1> QED BY <1>4, <1>5, <1>6

LEMMA StripKeeps ==
  ASSUME DeploymentInv, NEW n \in TopoNode, Strip(n) PROVE DeploymentInv'
  <1>1. ASSUME NEW e \in Deployment
        PROVE  deployment'[e] \in ADeployment /\ Progress(e)' /\ Undisturbed(e)'
    <2> DEFINE r == deployment[e]
               q == deployment'[e]
    <2>1. r \in ADeployment /\ Progress(e)
      BY DEF DeploymentInv, DeploymentTypes
    <2>2. q = [r EXCEPT !.alone = FALSE]
      BY DEF Strip
    <2>3. /\ q \in ADeployment /\ q.pc = r.pc /\ ~q.alone /\ q.failedNode = r.failedNode
          /\ q.todo = r.todo /\ q.rollbackFailed = r.rollbackFailed /\ q.evidence = r.evidence
          /\ q.changed = r.changed /\ q.code = r.code
      BY <2>1, <2>2 DEF ADeployment
    <2>4. Progress(e)'
      BY <2>1, <2>3 DEF Progress, Current
    <2>5. Undisturbed(e)'
      BY <2>3 DEF Undisturbed
    <2> QED BY <2>3, <2>4, <2>5
  <1>2. DeploymentTypes'
    BY <1>1 DEF Strip, DeploymentInv, DeploymentTypes
  <1> QED BY <1>1, <1>2 DEF DeploymentInv

LEMMA DeploymentInvNext == DeploymentInv /\ [DeploymentNext]_deploymentVars => DeploymentInv'
  <1> SUFFICES ASSUME DeploymentInv, [DeploymentNext]_deploymentVars PROVE DeploymentInv'
    OBVIOUS
  <1>1. ASSUME topoRev' \in Nat, topoDeployed' \in Nat, topoDeployed' <= topoRev',
               UNCHANGED <<carries, deployment>>
        PROVE DeploymentInv'
    BY <1>1 DEF DeploymentInv, DeploymentTypes, Progress, Undisturbed, InFlight, Current
  <1>2. CASE NextDraft
    <2>1. topoRev' \in Nat /\ topoDeployed' \in Nat /\ topoDeployed' <= topoRev'
      BY <1>2 DEF NextDraft, DeploymentInv, DeploymentTypes
    <2> QED BY <1>1, <1>2, <2>1 DEF NextDraft
  <1>3. CASE Forget
    <2>1. topoRev' \in Nat /\ topoDeployed' \in Nat /\ topoDeployed' <= topoRev'
      BY <1>3 DEF Forget, DeploymentInv, DeploymentTypes
    <2> QED BY <1>1, <1>3, <2>1 DEF Forget
  <1>4. CASE UNCHANGED deploymentVars
    <2>1. topoRev' \in Nat /\ topoDeployed' \in Nat /\ topoDeployed' <= topoRev'
      BY <1>4 DEF deploymentVars, DeploymentInv, DeploymentTypes
    <2> QED BY <1>1, <1>4, <2>1 DEF deploymentVars
  <1> QED
    BY <1>2, <1>3, <1>4, PinKeeps, MarkDeployedKeeps, AnswerFailedKeeps, ApplyKeeps, ApplyFailsKeeps,
       VerifyKeeps, VerifyFailsKeeps, RestoreKeeps, StripKeeps DEF DeploymentNext

LEMMA EndsAllOrNothing ==
  ASSUME DeploymentInv, [DeploymentNext]_deploymentVars, NEW d \in Deployment,
         deployment[d].pc # "ended", deployment'[d].pc = "ended", deployment[d].alone,
         NEW n \in TopoNode
  PROVE  IF deployment'[d].code = "deployed" THEN carries'[n] = deployment'[d].rev
         ELSE carries'[n] # deployment'[d].before[n] =>
                  n \in deployment'[d].rollbackFailed \cup {deployment'[d].failedNode}
  <1> DEFINE r == deployment[d]
             s == deployment'[d]
  <1>0. r \in ADeployment /\ Progress(d) /\ Undisturbed(d) /\ r.pc # "none"
    BY DEF DeploymentInv, DeploymentTypes, Progress
  \* A step of a request moves no other one on.
  <1>1. ASSUME NEW e \in Deployment, NEW q, Goes(e, q) PROVE e = d /\ s = q
    <2>1. e # d => s = r
      BY <1>1 DEF Goes, DeploymentInv, DeploymentTypes
    <2>2. e = d
      BY <2>1
    <2> QED BY <1>1, <2>2 DEF Goes, DeploymentInv, DeploymentTypes
  <1>2. \A e \in Deployment : ~Pin(e)
    <2> SUFFICES ASSUME NEW e \in Deployment, Pin(e) PROVE FALSE
      OBVIOUS
    <2>1. e = d => FALSE
      BY <1>0 DEF Pin
    <2>2. e # d => s.pc = r.pc
      <3> SUFFICES ASSUME e # d PROVE s.pc = r.pc
        OBVIOUS
      <3>1. s = r \/ s = [r EXCEPT !.alone = FALSE]
        BY DEF Pin, Goes, DeploymentInv, DeploymentTypes
      <3> QED BY <1>0, <3>1 DEF ADeployment
    <2> QED BY <2>1, <2>2
  <1>3. ASSUME NEW m \in TopoNode, Strip(m) PROVE FALSE
    <2>1. s = [r EXCEPT !.alone = FALSE]
      BY <1>3 DEF Strip
    <2> QED BY <1>0, <2>1 DEF ADeployment
  <1>4. ~NextDraft /\ ~Forget /\ deploymentVars' # deploymentVars
    BY DEF NextDraft, Forget, deploymentVars
  <1>5. ASSUME NEW e \in Deployment, NEW m \in TopoNode,
               Apply(e, m) \/ ApplyFails(e, m) \/ Verify(e, m) \/ VerifyFails(e, m) \/ Restore(e, m)
        PROVE  FALSE
    <2>1. deployment[e] \in ADeployment
      BY DEF DeploymentInv, DeploymentTypes
    <2>2. PICK q : Goes(e, q)
      BY <1>5 DEF Apply, ApplyFails, Verify, VerifyFails, Restore
    <2>3. e = d
      BY <1>1, <2>2
    <2>4. s.pc # "ended"
      <3>1. CASE Apply(e, m)
        BY <1>1, <2>1, <2>3, <3>1 DEF Apply, Failing, ADeployment
      <3>2. CASE ApplyFails(e, m)
        BY <1>1, <2>1, <2>3, <3>2 DEF ApplyFails, Failing, ADeployment
      <3>3. CASE Verify(e, m)
        BY <1>1, <2>1, <2>3, <3>3 DEF Verify, ADeployment
      <3>4. CASE VerifyFails(e, m)
        BY <1>1, <2>1, <2>3, <3>4 DEF VerifyFails, Failing, ADeployment
      <3>5. CASE Restore(e, m)
        BY <1>1, <2>1, <2>3, <3>5 DEF Restore, ADeployment
      <3> QED BY <1>5, <3>1, <3>2, <3>3, <3>4, <3>5
    <2> QED BY <2>4
  <1>6. CASE \E e \in Deployment : AnswerFailed(e)
    <2>1. PICK e \in Deployment : AnswerFailed(e)
      BY <1>6
    <2>2. /\ e = d /\ s = [r EXCEPT !.pc = "ended"] /\ r.pc = "restore" /\ r.changed = {}
          /\ carries' = carries
      BY <1>1, <2>1 DEF AnswerFailed
    <2>3. /\ s.code = r.code /\ s.before = r.before /\ s.rollbackFailed = r.rollbackFailed
          /\ s.failedNode = r.failedNode
      BY <1>0, <2>2 DEF ADeployment
    <2>4. n \notin r.rollbackFailed \cup {r.failedNode} => carries[n] = r.before[n]
      BY <1>0, <2>2 DEF Undisturbed, InFlight
    <2>5. r.code # "deployed"
      BY <1>0, <2>2 DEF Progress
    <2> QED BY <2>2, <2>3, <2>4, <2>5
  <1>7. CASE \E e \in Deployment : MarkDeployed(e)
    <2>1. PICK e \in Deployment : MarkDeployed(e)
      BY <1>7
    <2>2. PICK q : Goes(e, q)
      BY <2>1 DEF MarkDeployed
    <2>3. e = d
      BY <1>1, <2>2
    <2>4. r.pc = "mark" /\ carries' = carries
      BY <2>1, <2>3 DEF MarkDeployed
    <2>5. s = [r EXCEPT !.pc = "ended", !.code = "deployed"]
      <3>1. \A code \in {"stale", "updateFailed"} : Failing(d, code, 0).pc = "restore"
        BY <1>0 DEF Failing, ADeployment
      <3> QED BY <1>1, <2>1, <2>3, <3>1 DEF MarkDeployed
    <2>6. s.code = "deployed" /\ s.rev = r.rev
      BY <1>0, <2>5 DEF ADeployment
    <2>7. r.todo = {}
      BY <1>0, <2>4 DEF Progress
    <2>8. \A m \in TopoNode : carries[m] = r.rev
      BY <1>0, <2>4, <2>7 DEF Undisturbed, InFlight, Advancing
    <2> QED BY <2>4, <2>6, <2>8
  <1> QED
    BY <1>2, <1>3, <1>4, <1>5, <1>6, <1>7 DEF DeploymentNext

LEMMA AdvanceStep ==
  ASSUME DeploymentInv, DeploymentNext, topoDeployed' \notin {topoDeployed, 0}
  PROVE  /\ topoDeployed' = topoRev /\ topoDeployed < topoDeployed'
         /\ \E d \in Deployment :
             /\ deployment[d].pc = "mark" /\ deployment[d].rev = topoRev
             /\ deployment[d].evidence = TopoNode
  <1>1. PICK d \in Deployment : MarkDeployed(d)
    BY DEF DeploymentNext, Pin, AnswerFailed, Apply, ApplyFails, Verify, VerifyFails, Restore,
           NextDraft, Strip, Forget
  <1>2. deployment[d].pc = "mark" /\ Unmoved(d) /\ topoDeployed' = deployment[d].rev
    BY <1>1 DEF MarkDeployed
  <1>3. Progress(d) /\ deployment[d] \in ADeployment
        /\ topoRev \in Nat /\ topoDeployed \in Nat /\ topoDeployed <= topoRev
    BY DEF DeploymentInv, DeploymentTypes
  <1>4. deployment[d].evidence = TopoNode
    BY <1>2, <1>3 DEF Progress, Advancing
  <1>5. topoDeployed' = topoRev
    BY <1>2 DEF Unmoved
  <1>6. topoDeployed < topoDeployed'
    BY <1>3, <1>5
  <1> QED BY <1>2, <1>4, <1>5, <1>6

(* Nodes and record tell the same as the answers, for any number of nodes,  *)
(* requests, edits and undeployments in any order.                          *)
THEOREM DeploymentsAreHonestHold == DeploymentSpec => DeploymentsAreHonest
  <1>1. DeploymentInv /\ [DeploymentNext]_deploymentVars =>
            [AllOrNothing /\ AdvanceIsEarned]_deploymentVars
    <2>1. DeploymentInv /\ DeploymentNext => AllOrNothing
      BY EndsAllOrNothing DEF AllOrNothing
    <2>2. DeploymentInv /\ DeploymentNext => AdvanceIsEarned
      BY AdvanceStep DEF AdvanceIsEarned
    <2> QED BY <2>1, <2>2
  <1> QED
    BY DeploymentInvInit, DeploymentInvNext, <1>1, PTL DEF DeploymentSpec, DeploymentsAreHonest

-----------------------------------------------------------------------------
(***************************************************************************)
(* NetworkMap. A tab knows no revision that is yet to come (Behind), and   *)
(* the settings its form was filled from are some the link has had at the  *)
(* tab's revision or a later one (FormSeen, RequestSeen). The guard of the *)
(* server leaves only the revision of now.                                 *)
(***************************************************************************)

Rev == Nat \cup {None}
AnyDrawing == [MapLink -> Nat]

AListing == [on : BOOLEAN, read : BOOLEAN, links : AnyDrawing, rev : Rev]
AForm    ==
    {f \in [pc : {"closed", "listing", "fetching", "open"}, link : MapLink \cup {None},
            base : Nat, quiet : BOOLEAN] :
        f.pc = "fetching" => f.link \in MapLink}
ARequest == [pc : {"none", "sent", "done"}, kind : {"none", "create", "update", "delete", "deploy"},
             link : MapLink \cup {None}, base : Nat, quiet : BOOLEAN, expected : Rev, rev : Rev]

LinkTypes ==
    /\ mapRev \in Nat /\ changes \in Nat /\ mapRev <= changes /\ changes <= MaxChanges
    /\ mapLinks \in AnyDrawing
    /\ linksAt \in [0 .. MaxChanges -> SUBSET AnyDrawing]

TabTypes ==
    /\ tabRev \in [Tab -> Rev]
    /\ tabLinks \in [Tab -> AnyDrawing]
    /\ listing \in [Tab -> [Asker -> AListing]]
    /\ form \in [Tab -> AForm]
    /\ request \in [Tab -> ARequest]

\* Some revision since `rev` has had link k with these settings.
Seen(rev, k, settings) ==
    \E r \in 0 .. mapRev : rev <= r /\ \E d \in linksAt[r] : d[k] = settings

\* No tab knows a revision that is yet to come.
Behind(t) ==
    /\ tabRev[t] <= mapRev /\ request[t].rev <= mapRev
    /\ \A a \in Asker : listing[t][a].rev <= mapRev

\* A filled form shows what the link has been since the tab's revision.
FormSeen(t) ==
    form[t].pc = "open" /\ form[t].quiet /\ form[t].link # None =>
        Seen(tabRev[t], form[t].link, form[t].base)

\* And so does a request that carries what the form was filled from.
RequestSeen(t) ==
    request[t].pc = "sent" /\ request[t].kind = "update" /\ request[t].quiet =>
        Seen(request[t].expected, request[t].link, request[t].base)

\* What is asked for is about a link, or deploys the draft.
OfLink(t) ==
    request[t].pc = "sent" /\ request[t].kind # "deploy" => request[t].link \in MapLink

TabInv(t) == Behind(t) /\ FormSeen(t) /\ RequestSeen(t) /\ OfLink(t)

MapInv ==
    /\ LinkTypes /\ TabTypes
    /\ mapLinks \in linksAt[mapRev]
    /\ \A t \in Tab : TabInv(t)

LEMMA MapInvInit == MapInit => MapInv
  <1> SUFFICES ASSUME MapInit PROVE MapInv
    OBVIOUS
  <1>1. NoLinks \in AnyDrawing
    BY DEF NoLinks, AnyDrawing
  <1>2. NoListing \in AListing /\ NoListing.rev = -1
    BY <1>1 DEF NoListing, AListing, Rev, None
  <1>3. NoForm \in AForm /\ NoForm.pc = "closed"
    BY DEF NoForm, AForm
  <1>4. NoRequest \in ARequest /\ NoRequest.pc = "none" /\ NoRequest.rev = -1
    BY DEF NoRequest, ARequest, Rev, None
  <1>5. LinkTypes /\ mapLinks \in linksAt[mapRev]
    <2>1. mapLinks \in AnyDrawing
      BY DEF MapInit, AnyDrawing
    <2>2. linksAt \in [0 .. MaxChanges -> SUBSET AnyDrawing] /\ mapLinks \in linksAt[0]
      BY <2>1, MapAssumption DEF MapInit
    <2> QED BY <2>1, <2>2, MapAssumption DEF MapInit, LinkTypes
  <1>6. TabTypes
    BY <1>1, <1>2, <1>3, <1>4 DEF MapInit, TabTypes, Rev
  <1>7. \A t \in Tab : TabInv(t)
    BY <1>2, <1>3, <1>4 DEF MapInit, TabInv, Behind, FormSeen, RequestSeen, OfLink, None
  <1> QED BY <1>5, <1>6, <1>7 DEF MapInv

\* What has been seen stays seen as the draft moves on.
LEMMA StillSeen ==
  ASSUME mapRev \in Nat, mapRev' \in Nat, mapRev <= mapRev',
         \A r \in 0 .. mapRev : linksAt[r] \subseteq linksAt'[r],
         NEW rev, NEW k, NEW settings, Seen(rev, k, settings)
  PROVE  Seen(rev, k, settings)'
  BY DEF Seen

LEMMA RevBehind ==
  ASSUME NEW r \in Rev, r <= mapRev, mapRev \in Nat, mapRev' \in Nat, mapRev <= mapRev'
  PROVE  r <= mapRev'
  <1>1. r \in Int
    BY DEF Rev, None
  <1> QED BY <1>1

\* A tab that does nothing.
LEMMA TabKeeps ==
  ASSUME MapInv, NEW t \in Tab, mapRev' \in Nat, mapRev <= mapRev',
         \A r \in 0 .. mapRev : linksAt[r] \subseteq linksAt'[r],
         tabRev'[t] = tabRev[t], listing'[t] = listing[t], form'[t] = form[t], request'[t] = request[t]
  PROVE  TabInv(t)'
  <1>1. TabInv(t) /\ mapRev \in Nat /\ tabRev[t] \in Rev /\ request[t] \in ARequest
        /\ \A a \in Asker : listing[t][a] \in AListing
    BY DEF MapInv, LinkTypes, TabTypes
  <1>2. request[t].rev \in Rev /\ \A a \in Asker : listing[t][a].rev \in Rev
    BY <1>1 DEF ARequest, AListing
  <1>3. Behind(t)'
    BY <1>1, <1>2, RevBehind DEF TabInv, Behind
  <1>4. FormSeen(t)' /\ RequestSeen(t)' /\ OfLink(t)'
    BY <1>1, StillSeen DEF TabInv, FormSeen, RequestSeen, OfLink
  <1> QED BY <1>3, <1>4 DEF TabInv

\* A change of the draft.
LEMMA LinksMove ==
  ASSUME MapInv, changes < MaxChanges, changes' = changes + 1, mapLinks' \in AnyDrawing,
         \/ NewRevision
         \/ /\ mapRev' = mapRev
            /\ linksAt' = [linksAt EXCEPT ![mapRev] = linksAt[mapRev] \cup {mapLinks'}]
  PROVE  /\ LinkTypes' /\ mapLinks' \in linksAt'[mapRev'] /\ mapRev <= mapRev'
         /\ \A r \in 0 .. mapRev : linksAt[r] \subseteq linksAt'[r]
  <1>1. /\ mapRev \in Nat /\ changes \in Nat /\ mapRev <= changes /\ changes < MaxChanges
        /\ changes' = changes + 1 /\ MaxChanges \in Nat
        /\ linksAt \in [0 .. MaxChanges -> SUBSET AnyDrawing]
    BY MapAssumption DEF MapInv, LinkTypes
  <1>2. mapLinks' \in AnyDrawing
    OBVIOUS
  <1>3. mapRev \in 0 .. MaxChanges /\ mapRev + 1 \in 0 .. MaxChanges
    BY <1>1
  <1>4. CASE NewRevision
    <2>1. mapRev' = mapRev + 1 /\ linksAt' = [linksAt EXCEPT ![mapRev + 1] = {mapLinks'}]
      BY <1>4 DEF NewRevision
    <2>2. mapLinks' \in linksAt'[mapRev'] /\ linksAt' \in [0 .. MaxChanges -> SUBSET AnyDrawing]
      BY <1>1, <1>2, <1>3, <2>1
    <2>3. \A r \in 0 .. mapRev : linksAt[r] = linksAt'[r]
      BY <1>1, <1>3, <2>1
    <2>4. LinkTypes'
      BY <1>1, <1>2, <2>1, <2>2 DEF LinkTypes
    <2> QED BY <1>1, <2>1, <2>2, <2>3, <2>4
  <1>5. CASE mapRev' = mapRev /\ linksAt' = [linksAt EXCEPT ![mapRev] = linksAt[mapRev] \cup {mapLinks'}]
    <2>1. mapLinks' \in linksAt'[mapRev'] /\ linksAt' \in [0 .. MaxChanges -> SUBSET AnyDrawing]
      BY <1>1, <1>2, <1>3, <1>5
    <2>2. \A r \in 0 .. mapRev : linksAt[r] \subseteq linksAt'[r]
      BY <1>1, <1>3, <1>5
    <2>3. LinkTypes'
      BY <1>1, <1>2, <1>5, <2>1 DEF LinkTypes
    <2> QED BY <1>1, <1>5, <2>1, <2>2, <2>3
  <1> QED BY <1>4, <1>5

LEMMA ChangeDraws ==
  ASSUME MapInv, NEW k \in MapLink, NEW removed \in BOOLEAN, ChangeLink(k, removed)
  PROVE  changes < MaxChanges /\ changes' = changes + 1 /\ mapLinks' \in AnyDrawing
  <1>1. mapLinks \in AnyDrawing /\ changes \in Nat
    BY DEF MapInv, LinkTypes
  <1> QED BY <1>1 DEF ChangeLink, AnyDrawing

LEMMA OutsideChange ==
  ASSUME MapInv, ClientChange \/ GroupChange \/ ToolChange PROVE MapInv'
  <1>1. changes < MaxChanges /\ changes' = changes + 1 /\ mapLinks' \in AnyDrawing
    BY ChangeDraws DEF ClientChange, GroupChange, ToolChange, MapInv, LinkTypes
  <1>2. \/ NewRevision
        \/ /\ mapRev' = mapRev
           /\ linksAt' = [linksAt EXCEPT ![mapRev] = linksAt[mapRev] \cup {mapLinks'}]
    BY DEF ClientChange, GroupChange, ToolChange
  <1>3. /\ LinkTypes' /\ mapLinks' \in linksAt'[mapRev'] /\ mapRev <= mapRev'
        /\ \A r \in 0 .. mapRev : linksAt[r] \subseteq linksAt'[r]
    BY <1>1, <1>2, LinksMove
  <1>4. UNCHANGED tabVars
    BY DEF ClientChange, GroupChange, ToolChange
  <1>5. mapRev' \in Nat
    BY <1>3 DEF LinkTypes
  <1>6. \A t \in Tab : TabInv(t)'
    BY <1>3, <1>4, <1>5, TabKeeps DEF tabVars
  <1>7. TabTypes'
    BY <1>4 DEF tabVars, TabTypes, MapInv
  <1> QED BY <1>3, <1>6, <1>7 DEF MapInv

\* A step of one tab that changes no link.
LEMMA TabStep ==
  ASSUME MapInv, NEW t \in Tab, UNCHANGED linkVars, TabTypes', TabInv(t)',
         \A u \in Tab \ {t} : /\ tabRev'[u] = tabRev[u] /\ listing'[u] = listing[u]
                              /\ form'[u] = form[u] /\ request'[u] = request[u]
  PROVE  MapInv'
  <1>1. LinkTypes' /\ mapLinks' \in linksAt'[mapRev']
    BY DEF linkVars, MapInv, LinkTypes
  <1>2. mapRev' \in Nat /\ mapRev <= mapRev' /\ \A r \in 0 .. mapRev : linksAt[r] \subseteq linksAt'[r]
    BY DEF linkVars, MapInv, LinkTypes
  <1>3. \A u \in Tab \ {t} : TabInv(u)'
    BY <1>2, TabKeeps
  <1> QED BY <1>1, <1>3 DEF MapInv

\* What the server hands out is of now or earlier: reading, loading and closing.
LEMMA ListingKeeps ==
  ASSUME MapInv, NEW t \in Tab, NEW l \in [Asker -> AListing], listing' = [listing EXCEPT ![t] = l],
         \A a \in Asker : l[a].rev <= mapRev, UNCHANGED <<linkVars, tabRev, tabLinks, form, request>>
  PROVE  MapInv'
  <1>1. listing \in [Tab -> [Asker -> AListing]] /\ TabInv(t)
    BY DEF MapInv, TabTypes
  <1>2. TabTypes'
    BY DEF MapInv, TabTypes
  <1>3. listing'[t] = l /\ \A u \in Tab \ {t} : listing'[u] = listing[u]
    BY <1>1
  <1>4. TabInv(t)'
    BY <1>1, <1>3 DEF TabInv, Behind, FormSeen, RequestSeen, OfLink, Seen, linkVars
  <1> QED BY <1>2, <1>3, <1>4, TabStep

LEMMA ListingSteps ==
  ASSUME MapInv, NEW t \in Tab,
         LoadTopology(t) \/ LoadFails(t) \/ \E a \in Asker : ReadLinks(t, a) \/ ReadRevision(t, a)
  PROVE  MapInv'
  <1>1. /\ listing[t] \in [Asker -> AListing] /\ \A a \in Asker : listing[t][a].rev <= mapRev
        /\ mapRev \in Nat /\ mapLinks \in AnyDrawing
    BY DEF MapInv, TabTypes, LinkTypes, TabInv, Behind
  <1>2. UNCHANGED <<linkVars, tabRev, tabLinks, form, request>>
    BY DEF LoadTopology, LoadFails, ReadLinks, ReadRevision
  <1>3. NoListing \in AListing /\ NoListing.rev <= mapRev
    BY <1>1 DEF NoListing, AListing, NoLinks, AnyDrawing, Rev, None
  <1>4. ASSUME NEW a \in Asker, NEW x \in AListing, x.rev <= mapRev, listing' = [listing EXCEPT ![t][a] = x]
        PROVE  MapInv'
    <2> DEFINE l == [listing[t] EXCEPT ![a] = x]
    <2>1. l \in [Asker -> AListing] /\ \A b \in Asker : l[b].rev <= mapRev
      BY <1>1, <1>4
    <2>2. listing' = [listing EXCEPT ![t] = l]
      BY <1>4
    <2> QED BY <1>2, <2>1, <2>2, ListingKeeps
  <1>5. CASE LoadTopology(t)
    <2> DEFINE x == [listing[t]["map"] EXCEPT !.on = TRUE]
    <2>1. x \in AListing /\ x.rev <= mapRev
      BY <1>1 DEF AListing, Asker
    <2>2. listing' = [listing EXCEPT ![t]["map"] = x]
      BY <1>5 DEF LoadTopology
    <2> QED BY <1>4, <2>1, <2>2 DEF Asker
  <1>6. CASE LoadFails(t)
    BY <1>3, <1>4, <1>6 DEF LoadFails, Asker
  <1>7. ASSUME NEW a \in Asker, ReadLinks(t, a) PROVE MapInv'
    <2> DEFINE x == [listing[t][a] EXCEPT !.read = TRUE, !.links = mapLinks]
    <2>1. x \in AListing /\ x.rev <= mapRev
      BY <1>1 DEF AListing
    <2>2. listing' = [listing EXCEPT ![t][a] = x]
      BY <1>7 DEF ReadLinks
    <2> QED BY <1>4, <2>1, <2>2
  <1>8. ASSUME NEW a \in Asker, ReadRevision(t, a) PROVE MapInv'
    <2> DEFINE x == [listing[t][a] EXCEPT !.rev = mapRev]
    <2>1. x \in AListing /\ x.rev <= mapRev
      BY <1>1 DEF AListing, Rev
    <2>2. listing' = [listing EXCEPT ![t][a] = x]
      BY <1>8 DEF ReadRevision
    <2> QED BY <1>4, <2>1, <2>2
  <1> QED BY <1>5, <1>6, <1>7, <1>8

\* Steps of a tab's form; a form that is open and quiet afterwards must have
\* been seen.
LEMMA FormKeeps ==
  ASSUME MapInv, NEW t \in Tab, UNCHANGED linkVars,
         NEW r \in Rev, r <= mapRev, NEW drawing \in AnyDrawing, NEW l \in [Asker -> AListing],
         \A a \in Asker : l[a].rev <= mapRev, NEW f \in AForm,
         tabRev' = [tabRev EXCEPT ![t] = r], tabLinks' = [tabLinks EXCEPT ![t] = drawing],
         listing' = [listing EXCEPT ![t] = l], form' = [form EXCEPT ![t] = f],
         f.pc = "open" /\ f.quiet /\ f.link # None => Seen(r, f.link, f.base),
         NEW q \in ARequest, request' = [request EXCEPT ![t] = q],
         q = request[t] \/ (q.pc = "none" /\ q.rev <= mapRev)
  PROVE  MapInv'
  <1>1. TabTypes'
    BY DEF MapInv, TabTypes
  <1>2. /\ tabRev'[t] = r /\ listing'[t] = l /\ form'[t] = f /\ request'[t] = q
        /\ \A u \in Tab \ {t} : /\ tabRev'[u] = tabRev[u] /\ listing'[u] = listing[u]
                                /\ form'[u] = form[u] /\ request'[u] = request[u]
    BY DEF MapInv, TabTypes
  <1>3. TabInv(t) /\ mapRev' = mapRev /\ linksAt' = linksAt
    BY DEF MapInv, linkVars
  <1>4. Behind(t)'
    BY <1>2, <1>3 DEF TabInv, Behind
  <1>5. FormSeen(t)'
    BY <1>2, <1>3 DEF FormSeen, Seen
  <1>6. RequestSeen(t)' /\ OfLink(t)'
    BY <1>2, <1>3 DEF TabInv, RequestSeen, OfLink, Seen
  <1> QED BY <1>1, <1>2, <1>4, <1>5, <1>6, TabStep DEF TabInv

LEMMA FormAlone ==
  ASSUME MapInv, NEW t \in Tab, UNCHANGED <<linkVars, tabRev, tabLinks, listing, request>>,
         NEW f \in AForm, form' = [form EXCEPT ![t] = f],
         f.pc = "open" /\ f.quiet /\ f.link # None => Seen(tabRev[t], f.link, f.base)
  PROVE  MapInv'
  <1>1. TabTypes'
    BY DEF MapInv, TabTypes
  <1>2. form'[t] = f /\ \A u \in Tab \ {t} : form'[u] = form[u]
    BY DEF MapInv, TabTypes
  <1>3. TabInv(t) /\ mapRev' = mapRev /\ linksAt' = linksAt
    BY DEF MapInv, linkVars
  <1>4. Behind(t)' /\ FormSeen(t)' /\ RequestSeen(t)' /\ OfLink(t)'
    BY <1>2, <1>3 DEF TabInv, Behind, FormSeen, RequestSeen, OfLink, Seen
  <1> QED BY <1>1, <1>2, <1>4, TabStep DEF TabInv

LEMMA FormSteps ==
  ASSUME MapInv, NEW t \in Tab,
         \/ Loaded(t) \/ FormListed(t) \/ FillForm(t) \/ CloseModal(t)
         \/ \E k \in MapLink \cup {None} : OpenForm(t, k)
  PROVE  MapInv'
  <1> DEFINE f == form[t]
  <1>1. /\ f \in AForm /\ listing[t] \in [Asker -> AListing] /\ request[t] \in ARequest
        /\ tabRev[t] \in Rev /\ tabRev[t] <= mapRev /\ tabLinks[t] \in AnyDrawing
        /\ \A a \in Asker : listing[t][a].rev <= mapRev
        /\ mapRev \in Nat /\ mapLinks \in AnyDrawing /\ mapLinks \in linksAt[mapRev]
    BY DEF MapInv, TabTypes, LinkTypes, TabInv, Behind
  <1>2. /\ tabRev = [tabRev EXCEPT ![t] = tabRev[t]] /\ tabLinks = [tabLinks EXCEPT ![t] = tabLinks[t]]
        /\ listing = [listing EXCEPT ![t] = listing[t]] /\ request = [request EXCEPT ![t] = request[t]]
    BY DEF MapInv, TabTypes
  <1>3. NoListing \in AListing /\ NoListing.rev <= mapRev
    BY <1>1 DEF NoListing, AListing, NoLinks, AnyDrawing, Rev, None
  <1>4. ASSUME NEW a \in Asker
        PROVE /\ listing[t][a].rev \in Rev /\ listing[t][a].links \in AnyDrawing
              /\ [listing[t] EXCEPT ![a] = NoListing] \in [Asker -> AListing]
              /\ \A b \in Asker : [listing[t] EXCEPT ![a] = NoListing][b].rev <= mapRev
    BY <1>1, <1>3 DEF AListing
  <1>5. CASE Loaded(t)
    <2> DEFINE g == [f EXCEPT !.quiet = FALSE]
               l == [listing[t] EXCEPT !["map"] = NoListing]
    <2>1. g \in AForm /\ ~g.quiet
      BY <1>1 DEF AForm
    <2>2. form' = [form EXCEPT ![t] = g] /\ listing' = [listing EXCEPT ![t] = l] /\ UNCHANGED <<linkVars, request>>
      BY <1>5 DEF Loaded
    <2>3. /\ tabRev' = [tabRev EXCEPT ![t] = listing[t]["map"].rev]
          /\ tabLinks' = [tabLinks EXCEPT ![t] = listing[t]["map"].links]
      BY <1>5 DEF Loaded, ApplySnapshot
    <2>4. "map" \in Asker
      BY DEF Asker
    <2>5. l \in [Asker -> AListing] /\ \A b \in Asker : l[b].rev <= mapRev
      BY <1>4, <2>4
    <2> HIDE DEF g, l
    <2> QED BY <1>1, <1>2, <1>4, <2>1, <2>2, <2>3, <2>4, <2>5, FormKeeps
  <1>6. CASE FormListed(t)
    <2> DEFINE next == IF f.link = None THEN "open" ELSE "fetching"
               g == [f EXCEPT !.pc = next, !.quiet = TRUE]
               l == [listing[t] EXCEPT !["form"] = NoListing]
    <2>1. g \in AForm /\ ~(g.pc = "open" /\ g.quiet /\ g.link # None)
      BY <1>1 DEF AForm
    <2>2. form' = [form EXCEPT ![t] = g] /\ listing' = [listing EXCEPT ![t] = l] /\ UNCHANGED <<linkVars, request>>
      BY <1>6 DEF FormListed
    <2>3. "form" \in Asker
      BY DEF Asker
    <2>4. l \in [Asker -> AListing] /\ \A b \in Asker : l[b].rev <= mapRev
      BY <1>4, <2>3
    <2>5. \/ /\ tabRev' = [tabRev EXCEPT ![t] = listing[t]["form"].rev]
             /\ tabLinks' = [tabLinks EXCEPT ![t] = listing[t]["form"].links]
          \/ tabRev' = tabRev /\ tabLinks' = tabLinks
      BY <1>6 DEF FormListed, ApplySnapshot
    <2> HIDE DEF g, l
    <2>6. CASE /\ tabRev' = [tabRev EXCEPT ![t] = listing[t]["form"].rev]
               /\ tabLinks' = [tabLinks EXCEPT ![t] = listing[t]["form"].links]
      BY <1>1, <1>2, <1>4, <2>1, <2>2, <2>3, <2>4, <2>6, FormKeeps
    <2>7. CASE tabRev' = tabRev /\ tabLinks' = tabLinks
      BY <1>1, <1>2, <2>1, <2>2, <2>4, <2>7, FormKeeps
    <2> QED BY <2>5, <2>6, <2>7
  <1>7. CASE FillForm(t)
    <2> DEFINE g == [f EXCEPT !.pc = "open", !.base = mapLinks[f.link]]
               h == [f EXCEPT !.pc = "open", !.quiet = FALSE]
    <2>1. UNCHANGED <<linkVars, tabRev, tabLinks, listing, request>>
          /\ (form' = [form EXCEPT ![t] = g] \/ form' = [form EXCEPT ![t] = h])
      BY <1>7 DEF FillForm
    <2>2. h \in AForm /\ ~h.quiet
      BY <1>1 DEF AForm
    <2>3. CASE form' = [form EXCEPT ![t] = h]
      <3> HIDE DEF h
      <3> QED BY <2>1, <2>2, <2>3, FormAlone
    <2>4. CASE form' = [form EXCEPT ![t] = g]
      <3>1. g \in AForm /\ g.link = f.link /\ g.base = mapLinks[f.link]
        BY <1>1, <1>7 DEF AForm, AnyDrawing, FillForm
      <3>2. Seen(tabRev[t], g.link, g.base)
        BY <1>1, <3>1 DEF Seen
      <3> HIDE DEF g
      <3> QED BY <2>1, <2>4, <3>1, <3>2, FormAlone
    <2> QED BY <2>1, <2>3, <2>4
  <1>8. CASE CloseModal(t)
    <2>1. NoForm \in AForm /\ NoForm.pc = "closed"
      BY DEF NoForm, AForm
    <2>2. form' = [form EXCEPT ![t] = NoForm] /\ UNCHANGED <<linkVars, tabRev, tabLinks, listing, request>>
      BY <1>8 DEF CloseModal
    <2> QED BY <2>1, <2>2, FormAlone
  <1>9. ASSUME NEW k \in MapLink \cup {None}, OpenForm(t, k) PROVE MapInv'
    <2> DEFINE g == [NoForm EXCEPT !.pc = "listing", !.link = k]
               x == [listing[t]["form"] EXCEPT !.on = TRUE]
               l == [listing[t] EXCEPT !["form"] = x]
    <2>1. g \in AForm /\ g.pc = "listing"
      BY DEF NoForm, AForm
    <2>2. x \in AListing /\ x.rev <= mapRev
      BY <1>1 DEF AListing, Asker
    <2>3. l \in [Asker -> AListing] /\ \A b \in Asker : l[b].rev <= mapRev
      BY <1>1, <2>2
    <2>4. form' = [form EXCEPT ![t] = g] /\ listing' = [listing EXCEPT ![t] = l]
          /\ UNCHANGED <<linkVars, tabRev, tabLinks, request>>
      BY <1>9 DEF OpenForm
    <2> HIDE DEF g, l
    <2> QED BY <1>1, <1>2, <2>1, <2>3, <2>4, FormKeeps
  <1> QED BY <1>5, <1>6, <1>7, <1>8, <1>9

\* A request carries the tab's revision, and of a link what its form shows.
LEMMA AskKeeps ==
  ASSUME MapInv, NEW t \in Tab, NEW r \in ARequest, Ask(t, r), r.rev <= mapRev,
         r.kind # "deploy" => r.link \in MapLink,
         r.kind = "update" /\ r.quiet => Seen(tabRev[t], r.link, r.base)
  PROVE  MapInv'
  <1> DEFINE q == [r EXCEPT !.pc = "sent", !.expected = tabRev[t]]
  <1>1. tabRev[t] \in Rev /\ TabInv(t) /\ request \in [Tab -> ARequest]
    BY DEF MapInv, TabTypes
  <1>2. /\ q \in ARequest /\ q.rev = r.rev /\ q.kind = r.kind /\ q.quiet = r.quiet /\ q.link = r.link
        /\ q.base = r.base /\ q.expected = tabRev[t]
    BY <1>1 DEF ARequest
  <1>3. request' = [request EXCEPT ![t] = q] /\ UNCHANGED <<linkVars, tabRev, tabLinks, listing, form>>
    BY DEF Ask
  <1> HIDE DEF q
  <1>4. request'[t] = q /\ \A u \in Tab \ {t} : request'[u] = request[u]
    BY <1>1, <1>3
  <1>5. TabTypes'
    BY <1>2, <1>3 DEF MapInv, TabTypes
  <1>6. mapRev' = mapRev /\ linksAt' = linksAt
    BY <1>3 DEF linkVars
  <1>7. Behind(t)' /\ FormSeen(t)' /\ RequestSeen(t)' /\ OfLink(t)'
    BY <1>1, <1>2, <1>3, <1>4, <1>6 DEF TabInv, Behind, FormSeen, RequestSeen, OfLink, Seen
  <1> QED BY <1>3, <1>4, <1>5, <1>7, TabStep DEF TabInv

LEMMA AskSteps ==
  ASSUME MapInv, NEW t \in Tab, SubmitForm(t) \/ AskDelete(t) \/ QuickLink(t) \/ AskDeploy(t)
  PROVE  MapInv'
  <1>1. form[t] \in AForm /\ TabInv(t) /\ mapRev \in Nat
    BY DEF MapInv, TabTypes, LinkTypes
  <1>0. NoRequest \in ARequest /\ NoRequest.rev <= mapRev
    BY <1>1 DEF NoRequest, ARequest, Rev, None
  <1>2. ASSUME NEW kind \in {"create", "delete"}, NEW k \in MapLink,
               Ask(t, [NoRequest EXCEPT !.kind = kind, !.link = k])
        PROVE  MapInv'
    <2> DEFINE r == [NoRequest EXCEPT !.kind = kind, !.link = k]
    <2>1. r \in ARequest /\ r.rev = NoRequest.rev /\ r.kind = kind /\ r.link = k
      BY <1>0 DEF ARequest
    <2>2. Ask(t, r) /\ r.rev <= mapRev /\ kind # "update"
      BY <1>0, <1>2, <2>1
    <2> HIDE DEF r
    <2> QED BY <2>1, <2>2, AskKeeps
  <1>3. CASE SubmitForm(t) /\ form[t].link # None
    <2> DEFINE f == form[t]
               r == [NoRequest EXCEPT !.kind = "update", !.link = f.link, !.base = f.base, !.quiet = f.quiet]
    <2>0. f.link \in MapLink /\ f.base \in Nat /\ f.quiet \in BOOLEAN
      BY <1>1, <1>3 DEF AForm
    <2>1. /\ r \in ARequest /\ r.rev = NoRequest.rev /\ r.quiet = f.quiet /\ r.link = f.link
          /\ r.base = f.base
      BY <1>0, <2>0 DEF ARequest
    <2>2. f.pc = "open" /\ Ask(t, r)
      BY <1>3 DEF SubmitForm
    <2> HIDE DEF r
    <2>3. f.quiet => Seen(tabRev[t], f.link, f.base)
      BY <1>1, <1>3, <2>2 DEF TabInv, FormSeen
    <2> QED BY <1>0, <2>0, <2>1, <2>2, <2>3, AskKeeps
  <1>4. CASE SubmitForm(t) /\ form[t].link = None
    BY <1>2, <1>4 DEF SubmitForm
  <1>5. CASE AskDeploy(t)
    <2> DEFINE r == [NoRequest EXCEPT !.kind = "deploy"]
    <2>1. r \in ARequest /\ r.rev = NoRequest.rev /\ r.kind = "deploy"
      BY <1>0 DEF ARequest
    <2>2. Ask(t, r) /\ r.rev <= mapRev
      BY <1>0, <1>5, <2>1 DEF AskDeploy
    <2> HIDE DEF r
    <2> QED BY <2>1, <2>2, AskKeeps
  <1> QED BY <1>2, <1>3, <1>4, <1>5 DEF AskDelete, QuickLink

\* The server's own step: the draft moves, and the request is done.
LEMMA CommitKeeps ==
  ASSUME MapInv, NEW t \in Tab, CommitChange(t) PROVE MapInv'
  <1> DEFINE r == request[t]
             q == [r EXCEPT !.pc = "done", !.rev = mapRev + 1]
  <1>1. r \in ARequest /\ TabInv(t) /\ mapRev \in Nat /\ request \in [Tab -> ARequest]
    BY DEF MapInv, TabTypes, LinkTypes
  <1>2. ChangeLink(r.link, r.kind = "delete") /\ NewRevision /\ (r.kind = "delete") \in BOOLEAN
    BY DEF CommitChange
  <1>3. request' = [request EXCEPT ![t] = q] /\ UNCHANGED <<tabRev, tabLinks, listing, form>>
    BY DEF CommitChange
  <1>4. q \in ARequest /\ q.pc = "done" /\ q.rev = mapRev + 1
    <2>1. mapRev + 1 \in Rev
      BY <1>1 DEF Rev
    <2> QED BY <1>1, <2>1 DEF ARequest
  <1> HIDE DEF q
  <1>5. request'[t] = q /\ \A u \in Tab \ {t} : request'[u] = request[u]
    BY <1>1, <1>3
  <1>6. CASE r.link \in MapLink
    <2>1. /\ LinkTypes' /\ mapLinks' \in linksAt'[mapRev'] /\ mapRev <= mapRev'
          /\ \A n \in 0 .. mapRev : linksAt[n] \subseteq linksAt'[n]
      BY <1>2, <1>6, ChangeDraws, LinksMove
    <2>2. mapRev' = mapRev + 1 /\ mapRev' \in Nat
      BY <1>1, <1>2 DEF NewRevision
    <2>3. \A u \in Tab \ {t} : TabInv(u)'
      BY <1>3, <1>5, <2>1, <2>2, TabKeeps
    <2>4. TabTypes'
      BY <1>3, <1>4 DEF MapInv, TabTypes
    <2>5. tabRev[t] \in Rev /\ \A a \in Asker : listing[t][a].rev \in Rev
      BY DEF MapInv, TabTypes, AListing
    <2>6. Behind(t)'
      BY <1>1, <1>3, <1>4, <1>5, <2>1, <2>2, <2>5, RevBehind DEF TabInv, Behind
    <2>7. FormSeen(t)'
      BY <1>1, <1>3, <2>1, <2>2, StillSeen DEF TabInv, FormSeen
    <2>8. RequestSeen(t)' /\ OfLink(t)'
      BY <1>4, <1>5 DEF RequestSeen, OfLink
    <2> QED BY <2>1, <2>3, <2>4, <2>6, <2>7, <2>8 DEF MapInv, TabInv
  <1>7. r.link \in MapLink
    BY <1>1 DEF TabInv, OfLink, CommitChange
  <1> QED BY <1>6, <1>7

\* The answer of a change that is done, or of one that was refused, or of a
\* deployment.
LEMMA AnswerSteps ==
  ASSUME MapInv, NEW t \in Tab, Answered(t) \/ RefusedChange(t) \/ DeployQueued(t) PROVE MapInv'
  <1> DEFINE f == form[t]
             r == request[t]
  <1>1. /\ f \in AForm /\ listing[t] \in [Asker -> AListing] /\ r \in ARequest
        /\ tabRev[t] \in Rev /\ tabRev[t] <= mapRev /\ tabLinks[t] \in AnyDrawing
        /\ \A a \in Asker : listing[t][a].rev <= mapRev
        /\ mapRev \in Nat /\ mapLinks \in AnyDrawing /\ r.rev <= mapRev /\ r.rev \in Rev
        /\ TabInv(t)
    BY DEF MapInv, TabTypes, LinkTypes, TabInv, Behind, ARequest
  <1>2. NoRequest \in ARequest /\ NoRequest.pc = "none" /\ NoRequest.rev <= mapRev
    BY <1>1 DEF NoRequest, ARequest, Rev, None
  <1>3. NoForm \in AForm /\ NoForm.pc = "closed"
    BY DEF NoForm, AForm
  <1>4. request' = [request EXCEPT ![t] = NoRequest] /\ UNCHANGED linkVars
    BY DEF Answered, RefusedChange, DeployQueued
  \* Whatever else it does, the tab has no request any more.
  <1>5. ASSUME TabTypes', Behind(t)', FormSeen(t)',
               \A u \in Tab \ {t} : /\ tabRev'[u] = tabRev[u] /\ listing'[u] = listing[u]
                                    /\ form'[u] = form[u]
        PROVE  MapInv'
    <2>1. request'[t] = NoRequest /\ \A u \in Tab \ {t} : request'[u] = request[u]
      BY <1>4 DEF MapInv, TabTypes
    <2>2. RequestSeen(t)' /\ OfLink(t)'
      BY <1>2, <2>1 DEF RequestSeen, OfLink
    <2> QED BY <1>4, <1>5, <2>1, <2>2, TabStep DEF TabInv
  <1>6. request' \in [Tab -> ARequest] /\ request'[t] = NoRequest /\ mapRev' = mapRev /\ linksAt' = linksAt
    BY <1>2, <1>4 DEF MapInv, TabTypes, linkVars
  \* The tab asks for the links again, or it does not.
  <1>7. ASSUME NEW on \in BOOLEAN
        PROVE  /\ [listing[t] EXCEPT !["map"].on = on] \in [Asker -> AListing]
               /\ \A a \in Asker : [listing[t] EXCEPT !["map"].on = on][a].rev <= mapRev
    <2> DEFINE x == [listing[t]["map"] EXCEPT !.on = on]
    <2>1. x \in AListing /\ x.rev <= mapRev
      BY <1>1 DEF AListing, Asker
    <2>2. [listing[t] EXCEPT !["map"].on = on] = [listing[t] EXCEPT !["map"] = x]
      OBVIOUS
    <2> HIDE DEF x
    <2> QED BY <1>1, <2>1, <2>2
  <1>8. CASE Answered(t) /\ UNCHANGED <<tabRev, tabLinks, form, listing>>
    <2>1. TabTypes' /\ Behind(t)' /\ FormSeen(t)'
      BY <1>1, <1>2, <1>6, <1>8 DEF MapInv, TabTypes, TabInv, Behind, FormSeen, Seen
    <2> QED BY <1>5, <1>8, <2>1
  <1>9. CASE Answered(t) /\ ~UNCHANGED <<tabRev, tabLinks, form, listing>>
    <2> DEFINE g == IF r.kind = "delete" \/ f.pc # "open" THEN [f EXCEPT !.quiet = FALSE] ELSE NoForm
               l == [listing[t] EXCEPT !["map"].on = TRUE]
    <2>1. g \in AForm /\ ~(g.pc = "open" /\ g.quiet)
      BY <1>1, <1>3 DEF AForm
    <2>2. /\ tabRev' = [tabRev EXCEPT ![t] = r.rev] /\ tabLinks' = [tabLinks EXCEPT ![t] = mapLinks]
          /\ form' = [form EXCEPT ![t] = g] /\ listing' = [listing EXCEPT ![t] = l]
      BY <1>9 DEF Answered, ApplySnapshot
    <2>3. l \in [Asker -> AListing] /\ \A a \in Asker : l[a].rev <= mapRev
      BY <1>7
    <2> HIDE DEF g, l
    <2>4. /\ TabTypes' /\ tabRev'[t] = r.rev /\ form'[t] = g /\ listing'[t] = l
          /\ \A u \in Tab \ {t} : tabRev'[u] = tabRev[u] /\ form'[u] = form[u] /\ listing'[u] = listing[u]
      BY <1>1, <1>6, <2>1, <2>2, <2>3 DEF MapInv, TabTypes
    <2>5. Behind(t)' /\ FormSeen(t)'
      BY <1>1, <1>2, <1>6, <2>1, <2>3, <2>4 DEF Behind, FormSeen
    <2> QED BY <1>5, <2>4, <2>5
  <1>10. ASSUME NEW on \in BOOLEAN, listing' = [listing EXCEPT ![t]["map"].on = on],
                UNCHANGED <<tabRev, tabLinks, form>>
         PROVE  MapInv'
    <2> DEFINE l == [listing[t] EXCEPT !["map"].on = on]
    <2>1. l \in [Asker -> AListing] /\ \A a \in Asker : l[a].rev <= mapRev
      BY <1>7
    <2>2. listing' = [listing EXCEPT ![t] = l]
      BY <1>10
    <2> HIDE DEF l
    <2>3. TabTypes' /\ listing'[t] = l /\ \A u \in Tab \ {t} : listing'[u] = listing[u]
      BY <1>6, <1>10, <2>1, <2>2 DEF MapInv, TabTypes
    <2>4. Behind(t)' /\ FormSeen(t)'
      BY <1>1, <1>2, <1>6, <1>10, <2>1, <2>3 DEF TabInv, Behind, FormSeen, Seen
    <2> QED BY <1>5, <1>10, <2>3, <2>4
  <1>11. CASE RefusedChange(t)
    <2>0. PICK conflict \in BOOLEAN :
             listing' = [listing EXCEPT ![t]["map"].on = listing[t]["map"].on \/ conflict \/ ~Expected(t)]
      BY <1>11 DEF RefusedChange
    <2> DEFINE on == listing[t]["map"].on \/ conflict \/ ~Expected(t)
    <2>1. on \in BOOLEAN
      BY <1>1 DEF AListing, Asker
    <2>2. listing' = [listing EXCEPT ![t]["map"].on = on] /\ UNCHANGED <<tabRev, tabLinks, form>>
      BY <1>11, <2>0 DEF RefusedChange
    <2> HIDE DEF on
    <2> QED BY <1>10, <2>1, <2>2
  <1>12. CASE DeployQueued(t)
    <2>1. listing' = [listing EXCEPT ![t]["map"].on = TRUE] /\ UNCHANGED <<tabRev, tabLinks, form>>
      BY <1>12 DEF DeployQueued
    <2> QED BY <1>10, <2>1
  <1> QED BY <1>8, <1>9, <1>11, <1>12

LEMMA MapInvNext == MapInv /\ [MapNext]_mapVars => MapInv'
  <1> SUFFICES ASSUME MapInv, [MapNext]_mapVars PROVE MapInv'
    OBVIOUS
  <1>1. CASE UNCHANGED mapVars
    <2>1. UNCHANGED linkVars /\ UNCHANGED <<tabRev, tabLinks, listing, form, request>>
      BY <1>1 DEF mapVars, tabVars
    <2>2. LinkTypes' /\ TabTypes' /\ mapLinks' \in linksAt'[mapRev']
      BY <2>1 DEF linkVars, MapInv, LinkTypes, TabTypes
    <2>3. \A t \in Tab : TabInv(t)'
      BY <2>1 DEF linkVars, MapInv, TabInv, Behind, FormSeen, RequestSeen, OfLink, Seen
    <2> QED BY <2>2, <2>3 DEF MapInv
  <1> QED
    BY <1>1, OutsideChange, ListingSteps, FormSteps, AskSteps, CommitKeeps, AnswerSteps DEF MapNext

LEMMA SaveReplacesSeen ==
  ASSUME MapInv, [MapNext]_mapVars, NEW t \in Tab, request[t].pc = "sent", request'[t].pc = "done",
         request[t].kind = "update", request[t].quiet
  PROVE  \E d \in linksAt[mapRev] : d[request[t].link] = request[t].base
  <1> DEFINE r == request[t]
  <1>1. TabInv(t) /\ request \in [Tab -> ARequest] /\ mapRev \in Nat /\ r.expected \in Rev
    BY DEF MapInv, TabTypes, LinkTypes, ARequest
  <1>2. CommitChange(t)
    <2>1. ~(ClientChange \/ GroupChange \/ ToolChange \/ UNCHANGED mapVars)
      BY DEF ClientChange, GroupChange, ToolChange, mapVars, tabVars
    <2>2. PICK u \in Tab :
             \/ LoadTopology(u) \/ Loaded(u) \/ LoadFails(u)
             \/ \E a \in Asker : ReadLinks(u, a) \/ ReadRevision(u, a)
             \/ \E k \in MapLink \cup {None} : OpenForm(u, k)
             \/ FormListed(u) \/ FillForm(u) \/ CloseModal(u)
             \/ SubmitForm(u) \/ AskDelete(u) \/ QuickLink(u) \/ AskDeploy(u)
             \/ CommitChange(u) \/ Answered(u) \/ RefusedChange(u) \/ DeployQueued(u)
      BY <2>1 DEF MapNext
    <2>3. ~(\/ LoadTopology(u) \/ Loaded(u) \/ LoadFails(u)
            \/ \E a \in Asker : ReadLinks(u, a) \/ ReadRevision(u, a)
            \/ \E k \in MapLink \cup {None} : OpenForm(u, k)
            \/ FormListed(u) \/ FillForm(u) \/ CloseModal(u))
      BY DEF LoadTopology, Loaded, LoadFails, ReadLinks, ReadRevision, OpenForm, FormListed, FillForm, CloseModal
    <2>4. ~(SubmitForm(u) \/ AskDelete(u) \/ QuickLink(u) \/ AskDeploy(u))
      <3> SUFFICES ASSUME NEW q, Ask(u, q) PROVE FALSE
        BY DEF SubmitForm, AskDelete, QuickLink, AskDeploy
      <3>1. request[u].pc = "none"
        BY DEF Ask
      <3>2. u # t /\ request'[t] = request[t]
        BY <1>1, <3>1 DEF Ask
      <3> QED BY <3>2
    <2>5. ~(Answered(u) \/ RefusedChange(u) \/ DeployQueued(u))
      <3> SUFFICES ASSUME request' = [request EXCEPT ![u] = NoRequest] PROVE FALSE
        BY DEF Answered, RefusedChange, DeployQueued
      <3>1. request'[t] = request[t] \/ request'[t] = NoRequest
        BY <1>1
      <3> QED BY <3>1 DEF NoRequest
    <2>6. CommitChange(u)
      BY <2>2, <2>3, <2>4, <2>5
    <2>7. u = t
      BY <1>1, <2>6 DEF CommitChange
    <2> QED BY <2>6, <2>7
  <1>3. r.expected = mapRev
    BY <1>2 DEF CommitChange, Expected
  <1>4. PICK n \in 0 .. mapRev : r.expected <= n /\ \E d \in linksAt[n] : d[r.link] = r.base
    BY <1>1 DEF TabInv, RequestSeen, Seen
  <1>5. n = mapRev
    BY <1>1, <1>3, <1>4
  <1> QED BY <1>4, <1>5

(* A save that is accepted replaces what its form was filled from, for any  *)
(* number of tabs, links and changes, unless the tab has taken in another   *)
(* snapshot meanwhile.                                                      *)
THEOREM UntouchedSaveIsSafeHolds == MapSpec => UntouchedSaveIsSafe
  <1>1. MapInv /\ [MapNext]_mapVars =>
            [\A t \in Tab :
                LET r == request[t] IN
                r.pc = "sent" /\ request'[t].pc = "done" /\ r.kind = "update" /\ r.quiet =>
                    \E d \in linksAt[mapRev] : d[r.link] = r.base]_mapVars
    BY SaveReplacesSeen
  <1> QED
    BY MapInvInit, MapInvNext, <1>1, PTL DEF MapSpec, UntouchedSaveIsSafe

-----------------------------------------------------------------------------
(***************************************************************************)
(* MarzbanImport. ImportIsComplete needs to know where each user of the    *)
(* list is on its way into this panel (InHand): on a page still to be      *)
(* taken, with a worker, among the pending upserts, in a batch, or here.   *)
(***************************************************************************)

Upsert == [user : Accepted, data : Nat]

ATask ==
    [pc : {"none", "load", "fetch", "flush", "done", "failed"}, pages : Nat, cursor : Nat,
     known : SUBSET SourceUser, pending : SUBSET Upsert, erred : BOOLEAN, steady : BOOLEAN]

ASlot == [pc : {"idle", "fetch", "write"}, page : Nat, batch : SUBSET Upsert]

Account == [here : BOOLEAN, secret : Import \cup {Panel}, data : Nat]

ImportTypes ==
    /\ pageOf \in [SourceUser -> Nat]
    /\ sourceData \in [SourceUser -> Nat]
    /\ panelUser \in [SourceUser -> Account]
    /\ import \in [Import -> ATask]
    /\ slot \in [Import -> [Slots -> ASlot]]

\* Where a user of the list may be on its way into this panel.
InHand(i, u) ==
    \/ panelUser[u].here
    \/ import[i].pc = "fetch" /\ pageOf[u] > import[i].cursor
    \/ \E w \in Fetcher : slot[i][w].pc = "fetch" /\ slot[i][w].page = pageOf[u]
    \/ \E op \in import[i].pending : op.user = u
    \/ \E s \in Slots : slot[i][s].pc = "write" /\ \E op \in slot[i][s].batch : op.user = u

\* What the slots hold at each stage of a task.
SlotsFit(i) ==
    LET m == import[i] IN
    /\ m.pc \in {"none", "load"} =>
           m.cursor = 0 /\ m.pending = {} /\ \A s \in Slots : slot[i][s].pc = "idle"
    /\ m.pc # "flush" => slot[i][0].pc = "idle"
    /\ m.pc = "flush" =>
           m.cursor = m.pages /\ m.pending = {} /\ \A w \in Fetcher : slot[i][w].pc = "idle"

\* No upsert is about a user the panel had when the task began.
OnlyNew(i) ==
    /\ \A op \in import[i].pending : op.user \notin import[i].known
    /\ \A s \in Slots : slot[i][s].pc = "write" =>
           \A op \in slot[i][s].batch : op.user \notin import[i].known

\* While the list and the accounts stay, the pages are the list's and no known
\* user is gone.
ListFits(i) ==
    import[i].steady =>
        /\ \A u \in import[i].known : panelUser[u].here
        /\ import[i].pc \in {"load", "fetch", "flush"} =>
               \A u \in SourceUser : pageOf[u] <= import[i].pages

AllInHand(i) ==
    import[i].steady /\ ~import[i].erred /\ import[i].pc \in {"fetch", "flush"} =>
        \A u \in Accepted : pageOf[u] # 0 => InHand(i, u)

TaskInv(i) == SlotsFit(i) /\ OnlyNew(i) /\ ListFits(i) /\ AllInHand(i)

ImportInv == ImportTypes /\ \A i \in Import : TaskInv(i)

LEMMA ImportInvInit == ImportInit => ImportInv
  <1> SUFFICES ASSUME ImportInit PROVE ImportInv
    OBVIOUS
  <1>1. NoImport \in ATask /\ NoImport.pc = "none" /\ NoImport.cursor = 0 /\ NoImport.pending = {}
        /\ NoImport.known = {}
    BY DEF NoImport, ATask
  <1>2. NoSlot \in ASlot /\ NoSlot.pc = "idle"
    BY DEF NoSlot, ASlot
  <1>3. NoUser \in Account /\ [here |-> TRUE, secret |-> Panel, data |-> 2] \in Account
    BY DEF NoUser, Account
  <1>4. ImportTypes
    <2>1. pageOf \in [SourceUser -> Nat]
      BY ImportAssumption DEF ImportInit
    <2>2. panelUser \in [SourceUser -> Account]
      BY <1>3 DEF ImportInit
    <2> QED BY <1>1, <1>2, <2>1, <2>2 DEF ImportInit, ImportTypes
  <1>5. ASSUME NEW i \in Import PROVE TaskInv(i)
    <2>1. import[i] = NoImport /\ \A s \in Slots : slot[i][s] = NoSlot
      BY DEF ImportInit
    <2>2. 0 \in Slots /\ Fetcher \subseteq Slots
      BY DEF Slots
    <2> QED BY <1>1, <1>2, <2>1, <2>2 DEF TaskInv, SlotsFit, OnlyNew, ListFits, AllInHand
  <1> QED BY <1>4, <1>5 DEF ImportInv

\* A task nothing has touched keeps its invariant while no account goes.
LEMMA TaskKeeps ==
  ASSUME NEW i \in Import, TaskInv(i), import'[i] = import[i], slot'[i] = slot[i], pageOf' = pageOf,
         \A u \in SourceUser : panelUser[u].here => panelUser'[u].here, import[i] \in ATask
  PROVE  TaskInv(i)'
  <1>1. SlotsFit(i)' /\ OnlyNew(i)'
    BY DEF TaskInv, SlotsFit, OnlyNew
  <1>2. ListFits(i)'
    BY DEF TaskInv, ListFits, ATask
  <1>3. AllInHand(i)'
    BY ImportAssumption DEF TaskInv, AllInHand, InHand
  <1> QED BY <1>1, <1>2, <1>3 DEF TaskInv

\* A task that is no longer steady has less to keep.
LEMMA UnsteadyKeeps ==
  ASSUME NEW i \in Import, TaskInv(i), import[i] \in ATask,
         import'[i] = [import[i] EXCEPT !.steady = FALSE], slot'[i] = slot[i]
  PROVE  import'[i] \in ATask /\ TaskInv(i)'
  <1> DEFINE m == import[i]
             q == import'[i]
  <1>1. /\ q \in ATask /\ ~q.steady /\ q.pc = m.pc /\ q.cursor = m.cursor /\ q.pages = m.pages
        /\ q.pending = m.pending /\ q.known = m.known
    BY DEF ATask
  <1>2. SlotsFit(i)' /\ OnlyNew(i)' /\ ListFits(i)' /\ AllInHand(i)'
    BY <1>1 DEF TaskInv, SlotsFit, OnlyNew, ListFits, AllInHand
  <1> QED BY <1>1, <1>2 DEF TaskInv

\* A step of one task: the others keep theirs.
LEMMA TaskStep ==
  ASSUME ImportInv, NEW i \in Import, NEW m \in ATask, import' = [import EXCEPT ![i] = m],
         NEW z \in [Slots -> ASlot], slot' = [slot EXCEPT ![i] = z],
         UNCHANGED <<pageOf, sourceData>>, panelUser' \in [SourceUser -> Account],
         \A u \in SourceUser : panelUser[u].here => panelUser'[u].here, TaskInv(i)'
  PROVE  ImportInv'
  <1>1. ImportTypes'
    BY DEF ImportInv, ImportTypes
  <1>2. \A j \in Import \ {i} : TaskInv(j)'
    <2> SUFFICES ASSUME NEW j \in Import \ {i} PROVE TaskInv(j)'
      OBVIOUS
    <2>1. import'[j] = import[j] /\ slot'[j] = slot[j] /\ import[j] \in ATask /\ TaskInv(j)
      BY DEF ImportInv, ImportTypes
    <2> QED BY <2>1, TaskKeeps
  <1> QED BY <1>1, <1>2 DEF ImportInv

LEMMA CountKeeps ==
  ASSUME ImportInv, NEW i \in Import, Count(i) PROVE ImportInv'
  <1> DEFINE q == import[i]
  <1>1. q \in ATask /\ q.pc = "none" /\ TaskInv(i) /\ slot[i] \in [Slots -> ASlot]
    BY DEF Count, ImportInv, ImportTypes
  <1>2. PICK last \in 0 .. MaxPage, pc \in {"load", "done", "failed"} :
           /\ \A u \in SourceUser : pageOf[u] <= last
           /\ import' = [import EXCEPT ![i].pc = pc, ![i].pages = last]
    BY DEF Count
  <1> DEFINE m == [q EXCEPT !.pc = pc, !.pages = last]
  <1>3. /\ m \in ATask /\ m.pc = pc /\ m.pages = last /\ m.cursor = q.cursor /\ m.pending = q.pending
        /\ m.known = q.known /\ m.steady = q.steady
    <2>1. last \in Nat
      BY ImportAssumption
    <2> QED BY <1>1, <2>1 DEF ATask
  <1>4. import' = [import EXCEPT ![i] = m]
    BY <1>2
  <1> HIDE DEF m
  <1>5. import'[i] = m /\ slot' = slot /\ UNCHANGED <<pageOf, sourceData, panelUser>>
    BY <1>4 DEF Count, ImportInv, ImportTypes
  <1>6. TaskInv(i)'
    <2>1. SlotsFit(i)' /\ OnlyNew(i)'
      BY <1>1, <1>3, <1>5 DEF TaskInv, SlotsFit, OnlyNew, Slots
    <2>2. ListFits(i)'
      BY <1>1, <1>2, <1>3, <1>5 DEF TaskInv, ListFits
    <2>3. AllInHand(i)'
      BY <1>3, <1>5 DEF AllInHand
    <2> QED BY <2>1, <2>2, <2>3 DEF TaskInv
  <1>7. slot' = [slot EXCEPT ![i] = slot[i]] /\ panelUser' \in [SourceUser -> Account]
    BY <1>5 DEF ImportInv, ImportTypes
  <1> QED BY <1>1, <1>3, <1>4, <1>5, <1>6, <1>7, TaskStep

LEMMA LoadKeeps ==
  ASSUME ImportInv, NEW i \in Import, LoadExisting(i) PROVE ImportInv'
  <1> DEFINE q == import[i]
             m == [q EXCEPT !.pc = "fetch", !.known = {u \in SourceUser : panelUser[u].here}]
  <1>1. q \in ATask /\ q.pc = "load" /\ TaskInv(i) /\ slot[i] \in [Slots -> ASlot]
    BY DEF LoadExisting, ImportInv, ImportTypes
  <1>2. import' = [import EXCEPT ![i] = m]
    BY DEF LoadExisting
  <1>3. /\ m \in ATask /\ m.pc = "fetch" /\ m.pages = q.pages /\ m.cursor = q.cursor
        /\ m.pending = q.pending /\ m.steady = q.steady
        /\ m.known = {u \in SourceUser : panelUser[u].here}
    BY <1>1 DEF ATask
  <1> HIDE DEF m
  <1>5. import'[i] = m /\ slot' = slot /\ UNCHANGED <<pageOf, sourceData, panelUser>>
    BY <1>2 DEF LoadExisting, ImportInv, ImportTypes
  <1>6. TaskInv(i)'
    <2>0. m.cursor = 0 /\ m.pending = {} /\ \A s \in Slots : slot[i][s].pc = "idle"
      BY <1>1, <1>3 DEF TaskInv, SlotsFit
    <2>1. SlotsFit(i)' /\ OnlyNew(i)'
      BY <2>0, <1>3, <1>5 DEF SlotsFit, OnlyNew, Slots
    <2>2. ListFits(i)'
      BY <1>1, <1>3, <1>5 DEF TaskInv, ListFits
    <2>3. AllInHand(i)'
      <3>1. \A u \in Accepted : pageOf[u] \in Nat
        BY ImportAssumption DEF ImportInv, ImportTypes
      <3> QED BY <2>0, <3>1, <1>3, <1>5 DEF AllInHand, InHand
    <2> QED BY <2>1, <2>2, <2>3 DEF TaskInv
  <1>7. slot' = [slot EXCEPT ![i] = slot[i]] /\ panelUser' \in [SourceUser -> Account]
    BY <1>5 DEF ImportInv, ImportTypes
  <1> QED BY <1>1, <1>2, <1>3, <1>5, <1>6, <1>7, TaskStep

\* The page a worker takes is the next one: of what lay beyond the cursor, its
\* users are the worker's now.
LEMMA TakePageKeeps ==
  ASSUME ImportInv, NEW i \in Import, NEW w \in Fetcher, TakePage(i, w) PROVE ImportInv'
  <1> DEFINE q == import[i]
             m == [q EXCEPT !.cursor = q.cursor + 1]
             t == [pc |-> "fetch", page |-> q.cursor + 1, batch |-> {}]
             z == [slot[i] EXCEPT ![w] = t]
  <1>1. /\ q \in ATask /\ q.pc = "fetch" /\ TaskInv(i) /\ slot[i] \in [Slots -> ASlot]
        /\ slot[i][w].pc = "idle" /\ w \in Slots /\ w # 0 /\ q.cursor \in Nat
    BY ImportAssumption DEF TakePage, ImportInv, ImportTypes, Slots, ATask
  <1>2. import' = [import EXCEPT ![i] = m] /\ slot' = [slot EXCEPT ![i] = z]
    BY DEF TakePage
  <1>3. /\ m \in ATask /\ m.pc = "fetch" /\ m.cursor = q.cursor + 1 /\ m.pages = q.pages
        /\ m.pending = q.pending /\ m.known = q.known /\ m.steady = q.steady /\ m.erred = q.erred
    BY <1>1 DEF ATask
  <1>4. t \in ASlot /\ t.pc = "fetch" /\ t.page = q.cursor + 1
    BY <1>1 DEF ASlot
  <1> HIDE DEF m, t
  <1>5. /\ z \in [Slots -> ASlot] /\ z[w] = t /\ \A s \in Slots \ {w} : z[s] = slot[i][s]
    BY <1>1, <1>4
  <1> HIDE DEF z
  <1>6. import'[i] = m /\ slot'[i] = z /\ UNCHANGED <<pageOf, sourceData, panelUser>>
    BY <1>2 DEF TakePage, ImportInv, ImportTypes
  <1>7. TaskInv(i)'
    <2>1. SlotsFit(i)'
      BY <1>1, <1>3, <1>5, <1>6 DEF TaskInv, SlotsFit, Slots
    <2>2. OnlyNew(i)'
      BY <1>1, <1>3, <1>4, <1>5, <1>6 DEF TaskInv, OnlyNew
    <2>3. ListFits(i)'
      BY <1>1, <1>3, <1>6 DEF TaskInv, ListFits
    <2>4. AllInHand(i)'
      <3> SUFFICES ASSUME m.steady, ~m.erred, NEW u \in Accepted, pageOf[u] # 0 PROVE InHand(i, u)'
        BY <1>6 DEF AllInHand
      <3>1. InHand(i, u) /\ pageOf[u] \in Nat
        BY <1>1, <1>3, ImportAssumption DEF TaskInv, AllInHand, ImportInv, ImportTypes
      <3>2. CASE pageOf[u] > q.cursor
        <4>1. pageOf[u] > m.cursor \/ pageOf[u] = q.cursor + 1
          BY <1>1, <1>3, <3>1, <3>2
        <4> QED BY <1>1, <1>3, <1>4, <1>5, <1>6, <4>1 DEF InHand
      <3>3. CASE ~(pageOf[u] > q.cursor)
        <4>1. \/ panelUser[u].here
              \/ \E v \in Fetcher \ {w} : slot[i][v].pc = "fetch" /\ slot[i][v].page = pageOf[u]
              \/ \E op \in q.pending : op.user = u
              \/ \E s \in Slots \ {w} : slot[i][s].pc = "write" /\ \E op \in slot[i][s].batch : op.user = u
          BY <1>1, <3>1, <3>3 DEF InHand
        <4>2. \A v \in Fetcher \ {w} : slot'[i][v] = slot[i][v]
          BY <1>5, <1>6 DEF Slots
        <4> QED BY <1>3, <1>5, <1>6, <4>1, <4>2 DEF InHand
      <3> QED BY <3>2, <3>3
    <2> QED BY <2>1, <2>2, <2>3, <2>4 DEF TaskInv
  <1> QED BY <1>2, <1>3, <1>5, <1>6, <1>7, TaskStep DEF ImportInv, ImportTypes

\* A page's upserts are new, and with the ones pending they are all in hand.
LEMMA FetchPageKeeps ==
  ASSUME ImportInv, NEW i \in Import, NEW w \in Fetcher, FetchPage(i, w) PROVE ImportInv'
  <1> DEFINE q == import[i]
             got == Upserts(i, slot[i][w].page)
             all == q.pending \cup got
  <1>1. /\ q \in ATask /\ TaskInv(i) /\ slot[i] \in [Slots -> ASlot]
        /\ slot[i][w].pc = "fetch" /\ w \in Slots /\ w # 0
    BY ImportAssumption DEF FetchPage, ImportInv, ImportTypes, Slots
  <1>2. q.pc # "none" /\ q.pc # "load" /\ q.pc # "flush"
    BY <1>1 DEF TaskInv, SlotsFit
  <1>3. got \subseteq Upsert /\ \A op \in got : op.user \notin q.known
    BY ImportAssumption DEF Upserts, Upsert, ImportInv, ImportTypes
  <1>4. \A u \in Accepted \ q.known : pageOf[u] = slot[i][w].page => \E op \in got : op.user = u
    <2> SUFFICES ASSUME NEW u \in Accepted \ q.known, pageOf[u] = slot[i][w].page
                 PROVE \E op \in got : op.user = u
      OBVIOUS
    <2>1. [user |-> u, data |-> sourceData[u]] \in got
      BY DEF Upserts
    <2> QED BY <2>1
  <1>5. all \subseteq Upsert /\ \A op \in all : op.user \notin q.known
    BY <1>1, <1>3 DEF ATask, TaskInv, OnlyNew
  <1> HIDE DEF got
  <1>6. ASSUME NEW m \in ATask, NEW t \in ASlot, t.pc \in {"idle", "write"},
               import' = [import EXCEPT ![i] = m], slot' = [slot EXCEPT ![i][w] = t],
               m.pc = q.pc, m.cursor = q.cursor, m.pages = q.pages, m.known = q.known,
               m.steady = q.steady, m.erred = q.erred,
               \/ m.pending = all /\ t.pc = "idle"
               \/ m.pending = {} /\ t.pc = "write" /\ t.batch = all
        PROVE  ImportInv'
    <2> DEFINE z == [slot[i] EXCEPT ![w] = t]
    <2>1. slot' = [slot EXCEPT ![i] = z]
      BY <1>6
    <2>2. /\ z \in [Slots -> ASlot] /\ z[w] = t /\ \A s \in Slots \ {w} : z[s] = slot[i][s]
      BY <1>1, <1>6
    <2> HIDE DEF z
    <2>3. import'[i] = m /\ slot'[i] = z /\ UNCHANGED <<pageOf, sourceData, panelUser>>
      BY <1>6, <2>1 DEF FetchPage, ImportInv, ImportTypes
    <2>4. SlotsFit(i)'
      BY <1>1, <1>2, <1>6, <2>2, <2>3 DEF TaskInv, SlotsFit, Slots
    <2>5. OnlyNew(i)'
      BY <1>1, <1>5, <1>6, <2>2, <2>3 DEF TaskInv, OnlyNew
    <2>6. ListFits(i)'
      BY <1>1, <1>6, <2>3 DEF TaskInv, ListFits
    <2>7. AllInHand(i)'
      <3> SUFFICES ASSUME m.steady, ~m.erred, m.pc \in {"fetch", "flush"},
                          NEW u \in Accepted, pageOf[u] # 0 PROVE InHand(i, u)'
        BY <2>3 DEF AllInHand
      <3>1. InHand(i, u)
        BY <1>1, <1>6 DEF TaskInv, AllInHand
      <3>2. (\E op \in all : op.user = u) => InHand(i, u)'
        BY <1>1, <1>6, <2>2, <2>3 DEF InHand
      <3>3. CASE panelUser[u].here \/ (q.pc = "fetch" /\ pageOf[u] > q.cursor)
        BY <1>6, <2>3, <3>3 DEF InHand
      <3>4. CASE \E op \in q.pending : op.user = u
        BY <3>2, <3>4
      <3>5. ASSUME NEW v \in Fetcher, slot[i][v].pc = "fetch", slot[i][v].page = pageOf[u]
            PROVE InHand(i, u)'
        <4>1. CASE v # w
          <5>1. slot'[i][v] = slot[i][v]
            BY <2>2, <2>3, <4>1 DEF Slots
          <5> QED BY <1>6, <2>3, <3>5, <5>1 DEF InHand
        <4>2. CASE v = w /\ u \in q.known
          BY <1>1, <1>6, <2>3, <4>2 DEF TaskInv, ListFits, InHand
        <4>3. CASE v = w /\ u \notin q.known
          BY <1>4, <3>2, <3>5, <4>3
        <4> QED BY <4>1, <4>2, <4>3
      <3>6. ASSUME NEW s \in Slots, slot[i][s].pc = "write", \E op \in slot[i][s].batch : op.user = u
            PROVE InHand(i, u)'
        <4>1. s # w
          BY <1>1, <3>6
        <4>2. slot'[i][s] = slot[i][s]
          BY <2>2, <2>3, <4>1
        <4> QED BY <3>6, <4>2 DEF InHand
      <3> QED BY <3>1, <3>3, <3>4, <3>5, <3>6 DEF InHand
    <2>8. TaskInv(i)'
      BY <2>4, <2>5, <2>6, <2>7 DEF TaskInv
    <2> QED BY <1>6, <2>1, <2>2, <2>3, <2>8, TaskStep DEF ImportInv, ImportTypes
  <1> DEFINE m1 == [q EXCEPT !.pending = {}]
             m2 == [q EXCEPT !.pending = all]
             t1 == [NoSlot EXCEPT !.pc = "write", !.batch = all]
  <1>7. /\ m1 \in ATask /\ m1.pc = q.pc /\ m1.cursor = q.cursor /\ m1.pages = q.pages
        /\ m1.known = q.known /\ m1.steady = q.steady /\ m1.erred = q.erred /\ m1.pending = {}
    BY <1>1 DEF ATask
  <1>8. /\ m2 \in ATask /\ m2.pc = q.pc /\ m2.cursor = q.cursor /\ m2.pages = q.pages
        /\ m2.known = q.known /\ m2.steady = q.steady /\ m2.erred = q.erred /\ m2.pending = all
    BY <1>1, <1>5 DEF ATask
  <1>9. /\ t1 \in ASlot /\ t1.pc = "write" /\ t1.batch = all /\ NoSlot \in ASlot /\ NoSlot.pc = "idle"
    BY <1>5 DEF NoSlot, ASlot
  <1>10. \/ import' = [import EXCEPT ![i] = m1] /\ slot' = [slot EXCEPT ![i][w] = t1]
         \/ import' = [import EXCEPT ![i] = m2] /\ slot' = [slot EXCEPT ![i][w] = NoSlot]
    BY DEF FetchPage, got
  <1> HIDE DEF m1, m2, t1, all
  <1>11. CASE import' = [import EXCEPT ![i] = m1] /\ slot' = [slot EXCEPT ![i][w] = t1]
    BY <1>6, <1>7, <1>9, <1>11
  <1>12. CASE import' = [import EXCEPT ![i] = m2] /\ slot' = [slot EXCEPT ![i][w] = NoSlot]
    BY <1>6, <1>8, <1>9, <1>12
  <1> QED BY <1>10, <1>11, <1>12

LEMMA PageFailsKeeps ==
  ASSUME ImportInv, NEW i \in Import, NEW w \in Fetcher, PageFails(i, w) PROVE ImportInv'
  <1> DEFINE q == import[i]
             m == [q EXCEPT !.erred = TRUE]
             z == [slot[i] EXCEPT ![w] = NoSlot]
  <1>1. /\ q \in ATask /\ TaskInv(i) /\ slot[i] \in [Slots -> ASlot] /\ w \in Slots /\ w # 0
    BY ImportAssumption DEF ImportInv, ImportTypes, Slots
  <1>2. import' = [import EXCEPT ![i] = m] /\ slot' = [slot EXCEPT ![i] = z]
    BY DEF PageFails
  <1>3. /\ m \in ATask /\ m.pc = q.pc /\ m.cursor = q.cursor /\ m.pages = q.pages
        /\ m.pending = q.pending /\ m.known = q.known /\ m.steady = q.steady /\ m.erred
    BY <1>1 DEF ATask
  <1>4. NoSlot \in ASlot /\ NoSlot.pc = "idle"
    BY DEF NoSlot, ASlot
  <1>5. /\ z \in [Slots -> ASlot] /\ z[w] = NoSlot /\ \A s \in Slots \ {w} : z[s] = slot[i][s]
    BY <1>1, <1>4
  <1> HIDE DEF m, z
  <1>6. import'[i] = m /\ slot'[i] = z /\ UNCHANGED <<pageOf, sourceData, panelUser>>
    BY <1>2 DEF PageFails, ImportInv, ImportTypes
  <1>7. SlotsFit(i)'
    BY <1>1, <1>3, <1>4, <1>5, <1>6 DEF TaskInv, SlotsFit, Slots
  <1>8. OnlyNew(i)'
    BY <1>1, <1>3, <1>4, <1>5, <1>6 DEF TaskInv, OnlyNew
  <1>9. ListFits(i)' /\ AllInHand(i)'
    BY <1>1, <1>3, <1>6 DEF TaskInv, ListFits, AllInHand
  <1> QED BY <1>2, <1>3, <1>5, <1>6, <1>7, <1>8, <1>9, TaskStep DEF ImportInv, ImportTypes, TaskInv

LEMMA WriteOneKeeps ==
  ASSUME ImportInv, NEW i \in Import, NEW s \in Slots, WriteOne(i, s) PROVE ImportInv'
  <1> DEFINE q == import[i]
  <1>1. /\ q \in ATask /\ TaskInv(i) /\ slot[i] \in [Slots -> ASlot] /\ slot[i][s].pc = "write"
    BY DEF WriteOne, ImportInv, ImportTypes
  <1>2. PICK op \in slot[i][s].batch :
           /\ panelUser' = [panelUser EXCEPT ![op.user] = Written(i, op)]
           /\ slot' = [slot EXCEPT ![i][s].batch = slot[i][s].batch \ {op}]
    BY DEF WriteOne
  <1> DEFINE t == [slot[i][s] EXCEPT !.batch = slot[i][s].batch \ {op}]
             z == [slot[i] EXCEPT ![s] = t]
  <1>3. t \in ASlot /\ t.pc = "write" /\ t.batch = slot[i][s].batch \ {op}
    BY <1>1 DEF ASlot
  <1>4. slot' = [slot EXCEPT ![i] = z]
    BY <1>1, <1>2
  <1>5. /\ z \in [Slots -> ASlot] /\ z[s] = t /\ \A r \in Slots \ {s} : z[r] = slot[i][r]
    BY <1>1, <1>3
  <1> HIDE DEF t, z
  <1>6. op \in Upsert /\ op.user \in SourceUser
    BY <1>1, ImportAssumption DEF ASlot, Upsert
  <1>7. panelUser \in [SourceUser -> Account] /\ Written(i, op) \in Account /\ Written(i, op).here
    BY <1>6 DEF Written, Account, Upsert, ImportInv, ImportTypes
  <1>8. /\ panelUser' \in [SourceUser -> Account] /\ panelUser'[op.user].here
        /\ \A u \in SourceUser : panelUser[u].here => panelUser'[u].here
    BY <1>2, <1>6, <1>7
  <1>9. import'[i] = q /\ slot'[i] = z /\ UNCHANGED <<pageOf, sourceData, import>>
    BY <1>4 DEF WriteOne, ImportInv, ImportTypes
  <1>10. SlotsFit(i)'
    BY <1>1, <1>3, <1>5, <1>9 DEF TaskInv, SlotsFit, Slots
  <1>11. OnlyNew(i)'
    BY <1>1, <1>3, <1>5, <1>9 DEF TaskInv, OnlyNew
  <1>12. ListFits(i)'
    BY <1>1, <1>8, <1>9 DEF TaskInv, ListFits, ATask
  <1>13. AllInHand(i)'
    <2> SUFFICES ASSUME q.steady, ~q.erred, q.pc \in {"fetch", "flush"},
                        NEW u \in Accepted, pageOf[u] # 0 PROVE InHand(i, u)'
      BY <1>9 DEF AllInHand
    <2>1. InHand(i, u) /\ u \in SourceUser
      BY <1>1, ImportAssumption DEF TaskInv, AllInHand
    <2>2. CASE panelUser[u].here \/ u = op.user
      BY <1>8, <2>1, <2>2 DEF InHand
    <2>3. CASE u # op.user /\ ~panelUser[u].here
      <3>1. \A w \in Fetcher : slot[i][w].pc = "fetch" => slot'[i][w] = slot[i][w]
        BY <1>1, <1>5, <1>9 DEF Slots
      <3>2. \A r \in Slots : slot[i][r].pc = "write" /\ (\E o \in slot[i][r].batch : o.user = u) =>
                slot'[i][r].pc = "write" /\ \E o \in slot'[i][r].batch : o.user = u
        BY <1>3, <1>5, <1>9, <2>3
      <3> QED BY <1>9, <2>1, <2>3, <3>1, <3>2 DEF InHand
    <2> QED BY <2>2, <2>3
  <1>14. TaskInv(i)'
    BY <1>10, <1>11, <1>12, <1>13 DEF TaskInv
  <1>15. import' = [import EXCEPT ![i] = q]
    BY <1>9 DEF ImportInv, ImportTypes
  <1> QED BY <1>1, <1>4, <1>5, <1>8, <1>9, <1>14, <1>15, TaskStep

\* A batch that ends with nothing left leaves nobody behind.
LEMMA BatchEndsKeeps ==
  ASSUME ImportInv, NEW i \in Import, NEW s \in Slots, BatchEnds(i, s) PROVE ImportInv'
  <1> DEFINE q == import[i]
             m == [q EXCEPT !.pc = IF s = 0 THEN "done" ELSE q.pc,
                            !.erred = q.erred \/ slot[i][s].batch # {}]
             z == [slot[i] EXCEPT ![s] = NoSlot]
  <1>1. /\ q \in ATask /\ TaskInv(i) /\ slot[i] \in [Slots -> ASlot] /\ slot[i][s].pc = "write"
    BY DEF BatchEnds, ImportInv, ImportTypes
  <1>2. import' = [import EXCEPT ![i] = m] /\ slot' = [slot EXCEPT ![i] = z]
    BY DEF BatchEnds
  <1>3. /\ m \in ATask /\ m.cursor = q.cursor /\ m.pages = q.pages
        /\ m.pending = q.pending /\ m.known = q.known /\ m.steady = q.steady
        /\ m.erred = (q.erred \/ slot[i][s].batch # {})
        /\ m.pc = IF s = 0 THEN "done" ELSE q.pc
    BY <1>1 DEF ATask
  <1>4. NoSlot \in ASlot /\ NoSlot.pc = "idle"
    BY DEF NoSlot, ASlot
  <1>5. /\ z \in [Slots -> ASlot] /\ z[s] = NoSlot /\ \A r \in Slots \ {s} : z[r] = slot[i][r]
    BY <1>1, <1>4
  <1> HIDE DEF m, z
  <1>6. import'[i] = m /\ slot'[i] = z /\ UNCHANGED <<pageOf, sourceData, panelUser>>
    BY <1>2 DEF BatchEnds, ImportInv, ImportTypes
  <1>7. q.pc \notin {"none", "load"} /\ (s # 0 => q.pc # "flush")
    BY <1>1, ImportAssumption DEF TaskInv, SlotsFit, Slots
  <1>8. SlotsFit(i)'
    BY <1>1, <1>3, <1>4, <1>5, <1>6, <1>7 DEF TaskInv, SlotsFit, Slots
  <1>9. OnlyNew(i)'
    BY <1>1, <1>3, <1>4, <1>5, <1>6 DEF TaskInv, OnlyNew
  <1>10. ListFits(i)'
    BY <1>1, <1>3, <1>6 DEF TaskInv, ListFits
  <1>11. AllInHand(i)'
    <2> SUFFICES ASSUME m.steady, ~m.erred, m.pc \in {"fetch", "flush"},
                        NEW u \in Accepted, pageOf[u] # 0 PROVE InHand(i, u)'
      BY <1>6 DEF AllInHand
    <2>1. s # 0 /\ q.pc = m.pc /\ slot[i][s].batch = {} /\ InHand(i, u)
      BY <1>1, <1>3 DEF TaskInv, AllInHand
    <2>2. \A w \in Fetcher : slot[i][w].pc = "fetch" => slot'[i][w] = slot[i][w]
      BY <1>1, <1>5, <1>6 DEF Slots
    <2>3. \A r \in Slots : slot[i][r].batch # {} => slot'[i][r] = slot[i][r]
      BY <1>5, <1>6, <2>1
    <2> QED BY <1>3, <1>6, <2>1, <2>2, <2>3 DEF InHand
  <1> QED BY <1>2, <1>3, <1>5, <1>6, <1>8, <1>9, <1>10, <1>11, TaskStep DEF ImportInv, ImportTypes, TaskInv

\* The last flush takes what is pending when every worker is through.
LEMMA LastFlushKeeps ==
  ASSUME ImportInv, NEW i \in Import, LastFlush(i) PROVE ImportInv'
  <1> DEFINE q == import[i]
             m == [q EXCEPT !.pc = "flush", !.pending = {}]
             t == [NoSlot EXCEPT !.pc = "write", !.batch = q.pending]
             z == [slot[i] EXCEPT ![0] = t]
  <1>1. /\ q \in ATask /\ TaskInv(i) /\ slot[i] \in [Slots -> ASlot] /\ q.pc = "fetch" /\ 0 \in Slots
        /\ q.cursor = q.pages /\ \A w \in Fetcher : slot[i][w].pc = "idle" /\ w \in Slots /\ w # 0
    BY ImportAssumption DEF LastFlush, AllFetched, ImportInv, ImportTypes, Slots
  <1>2. import' = [import EXCEPT ![i] = m] /\ slot' = [slot EXCEPT ![i] = z]
    BY DEF LastFlush
  <1>3. /\ m \in ATask /\ m.cursor = q.cursor /\ m.pages = q.pages
        /\ m.pending = {} /\ m.known = q.known /\ m.steady = q.steady
        /\ m.erred = q.erred /\ m.pc = "flush"
    BY <1>1 DEF ATask
  <1>4. t \in ASlot /\ t.pc = "write" /\ t.batch = q.pending
    BY <1>1 DEF NoSlot, ASlot, ATask
  <1> HIDE DEF t
  <1>5. /\ z \in [Slots -> ASlot] /\ z[0] = t /\ \A r \in Slots \ {0} : z[r] = slot[i][r]
    BY <1>1, <1>4
  <1> HIDE DEF m, z
  <1>6. import'[i] = m /\ slot'[i] = z /\ UNCHANGED <<pageOf, sourceData, panelUser>>
    BY <1>2 DEF LastFlush, ImportInv, ImportTypes
  <1>7. SlotsFit(i)'
    BY <1>1, <1>3, <1>4, <1>5, <1>6 DEF TaskInv, SlotsFit
  <1>8. OnlyNew(i)'
    BY <1>1, <1>3, <1>4, <1>5, <1>6 DEF TaskInv, OnlyNew
  <1>9. ListFits(i)'
    BY <1>1, <1>3, <1>6 DEF TaskInv, ListFits
  <1>10. AllInHand(i)'
    <2> SUFFICES ASSUME m.steady, ~m.erred, NEW u \in Accepted, pageOf[u] # 0 PROVE InHand(i, u)'
      BY <1>6 DEF AllInHand
    <2>1. InHand(i, u)
      BY <1>1, <1>3 DEF TaskInv, AllInHand
    <2>2. ~(pageOf[u] > q.cursor)
      <3>1. pageOf[u] <= q.pages /\ pageOf[u] \in Nat /\ q.pages \in Nat
        BY <1>1, <1>3, ImportAssumption DEF TaskInv, ListFits, ATask, ImportInv, ImportTypes
      <3> QED BY <1>1, <3>1
    <2>3. slot[i][0].pc = "idle"
      BY <1>1 DEF TaskInv, SlotsFit
    <2> QED BY <1>1, <1>4, <1>5, <1>6, <2>1, <2>2, <2>3 DEF InHand
  <1> QED BY <1>2, <1>3, <1>5, <1>6, <1>7, <1>8, <1>9, <1>10, TaskStep DEF ImportInv, ImportTypes, TaskInv

LEMMA SourceMovesKeeps ==
  ASSUME ImportInv, SourceMoves PROVE ImportInv'
  <1>1. \A i \in Import : import'[i] = [import[i] EXCEPT !.steady = FALSE] /\ slot'[i] = slot[i]
                          /\ import[i] \in ATask /\ TaskInv(i)
    BY DEF SourceMoves, ImportInv, ImportTypes
  <1>2. \A i \in Import : import'[i] \in ATask /\ TaskInv(i)'
    BY <1>1, UnsteadyKeeps
  <1>3. pageOf' \in [SourceUser -> Nat]
    BY ImportAssumption DEF SourceMoves, ImportInv, ImportTypes
  <1>4. ImportTypes'
    BY <1>2, <1>3 DEF SourceMoves, ImportInv, ImportTypes
  <1> QED BY <1>2, <1>4 DEF ImportInv

LEMMA PanelEditKeeps ==
  ASSUME ImportInv, PanelEdit PROVE ImportInv'
  <1>1. PICK u \in SourceUser :
        \/ /\ \/ panelUser' = [panelUser EXCEPT ![u] = [here |-> TRUE, secret |-> Panel, data |-> 2]]
              \/ panelUser[u].here /\ panelUser' = [panelUser EXCEPT ![u].data = 2]
           /\ UNCHANGED import
        \/ /\ panelUser' = [panelUser EXCEPT ![u] = NoUser]
           /\ import' = [i \in Import |-> [import[i] EXCEPT !.steady = FALSE]]
    BY DEF PanelEdit
  <1>2. [here |-> TRUE, secret |-> Panel, data |-> 2] \in Account /\ NoUser \in Account
    BY DEF NoUser, Account
  <1>3. panelUser \in [SourceUser -> Account] /\ UNCHANGED <<pageOf, sourceData, slot>>
    BY DEF PanelEdit, ImportInv, ImportTypes
  <1>4. ASSUME NEW x \in Account, panelUser' = [panelUser EXCEPT ![u] = x], x.here, UNCHANGED import
        PROVE ImportInv'
    <2>1. panelUser' \in [SourceUser -> Account] /\ \A v \in SourceUser : panelUser[v].here => panelUser'[v].here
      BY <1>3, <1>4
    <2>2. \A i \in Import : TaskInv(i)'
      BY <1>3, <1>4, <2>1, TaskKeeps DEF ImportInv, ImportTypes
    <2> QED BY <1>3, <1>4, <2>1, <2>2 DEF ImportInv, ImportTypes
  <1>5. ASSUME panelUser' = [panelUser EXCEPT ![u] = NoUser],
               import' = [i \in Import |-> [import[i] EXCEPT !.steady = FALSE]]
        PROVE ImportInv'
    <2>1. \A i \in Import : import'[i] \in ATask /\ TaskInv(i)'
      BY <1>3, <1>5, UnsteadyKeeps DEF ImportInv, ImportTypes
    <2>2. panelUser' \in [SourceUser -> Account]
      BY <1>2, <1>3, <1>5
    <2>3. ImportTypes'
      BY <1>3, <1>5, <2>1, <2>2 DEF ImportInv, ImportTypes
    <2> QED BY <2>1, <2>3 DEF ImportInv
  <1>6. panelUser[u].here /\ panelUser' = [panelUser EXCEPT ![u].data = 2] =>
           \E x \in Account : x.here /\ panelUser' = [panelUser EXCEPT ![u] = x]
    <2> SUFFICES ASSUME panelUser[u].here, panelUser' = [panelUser EXCEPT ![u].data = 2]
                 PROVE \E x \in Account : x.here /\ panelUser' = [panelUser EXCEPT ![u] = x]
      OBVIOUS
    <2> DEFINE x == [panelUser[u] EXCEPT !.data = 2]
    <2>1. x \in Account /\ x.here
      BY <1>3 DEF Account
    <2>2. panelUser' = [panelUser EXCEPT ![u] = x]
      BY <1>3
    <2> QED BY <2>1, <2>2
  <1> QED BY <1>1, <1>2, <1>4, <1>5, <1>6

LEMMA ImportInvNext == ImportInv /\ [ImportNext]_importVars => ImportInv'
  <1> SUFFICES ASSUME ImportInv, [ImportNext]_importVars PROVE ImportInv'
    OBVIOUS
  <1>1. ASSUME sourceData' \in [SourceUser -> Nat], UNCHANGED <<pageOf, panelUser, import, slot>>
        PROVE ImportInv'
    <2>1. \A i \in Import : TaskInv(i)'
      BY <1>1, TaskKeeps DEF ImportInv, ImportTypes
    <2> QED BY <1>1, <2>1 DEF ImportInv, ImportTypes
  <1>2. CASE SourceChanges
    BY <1>1, <1>2 DEF SourceChanges, ImportInv, ImportTypes
  <1>3. CASE UNCHANGED importVars
    BY <1>1, <1>3 DEF importVars, ImportInv, ImportTypes
  <1> QED
    BY <1>2, <1>3, CountKeeps, LoadKeeps, TakePageKeeps, FetchPageKeeps, PageFailsKeeps, WriteOneKeeps,
       BatchEndsKeeps, LastFlushKeeps, SourceMovesKeeps, PanelEditKeeps DEF ImportNext

\* A task that turns from its last flush to done ends its last batch.
LEMMA DoneIsBatchEnd ==
  ASSUME ImportInv, [ImportNext]_importVars, NEW i \in Import, import[i].pc = "flush", import'[i].pc = "done"
  PROVE  BatchEnds(i, 0)
  <1>1. import \in [Import -> ATask]
    BY DEF ImportInv, ImportTypes
  <1>2. ~UNCHANGED import
    OBVIOUS
  <1>3. ~\E j \in Import : Count(j) \/ LoadExisting(j) \/ LastFlush(j)
    <2> SUFFICES ASSUME NEW j \in Import, Count(j) \/ LoadExisting(j) \/ LastFlush(j) PROVE FALSE
      OBVIOUS
    <2>1. import[j].pc # "flush"
      BY DEF Count, LoadExisting, LastFlush
    <2>2. import'[i] = import[i]
      BY <1>1, <2>1 DEF Count, LoadExisting, LastFlush
    <2> QED BY <2>2
  <1>4. \A j \in Import, w \in Fetcher : TakePage(j, w) \/ FetchPage(j, w) \/ PageFails(j, w) =>
           import'[i].pc = import[i].pc
    <2>0. import[i] \in ATask
      BY <1>1
    <2>1. \A j \in Import, w \in Fetcher : TakePage(j, w) => import'[i].pc = import[i].pc
      BY <1>1, <2>0 DEF TakePage, ATask
    <2>2. \A j \in Import, w \in Fetcher : FetchPage(j, w) => import'[i].pc = import[i].pc
      BY <1>1, <2>0 DEF FetchPage, ATask
    <2>3. \A j \in Import, w \in Fetcher : PageFails(j, w) => import'[i].pc = import[i].pc
      BY <1>1, <2>0 DEF PageFails, ATask
    <2> QED BY <2>1, <2>2, <2>3
  <1>5. ~\E j \in Import, s \in Slots : WriteOne(j, s)
    BY <1>2 DEF WriteOne
  <1>6. ~SourceChanges /\ importVars' # importVars
    BY <1>2 DEF SourceChanges, importVars
  <1>7. ~SourceMoves /\ ~PanelEdit
    <2>1. import'[i] # [import[i] EXCEPT !.steady = FALSE]
      BY <1>1 DEF ATask
    <2> QED BY <1>2, <2>1 DEF SourceMoves, PanelEdit
  <1>8. PICK j \in Import, s \in Slots : BatchEnds(j, s)
    BY <1>3, <1>4, <1>5, <1>6, <1>7 DEF ImportNext
  <1>9. j = i
    BY <1>1, <1>8 DEF BatchEnds
  <1>10. s = 0
    BY <1>1, <1>8, <1>9 DEF BatchEnds, ATask
  <1> QED BY <1>8, <1>9, <1>10

LEMMA DoneIsComplete ==
  ASSUME ImportInv, [ImportNext]_importVars, NEW i \in Import, import[i].pc = "flush", import'[i].pc = "done",
         import[i].steady, ~import'[i].erred, NEW u \in Accepted, pageOf[u] # 0
  PROVE  panelUser[u].here
  <1>1. BatchEnds(i, 0) /\ import[i] \in ATask /\ TaskInv(i)
    BY DoneIsBatchEnd DEF ImportInv, ImportTypes
  <1>2. ~import[i].erred /\ slot[i][0].batch = {}
    <2>1. import'[i].erred = (import[i].erred \/ slot[i][0].batch # {})
      BY <1>1 DEF BatchEnds, ImportInv, ImportTypes, ATask
    <2> QED BY <2>1
  <1>3. InHand(i, u)
    BY <1>1, <1>2 DEF TaskInv, AllInHand
  <1>4. import[i].pending = {} /\ \A w \in Fetcher : slot[i][w].pc = "idle"
    BY <1>1 DEF TaskInv, SlotsFit
  <1> QED BY <1>2, <1>3, <1>4 DEF InHand, Slots

LEMMA WriteKeepsAccount ==
  ASSUME ImportInv, NEW i \in Import, NEW s \in Slots, NEW u \in SourceUser, WriteOne(i, s),
         panelUser[u].here
  PROVE  /\ panelUser'[u].secret = panelUser[u].secret
         /\ u \in import[i].known => panelUser'[u] = panelUser[u]
  <1>1. PICK op \in slot[i][s].batch : panelUser' = [panelUser EXCEPT ![op.user] = Written(i, op)]
    BY DEF WriteOne
  <1>2. panelUser \in [SourceUser -> Account] /\ op.user \notin import[i].known
    BY DEF WriteOne, ImportInv, ImportTypes, TaskInv, OnlyNew
  <1>3. CASE op.user = u
    BY <1>1, <1>2, <1>3 DEF Written, Account
  <1>4. CASE op.user # u
    BY <1>1, <1>2, <1>4
  <1> QED BY <1>3, <1>4

(* An import loses no user it was asked for and touches no other, for any   *)
(* number of users, pages, workers, tasks and edits on both sides.          *)
THEOREM ImportsAreFaithfulHold == ImportSpec => ImportsAreFaithful
  <1>1. ImportInv /\ [ImportNext]_importVars =>
            [ImportIsComplete /\ ImportKeepsAccounts]_importVars
    <2>1. ImportInv /\ ImportNext => ImportIsComplete
      BY DoneIsComplete DEF ImportIsComplete
    <2>2. ImportInv /\ ImportNext => ImportKeepsAccounts
      BY WriteKeepsAccount DEF ImportKeepsAccounts
    <2> QED BY <2>1, <2>2
  <1> QED
    BY ImportInvInit, ImportInvNext, <1>1, PTL DEF ImportSpec, ImportsAreFaithful
===============================================================================
