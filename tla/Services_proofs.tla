-------------------------- MODULE Services_proofs ---------------------------
(***************************************************************************)
(* The components around a topology, for every drawing, number of links,   *)
(* jobs and editors. They share no state: each part below is about the     *)
(* specification of one of them, and cites no lemma of another.            *)
(***************************************************************************)
EXTENDS CascadeLinks, TopologyDraft, RoutePolicy, TLAPS

-----------------------------------------------------------------------------
(***************************************************************************)
(* CascadeLinks. ShownIsServed is inductive only together with what every  *)
(* job has done so far at the two ends of its link (EndsFollow) and with   *)
(* that no two jobs are about one link unless it is muddled (AloneOnLink). *)
(* A rebuild of a node that keeps a link shown as deployed at its end is   *)
(* where OwnService is needed.                                             *)
(***************************************************************************)

\* The calls a job may be carrying out, by what they have left to do.
DeployCall(l, todo)   == [kind |-> "deploy",   link |-> l, todo |-> todo]
UndeployCall(l, todo) == [kind |-> "undeploy", link |-> l, todo |-> todo]
CheckCall(l)          == [kind |-> "check",    link |-> l, todo |-> <<>>]

Calls ==
    {NoJob} \cup {CheckCall(l) : l \in Link}
        \cup UNION {{DeployCall(l, DeploySteps(l)), DeployCall(l, <<DeploySteps(l)[2]>>),
                     DeployCall(l, <<>>), UndeployCall(l, UndeploySteps(l)),
                     UndeployCall(l, <<UndeploySteps(l)[2]>>), UndeployCall(l, <<>>)} : l \in Link}

LinkTypes ==
    /\ linkStatus \in [Link -> LinkState]
    /\ mainConf \in [Site -> SUBSET Link]
    /\ sideConf \in [Site -> SUBSET Link]
    /\ linkJob \in [Job -> Calls]
    /\ muddled \subseteq Link

\* A link's two ends hold it, each in the configuration that is its own.
AtPortal(l) == l \in mainConf[PortalOf[l]]
AtBridge(l) == l \in IF l \in Forward /\ BridgeOf[l] \in XraySite
                     THEN mainConf[BridgeOf[l]] ELSE sideConf[BridgeOf[l]]

\* Each step of an undisturbed deployment leaves its end configured.
EndsFollow ==
    \A j \in Job, l \in Link \ muddled :
        /\ linkJob[j] = DeployCall(l, <<DeploySteps(l)[2]>>) =>
              IF l \in Forward THEN AtBridge(l) ELSE AtPortal(l)
        /\ linkJob[j] = DeployCall(l, <<>>) => AtPortal(l) /\ AtBridge(l)
        /\ linkJob[j] = CheckCall(l) => AtPortal(l) /\ AtBridge(l)

\* At most one call is about a link nothing disturbed, which is pending while
\* that call replaces configurations.
AloneOnLink ==
    /\ \A i, j \in Job : i # j /\ linkJob[i].link = linkJob[j].link
           => linkJob[i].link \in muddled \cup {0}
    /\ \A j \in Job : linkJob[j].kind \in {"deploy", "undeploy"} =>
           linkJob[j].link \in muddled \/ linkStatus[linkJob[j].link] = "pending"

ShownIsPlaced ==
    \A l \in Link : linkStatus[l] \in Shown /\ l \notin muddled => AtPortal(l) /\ AtBridge(l)

LinksInv == LinkTypes /\ EndsFollow /\ AloneOnLink /\ ShownIsPlaced

-----------------------------------------------------------------------------
(* What the generated configurations hold.                                 *)

LEMMA StepsOfLink ==
  ASSUME NEW l \in Link
  PROVE  /\ Tail(DeploySteps(l)) = <<DeploySteps(l)[2]>>
         /\ Tail(UndeploySteps(l)) = <<UndeploySteps(l)[2]>>
         /\ DeploySteps(l) # <<>> /\ UndeploySteps(l) # <<>>
         /\ Head(DeploySteps(l)) = DeploySteps(l)[1]
         /\ Head(UndeploySteps(l)) = UndeploySteps(l)[1]
         /\ Len(DeploySteps(l)) = 2 /\ Len(UndeploySteps(l)) = 2
  BY LinkAssumption DEF DeploySteps, UndeploySteps

\* A main configuration holds every link that starts at the node, and every
\* forward link that ends there, unless it is left out on purpose.
LEMMA MainLinksHold ==
  ASSUME NEW l \in Link, NEW without, l \notin without
  PROVE  /\ l \in MainLinks(PortalOf[l], without)
         /\ l \in Forward => l \in MainLinks(BridgeOf[l], without)
  <1>1. CASE l \notin Forward
    BY <1>1, LinkAssumption DEF MainLinks
  <1>2. CASE l \in Forward
    <2>1. l \in ForwardChain(PortalOf[l], without)
      BY <1>2, LinkAssumption DEF ForwardChain
    <2> QED BY <1>2, <2>1, LinkAssumption DEF MainLinks
  <1> QED BY <1>1, <1>2

LEMMA MainLinksType ==
  ASSUME NEW n, NEW without
  PROVE  MainLinks(n, without) \subseteq Link
  BY LinkAssumption DEF MainLinks, ForwardChain

LEMMA SideLinksType ==
  ASSUME NEW n, NEW l \in Link
  PROVE  /\ SideLinks(n, l) \subseteq Link
         /\ l \notin Forward /\ BridgeOf[l] = n => l \in SideLinks(n, l)
  BY LinkAssumption DEF SideLinks

\* A job of another link that replaces the xray-bridge service of a node keeps
\* the links that end there, if the drawing keeps the services apart.
LEMMA SideLinksKeep ==
  ASSUME OwnService, NEW k \in Link, NEW l \in Link, k # l, BridgeOf[k] = BridgeOf[l],
         BridgeOf[l] \in XraySite => {k, l} \cap Forward = {}
  PROVE  k \notin Forward /\ l \notin Forward /\ l \in SideLinks(BridgeOf[l], k)
  <1>1. {k, l} \cap Forward = {}
    BY DEF OwnService
  <1>2. ~\E m \in Link : PortalOf[m] = BridgeOf[l]
    BY <1>1 DEF OwnService
  <1> QED BY <1>1, <1>2 DEF SideLinks

\* The node a call works on next, and which of its configurations.
LEMMA NextWork ==
  ASSUME NEW r \in Calls, r.kind \in {"deploy", "undeploy"}, r.todo # <<>>,
         NEW where, NEW n, where = Head(r.todo)[1], n = Head(r.todo)[2]
  PROVE  /\ r.link \in Link /\ n \in Site
         /\ where \in {"main", "side", "hop", "rest"}
         /\ where # "main" => /\ n = BridgeOf[r.link]
                              /\ r.link \notin Forward \/ n \notin XraySite
         /\ where = "side" => r.link \notin Forward
         /\ where = "rest" => r.kind = "undeploy"
         /\ where = "hop" => r.link \in Forward
  <1>1. PICK l \in Link : \/ r \in {DeployCall(l, DeploySteps(l)), DeployCall(l, <<DeploySteps(l)[2]>>)}
                          \/ r \in {UndeployCall(l, UndeploySteps(l)),
                                    UndeployCall(l, <<UndeploySteps(l)[2]>>)}
    BY DEF Calls, NoJob, CheckCall, DeployCall, UndeployCall
  <1>2. r.link = l
    BY <1>1 DEF DeployCall, UndeployCall
  <1>3. CASE r \in {DeployCall(l, DeploySteps(l)), DeployCall(l, <<DeploySteps(l)[2]>>)}
    <2>1. Head(r.todo) \in {DeploySteps(l)[1], DeploySteps(l)[2]}
      BY <1>3, StepsOfLink DEF DeployCall
    <2> QED BY <1>2, <2>1, LinkAssumption DEF DeploySteps
  <1>4. CASE r \in {UndeployCall(l, UndeploySteps(l)), UndeployCall(l, <<UndeploySteps(l)[2]>>)}
    <2>1. Head(r.todo) \in {UndeploySteps(l)[1], UndeploySteps(l)[2]} /\ r.kind = "undeploy"
      BY <1>4, StepsOfLink DEF UndeployCall
    <2> QED BY <1>2, <2>1, LinkAssumption DEF UndeploySteps
  <1> QED BY <1>1, <1>3, <1>4

\* A configuration rebuilt by a call of another link still holds l.
LEMMA RebuiltKeeps ==
  ASSUME OwnService, NEW r \in Calls, NEW l \in Link, r.link # l,
         r.kind \in {"deploy", "undeploy"}, r.todo # <<>>, NEW f \in Rebuilt(r),
         NEW where, NEW n, where = Head(r.todo)[1], n = Head(r.todo)[2]
  PROVE  /\ where = "main" /\ n = PortalOf[l] => l \in f
         /\ where = "main" /\ n = BridgeOf[l] /\ l \in Forward => l \in f
         /\ where # "main" /\ n = BridgeOf[l] /\ (l \notin Forward \/ n \notin XraySite) => l \in f
  <1>1. /\ r.link \in Link /\ where \in {"main", "side", "hop", "rest"}
        /\ where # "main" => /\ n = BridgeOf[r.link]
                             /\ r.link \notin Forward \/ n \notin XraySite
        /\ where = "hop" => r.link \in Forward
    BY NextWork
  <1>2. CASE where = "main"
    <2>1. PICK without \in {{}, {r.link}} : f = MainLinks(n, without)
      BY <1>2 DEF Rebuilt
    <2> QED BY <1>2, <2>1, MainLinksHold
  <1>3. CASE where # "main" /\ n = BridgeOf[l] /\ (l \notin Forward \/ n \notin XraySite)
    <2>1. /\ n = BridgeOf[r.link]
          /\ r.link \notin Forward \/ n \notin XraySite
          /\ where = "hop" => r.link \in Forward
      BY <1>1, <1>3
    <2>2. BridgeOf[l] \in XraySite => {r.link, l} \cap Forward = {}
      BY <1>3, <2>1
    <2>3. r.link \notin Forward /\ l \notin Forward /\ l \in SideLinks(n, r.link)
      <3>1. BridgeOf[r.link] = BridgeOf[l]
        BY <1>3, <2>1
      <3> QED BY <1>1, <1>3, <2>2, <3>1, SideLinksKeep
    <2>4. CASE where = "side"
      BY <2>3, <2>4 DEF Rebuilt
    <2>5. CASE where = "rest"
      <3>1. l \in {k \in Link \ (Forward \cup {r.link}) : BridgeOf[k] = n}
        BY <1>3, <2>3
      <3>2. PICK k \in Link \ (Forward \cup {r.link}) : BridgeOf[k] = n /\ f = SideLinks(n, k)
        BY <2>5, <3>1 DEF Rebuilt
      <3>3. k # l => l \in SideLinks(n, k)
        BY <1>3, <2>3, <3>2, SideLinksKeep
      <3>4. k = l => l \in SideLinks(n, k)
        BY <1>3, <2>3, SideLinksType
      <3> QED BY <3>2, <3>3, <3>4
    <2> QED BY <1>1, <1>3, <2>1, <2>3, <2>4, <2>5
  <1> QED BY <1>2, <1>3

LEMMA RebuiltType ==
  ASSUME NEW r \in Calls, r.kind \in {"deploy", "undeploy"}, r.todo # <<>>, NEW f \in Rebuilt(r)
  PROVE  f \subseteq Link
  <1> DEFINE where == Head(r.todo)[1]
             n     == Head(r.todo)[2]
             rest  == {k \in Link \ (Forward \cup {r.link}) : BridgeOf[k] = n}
  <1>1. r.link \in Link /\ where \in {"main", "side", "hop", "rest"}
    BY NextWork
  <1>2. CASE where = "main"
    BY <1>2, MainLinksType DEF Rebuilt
  <1>3. CASE where = "side"
    <2>1. f = SideLinks(n, r.link)
      BY <1>3 DEF Rebuilt
    <2> QED BY <1>1, <2>1, SideLinksType
  <1>4. CASE where = "hop"
    BY <1>1, <1>4 DEF Rebuilt
  <1>5. CASE where = "rest"
    <2>1. f = {} \/ \E k \in rest : f = SideLinks(n, k)
      BY <1>5 DEF Rebuilt
    <2> QED BY <2>1, SideLinksType
  <1> QED BY <1>1, <1>2, <1>3, <1>4, <1>5

\* A deployment's own step configures the end it works on.
LEMMA DeployServes ==
  ASSUME NEW l \in Link, NEW r, NEW f \in Rebuilt(r),
         NEW where, NEW n, where = Head(r.todo)[1], n = Head(r.todo)[2]
  PROVE  /\ r = DeployCall(l, DeploySteps(l)) =>
               IF l \in Forward
               THEN /\ n = BridgeOf[l] /\ l \in f
                    /\ where = "main" <=> n \in XraySite
               ELSE where = "main" /\ n = PortalOf[l] /\ l \in f
         /\ r = DeployCall(l, <<DeploySteps(l)[2]>>) =>
               IF l \in Forward
               THEN where = "main" /\ n = PortalOf[l] /\ l \in f
               ELSE where = "side" /\ n = BridgeOf[l] /\ l \in f
  <1>1. ASSUME r = DeployCall(l, DeploySteps(l))
        PROVE  IF l \in Forward
               THEN /\ n = BridgeOf[l] /\ l \in f
                    /\ where = "main" <=> n \in XraySite
               ELSE where = "main" /\ n = PortalOf[l] /\ l \in f
    <2>1. r.link = l /\ r.kind = "deploy" /\ Head(r.todo) = DeploySteps(l)[1]
      BY <1>1, StepsOfLink DEF DeployCall
    <2>2. l \in MainLinks(PortalOf[l], {}) /\ (l \in Forward => l \in MainLinks(BridgeOf[l], {}))
      BY MainLinksHold
    <2>3. /\ l \notin Forward => where = "main" /\ n = PortalOf[l]
          /\ l \in Forward => /\ where \in {"main", "hop"} /\ n = BridgeOf[l]
                              /\ where = "main" <=> n \in XraySite
      BY <2>1 DEF DeploySteps
    <2> QED BY <2>1, <2>2, <2>3 DEF Rebuilt
  <1>2. ASSUME r = DeployCall(l, <<DeploySteps(l)[2]>>)
        PROVE  IF l \in Forward
               THEN where = "main" /\ n = PortalOf[l] /\ l \in f
               ELSE where = "side" /\ n = BridgeOf[l] /\ l \in f
    <2>1. r.link = l /\ r.kind = "deploy" /\ Head(r.todo) = DeploySteps(l)[2]
      BY <1>2 DEF DeployCall
    <2>2. l \in MainLinks(PortalOf[l], {}) /\ (l \notin Forward => l \in SideLinks(BridgeOf[l], l))
      BY MainLinksHold, SideLinksType
    <2>3. /\ l \notin Forward => where = "side" /\ n = BridgeOf[l]
          /\ l \in Forward => where = "main" /\ n = PortalOf[l]
      BY <2>1 DEF DeploySteps
    <2> QED BY <2>1, <2>2, <2>3 DEF Rebuilt
  <1> QED BY <1>1, <1>2

-----------------------------------------------------------------------------
(* The steps.                                                              *)

\* Calls with different work left are different; only a deployment that has
\* configured an end says anything of its ends.
LEMMA CallsDiffer ==
  ASSUME NEW k \in Link, NEW l \in Link
  PROVE  /\ DeployCall(l, DeploySteps(l)) \notin
               {DeployCall(k, <<DeploySteps(k)[2]>>), DeployCall(k, <<>>), CheckCall(k)}
         /\ DeployCall(l, DeploySteps(l)) \in Calls /\ UndeployCall(l, UndeploySteps(l)) \in Calls
         /\ CheckCall(l) \in Calls
         /\ NoJob \in Calls /\ NoJob \notin
               {DeployCall(k, <<DeploySteps(k)[2]>>), DeployCall(k, <<>>), CheckCall(k)}
         /\ 0 \notin Link
  <1>1. Len(DeploySteps(l)) = 2 /\ Len(<<DeploySteps(k)[2]>>) = 1
    BY StepsOfLink
  <1>2. DeploySteps(l) # <<DeploySteps(k)[2]>> /\ DeploySteps(l) # <<>>
    BY <1>1, StepsOfLink
  <1>3. 0 \notin Link
    BY LinkAssumption
  <1> QED BY <1>2, <1>3 DEF DeployCall, UndeployCall, CheckCall, NoJob, Calls

LEMMA LinksInit == CascadeInit => LinksInv
  <1> SUFFICES ASSUME CascadeInit PROVE LinksInv
    OBVIOUS
  <1>1. LinkTypes
    BY CallsDiffer DEF CascadeInit, LinkTypes, LinkState, Calls
  <1>2. EndsFollow
    BY CallsDiffer DEF CascadeInit, EndsFollow
  <1>3. AloneOnLink
    BY DEF CascadeInit, AloneOnLink, NoJob
  <1>4. ShownIsPlaced
    BY DEF CascadeInit, ShownIsPlaced, Shown
  <1> QED BY <1>1, <1>2, <1>3, <1>4 DEF LinksInv

\* A new call about l disturbs whoever else works on it.
LEMMA BeginStep ==
  ASSUME LinksInv, NEW j \in Job, NEW l \in Link, NEW r \in Calls,
         linkJob[j].kind = "none", r.link = l,
         \A k \in Link \ muddled' :
             /\ r # DeployCall(k, <<DeploySteps(k)[2]>>) /\ r # DeployCall(k, <<>>)
             /\ r = CheckCall(k) => linkStatus[k] \in Shown,
         linkJob' = [linkJob EXCEPT ![j] = r],
         IF r.kind = "check"
         THEN linkStatus' = linkStatus /\ muddled' \in {muddled, muddled \cup {l}}
         ELSE /\ linkStatus' = [linkStatus EXCEPT ![l] = "pending"]
              /\ muddled' \in {muddled \ {l}, muddled \cup {l}},
         Working(l) => muddled' = muddled \cup {l},
         UNCHANGED <<mainConf, sideConf>>
  PROVE  LinksInv'
  <1> USE DEF LinksInv
  <1>1. linkJob[j] = NoJob /\ 0 \notin Link
    BY LinkAssumption DEF LinkTypes, Calls, NoJob, CheckCall, DeployCall, UndeployCall
  <1>2. LinkTypes'
    BY DEF LinkTypes, LinkState
  <1>3. ASSUME NEW i \in Job, linkJob[i].link = l PROVE i # j /\ l \in muddled'
    BY <1>1, <1>3 DEF Working, NoJob
  <1>4. ShownIsPlaced'
    <2> SUFFICES ASSUME NEW k \in Link, linkStatus'[k] \in Shown, k \notin muddled'
                 PROVE  AtPortal(k)' /\ AtBridge(k)'
      BY DEF ShownIsPlaced
    <2>1. linkStatus[k] \in Shown /\ k \notin muddled
      BY DEF LinkTypes, Shown
    <2> QED BY <2>1 DEF ShownIsPlaced, AtPortal, AtBridge
  <1>5. AloneOnLink'
    <2>1. ASSUME NEW i \in Job, NEW m \in Job, i # m, linkJob'[i].link = linkJob'[m].link
          PROVE  linkJob'[i].link \in muddled' \cup {0}
      BY <1>3, <2>1 DEF LinkTypes, AloneOnLink
    <2>2. ASSUME NEW i \in Job, linkJob'[i].kind \in {"deploy", "undeploy"}
          PROVE  linkJob'[i].link \in muddled' \/ linkStatus'[linkJob'[i].link] = "pending"
      <3>1. CASE i = j
        BY <2>2, <3>1 DEF LinkTypes
      <3>2. CASE i # j
        <4>1. linkJob'[i] = linkJob[i] /\ linkJob[i].link \in Link
          BY <2>2, <3>2 DEF LinkTypes, Calls, NoJob, CheckCall, DeployCall, UndeployCall
        <4>2. linkJob[i].link \in muddled \/ linkStatus[linkJob[i].link] = "pending"
          BY <2>2, <4>1 DEF AloneOnLink
        <4>3. linkJob[i].link = l => l \in muddled'
          BY <1>3
        <4> QED BY <4>1, <4>2, <4>3 DEF LinkTypes
      <3> QED BY <3>1, <3>2
    <2> QED BY <2>1, <2>2 DEF AloneOnLink
  <1>6. EndsFollow'
    <2> SUFFICES ASSUME NEW i \in Job, NEW k \in Link \ muddled'
                 PROVE  /\ linkJob'[i] = DeployCall(k, <<DeploySteps(k)[2]>>) =>
                              IF k \in Forward THEN AtBridge(k)' ELSE AtPortal(k)'
                        /\ linkJob'[i] = DeployCall(k, <<>>) => AtPortal(k)' /\ AtBridge(k)'
                        /\ linkJob'[i] = CheckCall(k) => AtPortal(k)' /\ AtBridge(k)'
      BY DEF EndsFollow
    <2>1. UNCHANGED <<AtPortal(k), AtBridge(k)>>
      BY DEF AtPortal, AtBridge
    <2>2. CASE i = j
      <3>1. linkJob'[i] = r
        BY <2>2 DEF LinkTypes
      <3>2. ASSUME r = CheckCall(k)
            PROVE  linkStatus[k] \in Shown /\ k \notin muddled
        <4>1. r.kind = "check"
          BY <3>2 DEF CheckCall
        <4>2. muddled \subseteq muddled'
          BY <4>1
        <4> QED BY <3>2, <4>2
      <3> QED BY <2>1, <3>1, <3>2 DEF ShownIsPlaced
    <2>3. CASE i # j
      <3>1. linkJob'[i] = linkJob[i]
        BY <2>3 DEF LinkTypes
      <3>2. linkJob[i].link = k => k \notin muddled
        BY <1>3
      <3> QED BY <2>1, <3>1, <3>2 DEF EndsFollow, DeployCall, CheckCall
    <2> QED BY <2>2, <2>3
  <1> QED BY <1>2, <1>4, <1>5, <1>6

\* What a call becomes by a step.
LEMMA StepOfCall ==
  ASSUME NEW r \in Calls, r.kind \in {"deploy", "undeploy"}, r.todo # <<>>, NEW l \in Link,
         NEW s, s = [r EXCEPT !.todo = Tail(@)]
  PROVE  /\ s \in Calls /\ s.link = r.link /\ s.kind = r.kind
         /\ s = DeployCall(l, <<DeploySteps(l)[2]>>) => r = DeployCall(l, DeploySteps(l))
         /\ s = DeployCall(l, <<>>) => r = DeployCall(l, <<DeploySteps(l)[2]>>)
         /\ s # CheckCall(l)
  <1>1. PICK k \in Link : \/ r \in {DeployCall(k, DeploySteps(k)), DeployCall(k, <<DeploySteps(k)[2]>>)}
                          \/ r \in {UndeployCall(k, UndeploySteps(k)),
                                    UndeployCall(k, <<UndeploySteps(k)[2]>>)}
    BY DEF Calls, NoJob, CheckCall, DeployCall, UndeployCall
  <1>2. CASE r = DeployCall(k, DeploySteps(k))
    <2>1. s = DeployCall(k, <<DeploySteps(k)[2]>>)
      BY <1>2, StepsOfLink DEF DeployCall
    <2>2. <<DeploySteps(k)[2]>> # <<>>
      OBVIOUS
    <2> QED BY <1>2, <2>1, <2>2 DEF DeployCall, CheckCall, Calls
  <1>3. CASE r = DeployCall(k, <<DeploySteps(k)[2]>>)
    <2>1. s = DeployCall(k, <<>>)
      BY <1>3 DEF DeployCall
    <2>2. <<DeploySteps(l)[2]>> # <<>>
      OBVIOUS
    <2>3. s \in Calls
      BY <2>1 DEF Calls
    <2>4. s = DeployCall(l, <<>>) => l = k
      BY <2>1 DEF DeployCall
    <2> QED BY <1>3, <2>1, <2>2, <2>3, <2>4 DEF DeployCall, CheckCall
  <1>4. CASE r \in {UndeployCall(k, UndeploySteps(k)), UndeployCall(k, <<UndeploySteps(k)[2]>>)}
    <2>1. s \in {UndeployCall(k, <<UndeploySteps(k)[2]>>), UndeployCall(k, <<>>)}
      <3>1. CASE r = UndeployCall(k, UndeploySteps(k))
        BY <3>1, StepsOfLink DEF UndeployCall
      <3>2. CASE r = UndeployCall(k, <<UndeploySteps(k)[2]>>)
        BY <3>2 DEF UndeployCall
      <3> QED BY <1>4, <3>1, <3>2
    <2> QED BY <1>4, <2>1 DEF UndeployCall, DeployCall, CheckCall, Calls
  <1> QED BY <1>1, <1>2, <1>3, <1>4

\* Replacing one configuration keeps the ends of every other link.
LEMMA UploadKeeps ==
  ASSUME OwnService, LinksInv, NEW j \in Job, Upload(j), NEW l \in Link, linkJob[j].link # l
  PROVE  (AtPortal(l) => AtPortal(l)') /\ (AtBridge(l) => AtBridge(l)')
  <1> DEFINE r     == linkJob[j]
             where == Head(r.todo)[1]
             n     == Head(r.todo)[2]
  <1>1. r \in Calls /\ r.kind \in {"deploy", "undeploy"} /\ r.todo # <<>>
    BY DEF Upload, Replacing, LinksInv, LinkTypes
  <1>2. PICK f \in Rebuilt(r) :
            IF where = "main"
            THEN mainConf' = [mainConf EXCEPT ![n] = f] /\ UNCHANGED sideConf
            ELSE sideConf' = [sideConf EXCEPT ![n] = f] /\ UNCHANGED mainConf
    BY DEF Upload
  <1>3. /\ where = "main" /\ n = PortalOf[l] => l \in f
        /\ where = "main" /\ n = BridgeOf[l] /\ l \in Forward => l \in f
        /\ where # "main" /\ n = BridgeOf[l] /\ (l \notin Forward \/ n \notin XraySite) => l \in f
    BY <1>1, RebuiltKeeps
  <1>4. /\ mainConf \in [Site -> SUBSET Link] /\ sideConf \in [Site -> SUBSET Link]
        /\ PortalOf[l] \in Site /\ BridgeOf[l] \in Site
    BY LinkAssumption DEF LinksInv, LinkTypes
  <1> HIDE DEF r, where, n
  <1>5. CASE where = "main"
    BY <1>2, <1>3, <1>4, <1>5 DEF AtPortal, AtBridge
  <1>6. CASE where # "main"
    BY <1>2, <1>3, <1>4, <1>6 DEF AtPortal, AtBridge
  <1> QED BY <1>5, <1>6

\* Its own deployment advances by the end it has configured.
LEMMA UploadServes ==
  ASSUME LinksInv, NEW j \in Job, Upload(j), NEW l \in Link \ muddled
  PROVE  /\ linkJob'[j] = DeployCall(l, <<DeploySteps(l)[2]>>) =>
               IF l \in Forward THEN AtBridge(l)' ELSE AtPortal(l)'
         /\ linkJob'[j] = DeployCall(l, <<>>) => AtPortal(l)' /\ AtBridge(l)'
         /\ linkJob'[j] # CheckCall(l)
  <1> DEFINE r     == linkJob[j]
             where == Head(r.todo)[1]
             n     == Head(r.todo)[2]
  <1>1. /\ r \in Calls /\ r.kind \in {"deploy", "undeploy"} /\ r.todo # <<>>
        /\ linkJob'[j] = [r EXCEPT !.todo = Tail(@)]
    BY DEF Upload, Replacing, StepOver, LinksInv, LinkTypes
  <1>2. PICK f \in Rebuilt(r) :
            IF where = "main"
            THEN mainConf' = [mainConf EXCEPT ![n] = f] /\ UNCHANGED sideConf
            ELSE sideConf' = [sideConf EXCEPT ![n] = f] /\ UNCHANGED mainConf
    BY DEF Upload
  <1>3. /\ linkJob'[j] = DeployCall(l, <<DeploySteps(l)[2]>>) => r = DeployCall(l, DeploySteps(l))
        /\ linkJob'[j] = DeployCall(l, <<>>) => r = DeployCall(l, <<DeploySteps(l)[2]>>)
        /\ linkJob'[j] # CheckCall(l)
    <2> DEFINE s == [r EXCEPT !.todo = Tail(@)]
    <2>1. /\ s = DeployCall(l, <<DeploySteps(l)[2]>>) => r = DeployCall(l, DeploySteps(l))
          /\ s = DeployCall(l, <<>>) => r = DeployCall(l, <<DeploySteps(l)[2]>>)
          /\ s # CheckCall(l)
      BY <1>1, StepOfCall
    <2> QED BY <1>1, <2>1
  <1>4. /\ r = DeployCall(l, DeploySteps(l)) =>
               IF l \in Forward
               THEN /\ n = BridgeOf[l] /\ l \in f
                    /\ where = "main" <=> n \in XraySite
               ELSE where = "main" /\ n = PortalOf[l] /\ l \in f
        /\ r = DeployCall(l, <<DeploySteps(l)[2]>>) =>
              IF l \in Forward
              THEN where = "main" /\ n = PortalOf[l] /\ l \in f
              ELSE where = "side" /\ n = BridgeOf[l] /\ l \in f
    BY DeployServes
  <1>5. r = DeployCall(l, <<DeploySteps(l)[2]>>) => IF l \in Forward THEN AtBridge(l) ELSE AtPortal(l)
    BY DEF LinksInv, EndsFollow
  <1>6. /\ mainConf \in [Site -> SUBSET Link] /\ sideConf \in [Site -> SUBSET Link]
        /\ PortalOf[l] \in Site /\ BridgeOf[l] \in Site
    BY LinkAssumption DEF LinksInv, LinkTypes
  <1> HIDE DEF r, where, n
  <1>7. r = DeployCall(l, DeploySteps(l)) => IF l \in Forward THEN AtBridge(l)' ELSE AtPortal(l)'
    BY <1>2, <1>4, <1>6 DEF AtPortal, AtBridge
  <1>8. r = DeployCall(l, <<DeploySteps(l)[2]>>) => AtPortal(l)' /\ AtBridge(l)'
    BY <1>2, <1>4, <1>5, <1>6 DEF AtPortal, AtBridge
  <1> QED BY <1>3, <1>7, <1>8

LEMMA UploadStep ==
  ASSUME OwnService, LinksInv, NEW j \in Job, Upload(j)
  PROVE  LinksInv'
  <1> DEFINE r == linkJob[j]
  <1>1. /\ r \in Calls /\ r.kind \in {"deploy", "undeploy"} /\ r.todo # <<>>
        /\ linkJob' = [linkJob EXCEPT ![j] = [r EXCEPT !.todo = Tail(r.todo)]]
        /\ linkJob \in [Job -> Calls] /\ r.link \in Link
        /\ UNCHANGED <<linkStatus, muddled>>
    BY NextWork DEF Upload, Replacing, StepOver, LinksInv, LinkTypes
  <1> DEFINE s == [r EXCEPT !.todo = Tail(r.todo)]
  <1>2. s \in Calls /\ s.link = r.link /\ s.kind = r.kind
    BY <1>1, StepOfCall
  <1>3. /\ linkJob'[j] = s
        /\ \A i \in Job \ {j} : linkJob'[i] = linkJob[i]
        /\ \A i \in Job : linkJob'[i].link = linkJob[i].link /\ linkJob'[i].kind = linkJob[i].kind
    BY <1>1, <1>2
  <1>4. LinkTypes'
    <2>1. PICK f \in Rebuilt(r) :
              IF Head(r.todo)[1] = "main"
              THEN mainConf' = [mainConf EXCEPT ![Head(r.todo)[2]] = f] /\ UNCHANGED sideConf
              ELSE sideConf' = [sideConf EXCEPT ![Head(r.todo)[2]] = f] /\ UNCHANGED mainConf
      BY DEF Upload
    <2>2. f \subseteq Link
      BY <1>1, RebuiltType
    <2>3. linkJob' \in [Job -> Calls]
      BY <1>1, <1>2
    <2> QED BY <1>1, <2>1, <2>2, <2>3 DEF LinksInv, LinkTypes
  <1>5. AloneOnLink'
    BY <1>1, <1>3 DEF LinksInv, AloneOnLink
  <1>6. r.link \notin muddled => linkStatus[r.link] \notin Shown
    BY <1>1 DEF LinksInv, AloneOnLink, Shown
  <1>7. ShownIsPlaced'
    BY <1>1, <1>6, UploadKeeps DEF LinksInv, ShownIsPlaced
  <1>8. EndsFollow'
    <2> SUFFICES ASSUME NEW i \in Job, NEW k \in Link \ muddled'
                 PROVE  /\ linkJob'[i] = DeployCall(k, <<DeploySteps(k)[2]>>) =>
                              IF k \in Forward THEN AtBridge(k)' ELSE AtPortal(k)'
                        /\ linkJob'[i] = DeployCall(k, <<>>) => AtPortal(k)' /\ AtBridge(k)'
                        /\ linkJob'[i] = CheckCall(k) => AtPortal(k)' /\ AtBridge(k)'
      BY DEF EndsFollow
    <2>1. CASE i = j
      BY <1>1, <2>1, UploadServes
    <2>2. CASE i # j
      <3>1. linkJob'[i] = linkJob[i] /\ k \notin muddled /\ k # 0
        BY <1>1, <1>3, <2>2, LinkAssumption
      <3>2. linkJob[i].link = k => linkJob[j].link # k
        BY <2>2, <3>1 DEF LinksInv, AloneOnLink
      <3>3. linkJob[i].link = k => (AtPortal(k) => AtPortal(k)') /\ (AtBridge(k) => AtBridge(k)')
        BY <3>2, UploadKeeps
      <3> QED BY <3>1, <3>3 DEF LinksInv, EndsFollow, DeployCall, CheckCall
    <2> QED BY <2>1, <2>2
  <1> QED BY <1>4, <1>5, <1>7, <1>8 DEF LinksInv

\* A call that ends may show its link only where both ends hold it.
LEMMA EndStep ==
  ASSUME LinksInv, NEW j \in Job, linkJob[j].link \in Link,
         linkJob' = [linkJob EXCEPT ![j] = NoJob], UNCHANGED <<mainConf, sideConf, muddled>>,
         \/ linkStatus' = linkStatus
         \/ \E s \in LinkState :
               /\ linkStatus' = [linkStatus EXCEPT ![linkJob[j].link] = s]
               /\ s \in Shown /\ linkJob[j].link \notin muddled
                      => AtPortal(linkJob[j].link) /\ AtBridge(linkJob[j].link)
  PROVE  LinksInv'
  <1> DEFINE k == linkJob[j].link
  <1>1. /\ linkJob'[j] = NoJob /\ \A i \in Job \ {j} : linkJob'[i] = linkJob[i]
        /\ NoJob \in Calls /\ NoJob.kind = "none" /\ NoJob.link = 0
        /\ \A l \in Link : linkStatus'[l] # linkStatus[l] => l = k
    BY CallsDiffer DEF LinksInv, LinkTypes, NoJob
  <1>2. LinkTypes'
    BY <1>1 DEF LinksInv, LinkTypes
  <1>3. AloneOnLink'
    <2>1. ASSUME NEW i \in Job, NEW m \in Job, i # m, linkJob'[i].link = linkJob'[m].link
          PROVE  linkJob'[i].link \in muddled' \cup {0}
      BY <1>1, <2>1 DEF LinksInv, AloneOnLink
    <2>2. ASSUME NEW i \in Job, linkJob'[i].kind \in {"deploy", "undeploy"}
          PROVE  linkJob'[i].link \in muddled' \/ linkStatus'[linkJob'[i].link] = "pending"
      <3>1. i # j /\ linkJob'[i] = linkJob[i]
        BY <1>1, <2>2
      <3>2. linkJob[i].link \in Link
        BY <2>2, <3>1 DEF LinksInv, LinkTypes, Calls, NoJob, CheckCall, DeployCall, UndeployCall
      <3>3. linkJob[i].link \in muddled \/ linkStatus[linkJob[i].link] = "pending"
        BY <2>2, <3>1 DEF LinksInv, AloneOnLink
      <3>4. linkJob[i].link = k => k \in muddled
        BY <3>1, LinkAssumption DEF LinksInv, AloneOnLink
      <3> QED BY <1>1, <3>1, <3>2, <3>3, <3>4
    <2> QED BY <2>1, <2>2 DEF AloneOnLink
  <1>4. \A l \in Link : UNCHANGED <<AtPortal(l), AtBridge(l)>>
    BY DEF AtPortal, AtBridge
  <1>5. ShownIsPlaced'
    BY <1>1, <1>4 DEF LinksInv, LinkTypes, ShownIsPlaced
  <1>6. EndsFollow'
    <2> SUFFICES ASSUME NEW i \in Job, NEW l \in Link \ muddled
                 PROVE  /\ linkJob'[i] = DeployCall(l, <<DeploySteps(l)[2]>>) =>
                              IF l \in Forward THEN AtBridge(l)' ELSE AtPortal(l)'
                        /\ linkJob'[i] = DeployCall(l, <<>>) => AtPortal(l)' /\ AtBridge(l)'
                        /\ linkJob'[i] = CheckCall(l) => AtPortal(l)' /\ AtBridge(l)'
      BY DEF EndsFollow
    <2>1. CASE i = j
      BY <1>1, <2>1, CallsDiffer
    <2>2. CASE i # j
      BY <1>1, <1>4, <2>2 DEF LinksInv, EndsFollow
    <2> QED BY <2>1, <2>2
  <1> QED BY <1>2, <1>3, <1>5, <1>6 DEF LinksInv

LEMMA LinksStep == OwnService /\ LinksInv /\ [CascadeNext]_cascadeVars => LinksInv'
  <1> SUFFICES ASSUME OwnService, LinksInv, [CascadeNext]_cascadeVars
               PROVE  LinksInv'
    OBVIOUS
  <1>1. \A j \in Job : linkJob[j] \in Calls
    BY DEF LinksInv, LinkTypes
  <1>2. ASSUME NEW j \in Job, NEW l \in Link, NEW kind \in {"deploy", "undeploy"},
               BeginLink(j, kind, l)
        PROVE  LinksInv'
    <2> DEFINE r == IF kind = "deploy" THEN DeployCall(l, DeploySteps(l))
                                       ELSE UndeployCall(l, UndeploySteps(l))
    <2>1. linkJob' = [linkJob EXCEPT ![j] = r]
      BY <1>2 DEF BeginLink, DeployCall, UndeployCall
    <2>2. r \in Calls /\ r.link = l /\ r.kind = kind
      BY CallsDiffer DEF DeployCall, UndeployCall
    <2>3. \A k \in Link \ muddled' :
             /\ r # DeployCall(k, <<DeploySteps(k)[2]>>) /\ r # DeployCall(k, <<>>)
             /\ r = CheckCall(k) => linkStatus[k] \in Shown
      BY CallsDiffer DEF DeployCall, UndeployCall, CheckCall
    <2> HIDE DEF r
    <2> QED BY <1>2, <2>1, <2>2, <2>3, BeginStep DEF BeginLink
  <1>3. ASSUME NEW j \in Job, BeginCheck(j) PROVE LinksInv'
    <2>1. PICK l \in Link :
            /\ linkStatus[l] \in Shown
            /\ linkJob' = [linkJob EXCEPT ![j] = CheckCall(l)]
            /\ muddled' = IF Working(l) THEN muddled \cup {l} ELSE muddled
      BY <1>3 DEF BeginCheck, CheckCall
    <2>3. CheckCall(l).link = l /\ CheckCall(l).kind = "check" /\ CheckCall(l) \in Calls
      BY CallsDiffer DEF CheckCall
    <2>4. \A k \in Link \ muddled' :
             /\ CheckCall(l) # DeployCall(k, <<DeploySteps(k)[2]>>) /\ CheckCall(l) # DeployCall(k, <<>>)
             /\ CheckCall(l) = CheckCall(k) => linkStatus[k] \in Shown
      BY <2>1 DEF CheckCall, DeployCall
    <2> QED BY <1>3, <2>1, <2>3, <2>4, BeginStep DEF BeginCheck
  <1>4. ASSUME NEW j \in Job, Upload(j) PROVE LinksInv'
    BY <1>4, UploadStep
  <1>5. ASSUME NEW j \in Job, UploadFails(j) PROVE LinksInv'
    <2>1. CASE linkJob[j].kind = "deploy"
      <3>1. linkJob[j].link \in Link /\ "error" \in LinkState /\ "error" \notin Shown
        BY <1>1, <2>1 DEF LinkState, Shown, Calls, NoJob, CheckCall, DeployCall, UndeployCall
      <3> QED BY <1>5, <2>1, <3>1, EndStep DEF UploadFails
    <2>2. CASE linkJob[j].kind = "undeploy"
      <3> DEFINE s == [linkJob[j] EXCEPT !.todo = Tail(@)]
      <3>1. /\ linkJob[j].todo # <<>> /\ linkJob' = [linkJob EXCEPT ![j] = s]
            /\ UNCHANGED <<linkStatus, mainConf, sideConf, muddled>>
        BY <1>5, <2>2 DEF UploadFails, Replacing, StepOver
      <3>2. s \in Calls /\ s.link = linkJob[j].link /\ s.kind = "undeploy"
        <4>1. \E l \in Link : linkJob[j].link = l
          BY <1>1, <2>2 DEF Calls, NoJob, CheckCall, DeployCall, UndeployCall
        <4> QED BY <1>1, <2>2, <3>1, <4>1, StepOfCall
      <3> HIDE DEF s
      <3>3. LinkTypes'
        BY <3>1, <3>2 DEF LinksInv, LinkTypes
      <3>4. AloneOnLink'
        BY <2>2, <3>1, <3>2 DEF LinksInv, LinkTypes, AloneOnLink
      <3>5. ShownIsPlaced'
        BY <3>1 DEF LinksInv, ShownIsPlaced, AtPortal, AtBridge
      <3>6. \A l \in Link : /\ s # CheckCall(l)
                            /\ s # DeployCall(l, <<DeploySteps(l)[2]>>) /\ s # DeployCall(l, <<>>)
        BY <3>2 DEF CheckCall, DeployCall
      <3>7. EndsFollow'
        BY <3>1, <3>6 DEF LinksInv, LinkTypes, EndsFollow, AtPortal, AtBridge
      <3> QED BY <3>3, <3>4, <3>5, <3>7 DEF LinksInv
    <2> QED BY <1>5, <2>1, <2>2 DEF UploadFails
  <1>6. ASSUME NEW j \in Job, Deployed(j) PROVE LinksInv'
    <2>1. PICK l \in Link : linkJob[j] = DeployCall(l, <<>>)
      BY <1>1, <1>6, StepsOfLink DEF Deployed, Calls, NoJob, CheckCall, DeployCall, UndeployCall
    <2>2. linkJob[j].link = l /\ {"online", "deployed"} \subseteq LinkState
      BY <2>1 DEF DeployCall, LinkState, Shown
    <2>3. l \notin muddled => AtPortal(l) /\ AtBridge(l)
      BY <2>1 DEF LinksInv, EndsFollow
    <2> QED BY <1>6, <2>2, <2>3, EndStep DEF Deployed
  <1>7. ASSUME NEW j \in Job, Undeployed(j) PROVE LinksInv'
    <2>1. linkJob[j].link \in Link
      BY <1>1, <1>7 DEF Undeployed, Calls, NoJob, CheckCall, DeployCall, UndeployCall
    <2> QED BY <1>7, <2>1, EndStep DEF Undeployed
  <1>8. ASSUME NEW j \in Job, Checked(j) PROVE LinksInv'
    <2>1. PICK l \in Link : linkJob[j] = CheckCall(l)
      BY <1>1, <1>8 DEF Checked, Calls, NoJob, CheckCall, DeployCall, UndeployCall
    <2>2. linkJob[j].link = l /\ {"online", "offline", "error"} \subseteq LinkState
      BY <2>1 DEF CheckCall, LinkState, Shown
    <2>3. l \notin muddled => AtPortal(l) /\ AtBridge(l)
      BY <2>1 DEF LinksInv, EndsFollow
    <2> QED BY <1>8, <2>2, <2>3, EndStep DEF Checked
  <1>9. CASE UNCHANGED cascadeVars
    BY <1>9 DEF cascadeVars, LinksInv, LinkTypes, EndsFollow, AloneOnLink, ShownIsPlaced,
                AtPortal, AtBridge
  <1> QED BY <1>2, <1>3, <1>4, <1>5, <1>6, <1>7, <1>8, <1>9
          DEF CascadeNext, DeployLink, UndeployLink

\* In every drawing that gives each link its own service, whatever the number
\* of links, nodes and calls under way: a link shown as deployed is configured
\* at both its ends, unless calls for this very link overlapped.
THEOREM ShownIsServedHolds ==
  ASSUME OwnService
  PROVE  CascadeSpec => []ShownIsServed
  <1>1. LinksInv => ShownIsServed
    BY DEF LinksInv, ShownIsPlaced, ShownIsServed, Served, AtPortal, AtBridge
  <1> QED BY <1>1, LinksInit, LinksStep, PTL DEF CascadeSpec

-----------------------------------------------------------------------------
(***************************************************************************)
(* TopologyDraft. A commit writes what its validation saw: the candidate   *)
(* and what is persisted agree wherever a group remains.                   *)
(***************************************************************************)

\* Only groups of the panel are saved, attached to a relay or kept in a request.
DraftTypes ==
    /\ groups \subseteq Group
    /\ groupPath = [g \in Group |-> groupPath[g]]
    /\ editor = [e \in Editor |-> editor[e]]
    /\ \A e \in Editor : editor[e].kind = "save" => editor[e].group \in Group

\* What a mutation writes agrees with the candidate wherever a group remains.
LEMMA PersistedIsCandidate ==
  ASSUME DraftTypes, NEW e \in Editor, NEW g \in CandidateGroups(editor[e])
  PROVE  g \in Group /\ PersistedPaths(editor[e])[g] = CandidatePaths(editor[e])[g]
  <1>1. g \in Group
    BY DEF DraftTypes, CandidateGroups
  <1>2. CASE editor[e].kind = "delete"
    BY <1>1, <1>2 DEF CandidatePaths, PersistedPaths
  <1>3. CASE editor[e].kind # "delete"
    BY <1>1, <1>3 DEF CandidatePaths, PersistedPaths
  <1> QED BY <1>1, <1>2, <1>3

LEMMA DraftTypesInit == DraftInit => DraftTypes
  BY DEF DraftInit, DraftTypes, Resting

LEMMA DraftTypesStep == DraftTypes /\ [DraftNext]_draftVars => DraftTypes'
  <1> SUFFICES ASSUME DraftTypes, [DraftNext]_draftVars PROVE DraftTypes'
    OBVIOUS
  <1>1. ASSUME NEW e \in Editor, NEW r, editor' = [editor EXCEPT ![e] = r],
               r.kind = "save" => r.group \in Group,
               groups' \subseteq Group, groupPath' = [g \in Group |-> groupPath'[g]]
        PROVE  DraftTypes'
    BY <1>1 DEF DraftTypes
  <1>2. Resting.kind = "none"
    BY DEF Resting
  <1>3. ASSUME NEW e \in Editor, NEW kind, NEW l, NEW g, AskEdit(e, kind, l, g),
               kind = "save" => g \in Group
        PROVE  DraftTypes'
    BY <1>1, <1>3 DEF AskEdit, Edit, DraftTypes
  <1>4. ASSUME NEW e \in Editor, Commit(e) PROVE DraftTypes'
    <2>1. groups' \subseteq Group
      BY <1>4, PersistedIsCandidate DEF Commit
    <2>2. groupPath' = [g \in Group |-> groupPath'[g]]
      BY <1>4 DEF Commit, PersistedPaths, DraftTypes
    <2>3. [Resting EXCEPT !.pc = "rebuild"].kind = "none"
      BY DEF Resting
    <2> QED BY <1>1, <1>2, <1>4, <2>1, <2>2, <2>3 DEF Commit, Edit
  <1>5. ASSUME NEW e \in Editor, Refused(e) \/ Rebuild(e) \/ WritePath(e) \/ Bump(e)
        PROVE  DraftTypes'
    <2>1. groups' \subseteq Group /\ groupPath' = [g \in Group |-> groupPath'[g]]
      BY <1>5 DEF Refused, Rebuild, WritePath, Bump, DraftTypes
    <2>2. ASSUME NEW r, Edit(e, r), r.kind = "none" PROVE DraftTypes'
      BY <1>1, <2>1, <2>2 DEF Edit
    <2>3. CASE Refused(e) \/ Bump(e)
      BY <1>2, <2>2, <2>3 DEF Refused, Bump
    <2>4. CASE Rebuild(e)
      <3> DEFINE w   == DefaultChain(Existing, DraftFrom, DraftTo, GeoLink, BridgeNode, RelayNode)
                 new == [Resting EXCEPT !.pc = "write", !.group = relayGroup, !.path = w.path]
      <3>1. new.kind = "none"
        BY DEF Resting
      <3>2. Edit(e, Resting) \/ Edit(e, new)
        BY <2>4 DEF Rebuild
      <3> HIDE DEF new
      <3> QED BY <1>2, <2>2, <3>1, <3>2
    <2>5. CASE WritePath(e)
      <3> DEFINE new == [Resting EXCEPT !.pc = "bump"]
      <3>1. new.kind = "none"
        BY DEF Resting
      <3>2. Edit(e, Resting) \/ Edit(e, new)
        BY <2>5 DEF WritePath
      <3> HIDE DEF new
      <3> QED BY <1>2, <2>2, <3>1, <3>2
    <2> QED BY <1>5, <2>3, <2>4, <2>5
  <1>6. CASE UNCHANGED <<groups, groupPath, editor>>
    BY <1>6 DEF DraftTypes
  <1>7. ASSUME \/ \E g \in Group : FindGroup(g)
               \/ Attach \/ Detach
               \/ \E l \in DraftLink : DirectEdit(l)
               \/ UNCHANGED draftVars
        PROVE  UNCHANGED <<groups, groupPath, editor>>
    BY <1>7 DEF FindGroup, Attach, Detach, DirectEdit, draftVars
  <1>8. ASSUME NEW e \in Editor, AskCreate(e) \/ AskUpdate(e) \/ AskDelete(e) \/ AskGroup(e)
        PROVE  DraftTypes'
    BY <1>3, <1>8 DEF AskCreate, AskUpdate, AskDelete, AskGroup
  <1> QED BY <1>4, <1>5, <1>6, <1>7, <1>8 DEF DraftNext

LEMMA DraftTypeCorrect == DraftSpec => []DraftTypes
  BY DraftTypesInit, DraftTypesStep, PTL DEF DraftSpec

\* However editors, requests and path maintenance follow each other on any drawing,
\* with any groups and number of editors: a mutation that
\* topologyDraftWriteService.js commits leaves a topology its validator accepts,
\* and no writer takes away the route group an installed relay uses.
THEOREM DraftStaysSoundHolds == DraftSpec => DraftStaysSound
  <1>1. DraftTypes => CommitsAreValid
    <2> SUFFICES ASSUME DraftTypes, NEW e \in Editor, Commit(e)
                 PROVE  ValidDraft(links', groups', groupPath')
      BY DEF CommitsAreValid
    <2>1. /\ links' = CandidateLinks(editor[e]) /\ groups' = CandidateGroups(editor[e])
          /\ groupPath' = PersistedPaths(editor[e])
          /\ ValidDraft(CandidateLinks(editor[e]), CandidateGroups(editor[e]), CandidatePaths(editor[e]))
      BY DEF Commit
    <2>2. \A g \in groups' : groupPath'[g] = CandidatePaths(editor[e])[g]
      BY <2>1, PersistedIsCandidate
    <2> QED BY <2>1, <2>2 DEF ValidDraft
  <1>2. [DraftNext]_draftVars => GroupInUseStays
    <2>1. ASSUME NEW e \in Editor, Commit(e), relayGroup \in groups
          PROVE  relayGroup \in groups'
      BY <2>1 DEF Commit, CandidateGroups, Found
    <2> QED
      BY <2>1 DEF GroupInUseStays, DraftNext, draftVars, AskCreate, AskUpdate, AskDelete, AskGroup,
                  AskEdit, Refused, Rebuild, WritePath, Bump, FindGroup, Attach, Detach, DirectEdit
  <1>3. DraftTypes /\ [DraftNext]_draftVars => [CommitsAreValid /\ GroupInUseStays]_draftVars
    BY <1>1, <1>2
  <1> QED BY <1>3, DraftTypeCorrect, PTL DEF DraftSpec, DraftStaysSound

-----------------------------------------------------------------------------
(***************************************************************************)
(* RoutePolicy. The decision is the one eligible path of least priority,   *)
(* or none.                                                                *)
(***************************************************************************)

RouteTypes ==
    paths \in [PathKey -> [priority : 1 .. MaxPriority, enabled : BOOLEAN,
                           complete : BOOLEAN, healthy : BOOLEAN]]

LEMMA RouteTypeCorrect == RouteSpec => []RouteTypes
  <1>1. RouteInit => RouteTypes
    BY PathAssumption DEF RouteInit, RouteTypes
  <1>2. RouteTypes /\ [RouteNext]_routeVars => RouteTypes'
    <2> SUFFICES ASSUME RouteTypes, [RouteNext]_routeVars PROVE RouteTypes'
      OBVIOUS
    <2> DEFINE PathRecord == [priority : 1 .. MaxPriority, enabled : BOOLEAN,
                              complete : BOOLEAN, healthy : BOOLEAN]
    <2>1. ASSUME NEW k \in PathKey, NEW new \in PathRecord, paths' = [paths EXCEPT ![k] = new]
          PROVE  RouteTypes'
      BY <2>1 DEF RouteTypes
    <2>2. ASSUME NEW k \in PathKey, NEW p \in 1 .. MaxPriority, NEW e \in BOOLEAN, NEW c \in BOOLEAN,
                 paths' = [paths EXCEPT ![k].priority = p, ![k].enabled = e, ![k].complete = c]
          PROVE  RouteTypes'
      <3>1. paths[k] \in PathRecord
        BY DEF RouteTypes
      <3> DEFINE new == [paths[k] EXCEPT !.priority = p, !.enabled = e, !.complete = c]
      <3>2. new \in PathRecord /\ paths' = [paths EXCEPT ![k] = new]
        BY <2>2, <3>1
      <3> HIDE DEF new
      <3> QED BY <2>1, <3>2
    <2>3. ASSUME NEW k \in PathKey, paths' = [paths EXCEPT ![k].healthy = ~@]
          PROVE  RouteTypes'
      <3>1. paths[k] \in PathRecord
        BY DEF RouteTypes
      <3> DEFINE new == [paths[k] EXCEPT !.healthy = ~@]
      <3>2. new \in PathRecord /\ paths' = [paths EXCEPT ![k] = new]
        BY <2>3, <3>1
      <3> HIDE DEF new
      <3> QED BY <2>1, <3>2
    <2>4. CASE UNCHANGED routeVars
      BY <2>4 DEF RouteTypes, routeVars
    <2> QED BY <2>2, <2>3, <2>4 DEF RouteNext, EditRoute, HealthChanges
  <1> QED BY <1>1, <1>2, PTL DEF RouteSpec

\* What is selected is the one eligible path of least priority.
LEMMA DecisionIsBest ==
  ASSUME RouteTypes, Decision(paths) # "block"
  PROVE  Decision(paths) \in Best(Eligible(paths), paths)
  BY DEF Decision

\* For every set of paths and priorities, however edits and health follow each
\* other: the path routePolicy.js selects is enabled, complete and healthy, and
\* every other such path has a greater priority number.
THEOREM FailsClosedHolds == RouteSpec => []FailsClosed
  <1>1. RouteTypes => FailsClosed
    <2> SUFFICES ASSUME RouteTypes PROVE FailsClosed
      OBVIOUS
    <2> DEFINE k == Decision(paths)
    <2>1. ASSUME k # "block"
          PROVE  /\ paths[k].enabled /\ paths[k].complete /\ paths[k].healthy
                 /\ \A j \in PathKey \ {k} :
                       paths[j].enabled /\ paths[j].complete /\ paths[j].healthy
                           => paths[j].priority > paths[k].priority
      <3>1. k \in Best(Eligible(paths), paths)
        BY <2>1, DecisionIsBest
      <3>2. k \in Eligible(paths) /\ k \in PathKey
        BY <3>1 DEF Best, Eligible
      <3>3. ASSUME NEW j \in Eligible(paths), j # k
            PROVE  paths[j].priority > paths[k].priority
        <4>1. /\ paths[k].priority <= paths[j].priority
              /\ paths[k].priority # paths[j].priority
          BY <3>1, <3>2, <3>3 DEF Best
        <4>2. paths[k].priority \in Nat /\ paths[j].priority \in Nat
          BY <3>2 DEF RouteTypes, Eligible
        <4> QED BY <4>1, <4>2
      <3> HIDE DEF k
      <3> QED BY <3>2, <3>3 DEF Eligible
    <2> QED BY <2>1 DEF FailsClosed
  <1> QED BY <1>1, RouteTypeCorrect, PTL
=============================================================================
