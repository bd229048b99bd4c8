---------------------------- MODULE Panel_proofs ----------------------------
(***************************************************************************)
(* What the panel does for its users and nodes, for every number of        *)
(* devices, requests, nodes, operators, applications and operations on a   *)
(* relay. The components share no state: each part below is about the      *)
(* specification of one of them, and cites no lemma of another.            *)
(***************************************************************************)
EXTENDS DeviceLimit, UserAccess, NodeFleet, Subscription, L2tpRelay,
        Integers, FiniteSetTheorems, TLAPS

-----------------------------------------------------------------------------
(***************************************************************************)
(* DeviceLimit. LimitHolds counts only the rows nobody is about to count   *)
(* again. A row joins them by a second count that saw no more than the     *)
(* limit, whatever else was inserted since; a request that was not to be   *)
(* enforced has made the run lenient when it inserted its row.             *)
(***************************************************************************)

FetchRecord ==
    [pc : {"idle", "find", "throttle", "count", "create", "recount"},
     hwid : Hwid \cup {NoHwid}, enforce : BOOLEAN, reply : {"none", "real", "blocked"}]

DeviceTypes ==
    /\ IsFiniteSet(rows)
    /\ fetch \in [Fetch -> FetchRecord]
    /\ lenient \in BOOLEAN

\* Who counts again without enforcement has inserted without it.
LenientKnown ==
    \A f \in Fetch : fetch[f].pc = "recount" => fetch[f].enforce \/ lenient

DeviceInv == DeviceTypes /\ LenientKnown /\ LimitHolds

-----------------------------------------------------------------------------
LEMMA DeviceInitInv == DeviceInit => DeviceInv
  <1> SUFFICES ASSUME DeviceInit PROVE DeviceInv
    OBVIOUS
  <1>1. DeviceTypes
    BY FS_EmptySet DEF DeviceInit, DeviceTypes, NoFetch, FetchRecord
  <1>2. LenientKnown
    BY DEF DeviceInit, LenientKnown, NoFetch
  <1>3. Settled = {} /\ Cardinality(Settled) = 0
    BY FS_EmptySet DEF DeviceInit, Settled
  <1> QED BY <1>1, <1>2, <1>3, LimitAssumption DEF DeviceInv, LimitHolds

\* Fewer settled rows, or as many, keep to the limit.
LEMMA FewerSettled ==
  ASSUME DeviceInv, Settled' \subseteq Settled, lenient' \/ lenient' = lenient
  PROVE  LimitHolds'
  <1>1. IsFiniteSet(Settled)
    BY FS_Subset DEF DeviceInv, DeviceTypes, Settled
  <1>2. IsFiniteSet(Settled') /\ Cardinality(Settled') <= Cardinality(Settled)
    BY <1>1, FS_Subset
  <1>3. /\ Cardinality(Settled) \in Nat /\ Cardinality(Settled') \in Nat
    BY <1>1, <1>2, FS_CardinalityType
  <1> QED BY <1>2, <1>3, LimitAssumption DEF DeviceInv, LimitHolds, DeviceTypes

-----------------------------------------------------------------------------
\* A request that neither comes to its second count nor leaves it changes
\* nothing that is counted.
LEMMA QuietStep ==
  ASSUME DeviceInv, NEW f \in Fetch, UNCHANGED <<rows, lenient>>,
         fetch[f].pc # "recount",
         NEW new \in FetchRecord, new.pc # "recount",
         fetch' = [fetch EXCEPT ![f] = new]
  PROVE  DeviceInv'
  <1>1. DeviceTypes'
    BY DEF DeviceInv, DeviceTypes
  <1>2. LenientKnown'
    BY DEF DeviceInv, DeviceTypes, LenientKnown
  <1>3. \A g \in Fetch : fetch[g].pc = "recount" => g # f /\ fetch'[g] = fetch[g]
    BY DEF DeviceInv, DeviceTypes
  <1>4. Settled' \subseteq Settled
    BY <1>3 DEF Settled
  <1>5. LimitHolds'
    BY <1>4, FewerSettled
  <1> QED BY <1>1, <1>2, <1>5 DEF DeviceInv

\* Rows that go take nobody's place.
LEMMA RowsGo ==
  ASSUME DeviceInv, rows' \subseteq rows, UNCHANGED <<fetch, lenient>> PROVE DeviceInv'
  <1>1. DeviceTypes'
    BY FS_Subset DEF DeviceInv, DeviceTypes
  <1>2. LenientKnown'
    BY DEF DeviceInv, LenientKnown
  <1>3. Settled' \subseteq Settled
    BY DEF Settled
  <1> QED BY <1>1, <1>2, <1>3, FewerSettled DEF DeviceInv

LEMMA GateInv ==
  ASSUME DeviceInv, NEW f \in Fetch, NEW h \in Hwid \cup {NoHwid}, Gate(f, h) PROVE DeviceInv'
  <1> DEFINE capped == policy.mode # "off" /\ policy.limited
             wanted == [pc |-> "find", hwid |-> h, reply |-> "none",
                       enforce |-> capped /\ policy.since]
             answer == IF capped /\ policy.mode = "strict" THEN "blocked" ELSE "real"
             answered == [NoFetch EXCEPT !.reply = answer]
  <1>1. wanted \in FetchRecord /\ wanted.pc # "recount"
    BY DEF FetchRecord
  <1>2. answered \in FetchRecord /\ answered.pc # "recount"
    <2>1. answer \in {"real", "blocked"}
      OBVIOUS
    <2> HIDE DEF answer
    <2> QED BY <2>1 DEF NoFetch, FetchRecord
  <1>3. /\ fetch[f].pc = "idle" /\ UNCHANGED <<rows, lenient>>
        /\ fetch' = [fetch EXCEPT ![f] = IF h # NoHwid THEN wanted ELSE answered]
    BY DEF Gate
  <1> HIDE DEF wanted, answered
  <1>4. CASE h # NoHwid
    BY <1>1, <1>3, <1>4, QuietStep
  <1>5. CASE h = NoHwid
    BY <1>2, <1>3, <1>5, QuietStep
  <1> QED BY <1>4, <1>5

\* A step to another place in checkAndUpsert, or an answer.
LEMMA StepRecord ==
  ASSUME DeviceInv, NEW f \in Fetch,
         NEW pc \in {"idle", "find", "throttle", "count", "create"}, Step(f, pc)
  PROVE  \E new \in FetchRecord : new.pc # "recount" /\ fetch' = [fetch EXCEPT ![f] = new]
  <1>1. [fetch[f] EXCEPT !.pc = pc] \in FetchRecord
    BY DEF DeviceInv, DeviceTypes, FetchRecord
  <1> QED BY <1>1 DEF Step, DeviceInv, DeviceTypes, FetchRecord

LEMMA ReplyRecord ==
  ASSUME NEW f \in Fetch, NEW reply \in {"real", "blocked"}, Reply(f, reply)
  PROVE  \E new \in FetchRecord : new.pc # "recount" /\ fetch' = [fetch EXCEPT ![f] = new]
  BY DEF Reply, NoFetch, FetchRecord

LEMMA BeforeInsertInv ==
  ASSUME DeviceInv, NEW f \in Fetch, FindDevice(f) \/ Throttle(f) \/ CountDevices(f)
  PROVE  DeviceInv'
  <1>1. fetch[f].pc # "recount" /\ UNCHANGED <<rows, lenient>>
    BY DEF FindDevice, Throttle, CountDevices
  <1>2. \/ \E pc \in {"throttle", "count", "create"} : Step(f, pc)
        \/ \E reply \in {"real", "blocked"} : Reply(f, reply)
    BY DEF FindDevice, Throttle, CountDevices
  <1>3. PICK new \in FetchRecord : new.pc # "recount" /\ fetch' = [fetch EXCEPT ![f] = new]
    BY <1>2, StepRecord, ReplyRecord
  <1> QED BY <1>1, <1>3, QuietStep

\* The row a request inserts is not settled: the request counts again.
LEMMA CreateDeviceInv ==
  ASSUME DeviceInv, NEW f \in Fetch, CreateDevice(f) PROVE DeviceInv'
  <1>1. CASE fetch[f].hwid \in rows
    <2>1. PICK new \in FetchRecord : new.pc # "recount" /\ fetch' = [fetch EXCEPT ![f] = new]
      BY <1>1, ReplyRecord DEF CreateDevice
    <2> QED BY <1>1, <2>1, QuietStep DEF CreateDevice
  <1>2. CASE fetch[f].hwid \notin rows
    <2>1. /\ rows' = rows \cup {fetch[f].hwid}
          /\ lenient' = (lenient \/ ~fetch[f].enforce)
          /\ fetch' = [fetch EXCEPT ![f].pc = "recount"]
          /\ fetch[f].pc = "create"
      BY <1>2 DEF CreateDevice, Step
    <2>2. /\ fetch'[f].pc = "recount" /\ fetch'[f].hwid = fetch[f].hwid
          /\ fetch'[f].enforce = fetch[f].enforce
          /\ \A g \in Fetch \ {f} : fetch'[g] = fetch[g]
          /\ fetch' \in [Fetch -> FetchRecord]
      BY <2>1 DEF DeviceInv, DeviceTypes, FetchRecord
    <2>3. DeviceTypes'
      BY <2>1, <2>2, FS_AddElement DEF DeviceInv, DeviceTypes
    <2>4. LenientKnown'
      BY <2>1, <2>2 DEF DeviceInv, LenientKnown
    <2>5. Settled' \subseteq Settled
      BY <2>1, <2>2 DEF Settled
    <2>6. lenient' \/ lenient' = lenient
      BY <2>1 DEF DeviceInv, DeviceTypes
    <2> QED BY <2>3, <2>4, <2>5, <2>6, FewerSettled DEF DeviceInv
  <1> QED BY <1>1, <1>2

\* A row becomes settled only when no more than the limit are there; the row of
\* a request that is refused goes with it.
LEMMA RecountInv ==
  ASSUME DeviceInv, NEW f \in Fetch, Recount(f) PROVE DeviceInv'
  <1>1. /\ fetch[f].pc = "recount" /\ lenient' = lenient
        /\ \E reply \in {"real", "blocked"} : Reply(f, reply)
    BY DEF Recount
  <1>2. PICK new \in FetchRecord : new.pc # "recount" /\ fetch' = [fetch EXCEPT ![f] = new]
    BY <1>1, ReplyRecord
  <1>3. \A g \in Fetch \ {f} : fetch'[g] = fetch[g]
    BY <1>2 DEF DeviceInv, DeviceTypes
  <1>4. DeviceTypes'
    BY <1>1, <1>2, FS_RemoveElement DEF Recount, DeviceInv, DeviceTypes
  <1>5. LenientKnown'
    BY <1>1, <1>2 DEF DeviceInv, DeviceTypes, LenientKnown
  <1>6. LimitHolds'
    <2>1. CASE fetch[f].enforce /\ Cardinality(rows) > Limit
      <3>1. rows' = rows \ {fetch[f].hwid}
        BY <2>1 DEF Recount
      <3>2. Settled' \subseteq Settled
        BY <1>3, <3>1 DEF Settled
      <3> QED BY <1>1, <3>2, FewerSettled
    <2>2. CASE ~fetch[f].enforce
      BY <1>1, <2>2 DEF DeviceInv, LenientKnown, LimitHolds
    <2>3. CASE ~(Cardinality(rows) > Limit)
      <3>1. rows' = rows
        BY <2>3 DEF Recount
      <3>2. Settled' \subseteq rows /\ IsFiniteSet(rows)
        BY <3>1 DEF Settled, DeviceInv, DeviceTypes
      <3>3. Cardinality(Settled') <= Cardinality(rows) /\ IsFiniteSet(Settled')
        BY <3>2, FS_Subset
      <3>4. Cardinality(Settled') \in Nat /\ Cardinality(rows) \in Nat
        BY <3>2, <3>3, FS_CardinalityType
      <3> QED BY <2>3, <3>3, <3>4, LimitAssumption DEF LimitHolds
    <2> QED BY <2>1, <2>2, <2>3
  <1> QED BY <1>4, <1>5, <1>6 DEF DeviceInv

-----------------------------------------------------------------------------
LEMMA DeviceNextInv == DeviceInv /\ [DeviceNext]_deviceVars => DeviceInv'
  <1> SUFFICES ASSUME DeviceInv, [DeviceNext]_deviceVars PROVE DeviceInv'
    OBVIOUS
  <1>1. ASSUME NEW f \in Fetch, NEW h \in Hwid \cup {NoHwid}, Gate(f, h) PROVE DeviceInv'
    BY <1>1, GateInv
  <1>2. ASSUME NEW f \in Fetch, FindDevice(f) \/ Throttle(f) \/ CountDevices(f) PROVE DeviceInv'
    BY <1>2, BeforeInsertInv
  <1>3. ASSUME NEW f \in Fetch, CreateDevice(f) PROVE DeviceInv'
    BY <1>3, CreateDeviceInv
  <1>4. ASSUME NEW f \in Fetch, Recount(f) PROVE DeviceInv'
    BY <1>4, RecountInv
  <1>5. ASSUME NEW gone \in SUBSET rows, Unlink(gone) PROVE DeviceInv'
    BY <1>5, RowsGo DEF Unlink
  <1>6. CASE CleanupStale
    BY <1>6, RowsGo DEF CleanupStale
  <1>7. CASE SetPolicy \/ CooldownOver \/ UNCHANGED deviceVars
    BY <1>7, RowsGo DEF SetPolicy, CooldownOver, deviceVars
  <1> QED BY <1>1, <1>2, <1>3, <1>4, <1>5, <1>6, <1>7 DEF DeviceNext

(* However many devices ask at once, no more than the limit get to stay: for  *)
(* every limit, every set of devices and any number of requests under way.   *)
THEOREM LimitIsKept == DeviceSpec => []LimitHolds
  <1>1. DeviceInv => LimitHolds
    BY DEF DeviceInv
  <1> QED BY DeviceInitInv, DeviceNextInv, <1>1, PTL DEF DeviceSpec

-----------------------------------------------------------------------------
(***************************************************************************)
(* UserAccess. SyncHeals speaks of the moment a full push has ended that   *)
(* nothing interfered with. The invariant follows that push from position  *)
(* to position: the restart of the agent gave Xray the agent's list, so    *)
(* the difference taken against that list is one against Xray.             *)
(***************************************************************************)

\* What the push that nothing interfered with has achieved so far: the restart
\* gave Xray the agent's list, so the difference taken against that list is one
\* against Xray.
PushOnCourse ==
    /\ push.has = Belongs
    /\ push.pc = "sync"    => xray = store
    /\ push.pc = "diff"    => xray = store /\ push.current = store
    /\ push.pc = "replace" => xray = push.has

HealInv ==
    /\ push = [pc |-> push.pc, has |-> push.has, current |-> push.current]
    /\ healing = "on" => PushOnCourse
    /\ healing = "healed" => push.pc = "idle" /\ xray = Belongs /\ store = Belongs

LEMMA HealInit == AccessInit => HealInv
  BY DEF AccessInit, HealInv, NoPush

LEMMA BelongsSame == UNCHANGED user => Belongs' = Belongs
  BY DEF Belongs

\* Whatever else happens ends the undisturbed push.
LEMMA DisturbedStep ==
  ASSUME HealInv, Disturbs, push' = [pc |-> push'.pc, has |-> push'.has, current |-> push'.current]
  PROVE  HealInv'
  BY DEF HealInv, Disturbs

LEMMA HealStep == HealInv /\ [AccessNext]_accessVars => HealInv'
  <1> SUFFICES ASSUME HealInv, [AccessNext]_accessVars PROVE HealInv'
    OBVIOUS
  <1> DEFINE Shaped(p) == p = [pc |-> p.pc, has |-> p.has, current |-> p.current]
  <1>0. Shaped(push)
    BY DEF HealInv
  <1>1. ASSUME \/ CreateUser \/ DeleteUser \/ EnableUser \/ DisableUser \/ ResetTraffic
               \/ Regroup \/ SyncFromMain
               \/ LoadForm \/ ReadUser \/ RestUpdate \/ PanelUpdate
               \/ Lapse \/ FindLapsed \/ DisableLapsed
        PROVE  HealInv'
    <2>1. Disturbs /\ push' = push
      BY <1>1 DEF CreateUser, DeleteUser, EnableUser, DisableUser, ResetTraffic, Regroup,
                  SyncFromMain, LoadForm, ReadUser, RestUpdate, PanelUpdate, WriteUser, Lapse,
                  FindLapsed, DisableLapsed, NodeSame
    <2> QED BY <1>0, <2>1, DisturbedStep
  <1>2. ASSUME NEW c \in Call,
               \/ SendAdd(c)   \/ SendRemove(c) \/ LoseCall(c)
               \/ AlterXray(c) \/ AlterStore(c) \/ AlterFails(c)
        PROVE  HealInv'
    <2>1. Disturbs /\ push' = push
      BY <1>2 DEF SendAdd, SendRemove, LoseCall, AlterXray, AlterStore, AlterFails, NodeSame
    <2> QED BY <1>0, <2>1, DisturbedStep
  <1>3. ASSUME CrashAgent \/ RestartXray PROVE HealInv'
    <2>1. Disturbs /\ push' = push
      BY <1>3 DEF CrashAgent, RestartXray, PanelSame
    <2> QED BY <1>0, <2>1, DisturbedStep
  <1>4. ASSUME StageFails PROVE HealInv'
    <2>1. push' \in {[push EXCEPT !.pc = "restart"], [push EXCEPT !.pc = "sync"],
                     [push EXCEPT !.pc = "replace"], NoPush}
      BY <1>4 DEF StageFails, Push
    <2>2. Shaped(push')
      BY <1>0, <2>1 DEF NoPush
    <2> QED BY <1>4, <2>2, DisturbedStep DEF StageFails
  <1>5. ASSUME SaveStore \/ FlushStore \/ UNCHANGED accessVars PROVE HealInv'
    <2>1. UNCHANGED <<user, push, healing, xray, store>>
      BY <1>5 DEF SaveStore, FlushStore, PanelSame, accessVars
    <2> QED BY <2>1, BelongsSame DEF HealInv, PushOnCourse
  <1>6. ASSUME BeginPush PROVE HealInv'
    <2>1. UNCHANGED user /\ push'.has = Belongs /\ push'.pc = "upload" /\ Shaped(push') /\ healing' # "healed"
      BY <1>6 DEF BeginPush, RequestsSame
    <2> QED BY <2>1, BelongsSame DEF HealInv, PushOnCourse
  <1>7. ASSUME UploadConfig PROVE HealInv'
    <2>1. UNCHANGED <<user, healing>> /\ push'.has = push.has /\ push'.pc = "restart" /\ Shaped(push')
          /\ push.pc # "idle"
      BY <1>0, <1>7 DEF UploadConfig, RequestsSame, Push
    <2> QED BY <2>1, BelongsSame DEF HealInv, PushOnCourse
  <1>8. ASSUME AgentRestart PROVE HealInv'
    <2>1. UNCHANGED <<user, healing, store>> /\ push'.has = push.has /\ push'.pc = "sync" /\ Shaped(push')
          /\ xray' = store /\ push.pc # "idle"
      BY <1>0, <1>8 DEF AgentRestart, RequestsSame, Push
    <2> QED BY <2>1, BelongsSame DEF HealInv, PushOnCourse
  <1>9. ASSUME SyncList PROVE HealInv'
    <2>1. UNCHANGED <<user, healing, store, xray>> /\ push'.has = push.has /\ push'.pc = "diff"
          /\ push'.current = store /\ Shaped(push') /\ push.pc = "sync"
      BY <1>0, <1>9 DEF SyncList, RequestsSame
    <2> QED BY <2>1, BelongsSame DEF HealInv, PushOnCourse
  <1>10. ASSUME SyncDiff PROVE HealInv'
    <2>1. UNCHANGED <<user, healing, store>> /\ push'.has = push.has /\ push'.pc = "replace"
          /\ Shaped(push') /\ push.pc = "diff"
          /\ xray' = IF push.current = push.has THEN xray ELSE push.has
      BY <1>0, <1>10 DEF SyncDiff, RequestsSame, Push
    <2> QED BY <2>1, BelongsSame DEF HealInv, PushOnCourse
  <1>11. ASSUME SyncReplace PROVE HealInv'
    <2>1. UNCHANGED <<user, xray>> /\ push'.pc = "idle" /\ Shaped(push') /\ push.pc = "replace"
          /\ store' = push.has /\ healing' = IF healing = "on" THEN "healed" ELSE healing
      BY <1>11 DEF SyncReplace, RequestsSame, NoPush
    <2> QED BY <2>1, BelongsSame DEF HealInv, PushOnCourse
  <1> QED BY <1>1, <1>2, <1>3, <1>4, <1>5, <1>6, <1>7, <1>8, <1>9, <1>10, <1>11 DEF AccessNext

\* Whatever calls were lost, late or cut short by a crash before: a full push that
\* nothing interferes with leaves agent and Xray with the users of the database
\* (pushing in syncService.js, handleSync in api.go).
THEOREM SyncHealsHolds == AccessSpec => []SyncHeals
  <1>1. HealInv => SyncHeals
    BY DEF HealInv, SyncHeals
  <1> QED BY <1>1, HealInit, HealStep, PTL DEF AccessSpec

-----------------------------------------------------------------------------
(***************************************************************************)
(* NodeFleet. That the agent's token is the document's rests on what every *)
(* request under way knows (Knows): a set-up that was handed the           *)
(* document's token, or that made the document take its own, holds the     *)
(* token the document still has, unless an edit asked for another. An id   *)
(* never used before is known to its creation alone (Births), so nobody    *)
(* writes to a document that is about to appear.                           *)
(***************************************************************************)

DocShape(d) ==
    d = [type |-> d.type, ip |-> d.ip, ssh |-> d.ssh, token |-> d.token, keys |-> d.keys,
         active |-> d.active, status |-> d.status]
ReqShape(q) ==
    /\ q = [kind |-> q.kind, at |-> q.at, n |-> q.n, api |-> q.api, doc |-> q.doc, arg |-> q.arg]
    /\ DocShape(q.doc)

FleetShape ==
    /\ there \subseteq FleetId
    /\ node = [n \in FleetId |-> node[n]] /\ \A n \in FleetId : DocShape(node[n])
    /\ freq = [r \in FleetReq |-> freq[r]] /\ \A r \in FleetReq : ReqShape(freq[r])

\* An id that was never a document's; nobody but its creation knows it.
Unborn(n) == n \notin there /\ node[n].status # "gone"

Births ==
    /\ \A n \in FleetId : Unborn(n) =>
          /\ agent.node # n
          /\ \A r \in FleetReq : freq[r].n = n => freq[r].kind = "create"
    /\ \A r \in FleetReq : freq[r].kind = "create" =>
          /\ freq[r].n \in FleetId /\ Unborn(freq[r].n)
          /\ \A q \in FleetReq \ {r} : freq[q].n # freq[r].n
    /\ \A r \in FleetReq : freq[r].kind \notin {"create", "none"} => freq[r].n \in FleetId

\* The document has the token `t`, which is one.
HasToken(n, t) ==
    n \in there /\ n \notin rewrote => node[n].token = t /\ t # NoToken

\* A set-up with the agent knows the document's token from its second step on,
\* and before if the document it read had one.
Knows(q) ==
    q.kind = "setup" =>
        /\ q.at = "token" /\ q.doc.token # NoToken => HasToken(q.n, q.doc.token)
        /\ q.at \in {"install", "upload", "agent", "record"} /\ q.api = "form" /\ q.doc.type = "xray"
              => HasToken(q.n, q.doc.token)
        /\ q.at \in {"agent", "record"} => q.api = "form" /\ q.doc.type = "xray"

AgentKnown == agent.node \in FleetId => HasToken(agent.node, agent.token)

FleetInv == FleetShape /\ Births /\ AgentKnown /\ \A r \in FleetReq : Knows(freq[r])

LEMMA BlankShape == DocShape(Blank) /\ ReqShape(NoFleetReq) /\ NoFleetReq.kind = "none" /\ NoFleetReq.n = ""
  BY DEF DocShape, ReqShape, Blank, NoFleetReq

LEMMA EditShape ==
  ASSUME NEW d, DocShape(d), NEW x
  PROVE  /\ DocShape([d EXCEPT !.ssh = x]) /\ [d EXCEPT !.ssh = x].token = d.token
         /\ DocShape([d EXCEPT !.keys = x]) /\ [d EXCEPT !.keys = x].token = d.token
         /\ DocShape([d EXCEPT !.status = x]) /\ [d EXCEPT !.status = x].token = d.token
         /\ [d EXCEPT !.status = x].status = x
         /\ DocShape([d EXCEPT !.token = x]) /\ [d EXCEPT !.token = x].token = x
         /\ DocShape([d EXCEPT !.active = x]) /\ [d EXCEPT !.active = x].token = d.token
  BY DEF DocShape

LEMMA CreateShape ==
  ASSUME NEW d, DocShape(d), NEW type, NEW ip, NEW ssh, NEW active, NEW token
  PROVE  DocShape([d EXCEPT !.type = type, !.ip = ip, !.ssh = ssh, !.active = active, !.token = token])
  <1>1. \A e, x : DocShape(e) =>
            /\ DocShape([e EXCEPT !.type = x]) /\ DocShape([e EXCEPT !.ip = x])
            /\ DocShape([e EXCEPT !.ssh = x]) /\ DocShape([e EXCEPT !.active = x])
            /\ DocShape([e EXCEPT !.token = x])
    BY DEF DocShape
  <1> DEFINE e1 == [d EXCEPT !.type = type]
             e2 == [e1 EXCEPT !.ip = ip]
             e3 == [e2 EXCEPT !.ssh = ssh]
             e4 == [e3 EXCEPT !.active = active]
  <1>2. DocShape([e4 EXCEPT !.token = token])
    BY <1>1
  <1>3. [d EXCEPT !.type = type, !.ip = ip, !.ssh = ssh, !.active = active, !.token = token]
        = [e4 EXCEPT !.token = token]
    OBVIOUS
  <1> QED BY <1>2, <1>3

LEMMA FormShape ==
  ASSUME NEW d, DocShape(d), NEW type, NEW ip, NEW ssh, NEW token, NEW keys
  PROVE  DocShape([d EXCEPT !.type = type, !.ip = ip, !.ssh = ssh, !.token = token, !.keys = keys])
  <1>1. \A e, x : DocShape(e) =>
            /\ DocShape([e EXCEPT !.type = x]) /\ DocShape([e EXCEPT !.ip = x])
            /\ DocShape([e EXCEPT !.ssh = x]) /\ DocShape([e EXCEPT !.token = x])
            /\ DocShape([e EXCEPT !.keys = x])
    BY DEF DocShape
  <1> DEFINE e1 == [d EXCEPT !.type = type]
             e2 == [e1 EXCEPT !.ip = ip]
             e3 == [e2 EXCEPT !.ssh = ssh]
             e4 == [e3 EXCEPT !.token = token]
  <1>2. DocShape([e4 EXCEPT !.keys = keys])
    BY <1>1
  <1>3. [d EXCEPT !.type = type, !.ip = ip, !.ssh = ssh, !.token = token, !.keys = keys]
        = [e4 EXCEPT !.keys = keys]
    OBVIOUS
  <1> QED BY <1>2, <1>3

LEMMA FleetInit_ == FleetInit => FleetInv
  <1> SUFFICES ASSUME FleetInit PROVE FleetInv
    OBVIOUS
  <1>1. FleetShape
    BY FleetAssumption, BlankShape DEF FleetInit, FleetShape, DocShape, Blank
  <1>2. Births /\ AgentKnown /\ \A r \in FleetReq : Knows(freq[r])
    BY FleetAssumption, BlankShape DEF FleetInit, Births, AgentKnown, Knows
  <1> QED BY <1>1, <1>2 DEF FleetInv

\* A step of one request that creates and deletes nothing, changes a token only
\* where there was none or says so, and knows the token if it must.
LEMMA WorkStep ==
  ASSUME FleetInv, NEW r \in FleetReq, NEW new, ReqShape(new),
         freq' = [freq EXCEPT ![r] = new], there' = there, rewrote \subseteq rewrote',
         node' = [n \in FleetId |-> node'[n]], \A n \in FleetId : DocShape(node'[n]),
         \A n \in FleetId : n \notin there => node'[n] = node[n],
         \A n \in FleetId : node'[n].token # node[n].token =>
             n \in rewrote' \/ node[n].token = NoToken,
         \/ new = NoFleetReq
         \/ new.kind \notin {"create", "none"} /\ new.n \in FleetId /\ ~Unborn(new.n)
            /\ \A q : q = new => Knows(q)',
         \/ agent' = agent
         \/ ~Unborn(agent'.node) /\ AgentKnown'
  PROVE  FleetInv'
  <1>1. FleetShape'
    BY DEF FleetInv, FleetShape
  <1>2. freq'[r] = new /\ \A q \in FleetReq \ {r} : freq'[q] = freq[q]
    BY DEF FleetInv, FleetShape
  <1>3. \A n \in FleetId : Unborn(n)' <=> Unborn(n)
    BY DEF Unborn
  <1>4. Births'
    <2>1. new.kind # "create" /\ (new.n \in FleetId => ~Unborn(new.n))
          /\ (new.kind # "none" => new.n \in FleetId)
      BY BlankShape, FleetAssumption
    <2>2. ASSUME NEW n \in FleetId, Unborn(n)
          PROVE  /\ agent'.node # n
                 /\ \A q \in FleetReq : freq'[q].n = n => freq'[q].kind = "create"
      BY <1>2, <2>1, <2>2 DEF FleetInv, Births
    <2>3. ASSUME NEW q \in FleetReq, freq'[q].kind = "create"
          PROVE  /\ freq'[q].n \in FleetId /\ Unborn(freq'[q].n)
                 /\ \A p \in FleetReq \ {q} : freq'[p].n # freq'[q].n
      <3>1. q # r /\ freq'[q] = freq[q]
        BY <1>2, <2>1, <2>3
      <3>2. /\ freq[q].n \in FleetId /\ Unborn(freq[q].n)
            /\ \A p \in FleetReq \ {q} : freq[p].n # freq[q].n
        BY <2>3, <3>1 DEF FleetInv, Births
      <3> QED BY <1>2, <2>1, <3>1, <3>2
    <2>4. ASSUME NEW q \in FleetReq, freq'[q].kind \notin {"create", "none"}
          PROVE  freq'[q].n \in FleetId
      BY <1>2, <2>1, <2>4 DEF FleetInv, Births
    <2>5. ASSUME NEW q \in FleetReq, freq'[q].kind = "create"
          PROVE  freq'[q].n \notin there' /\ node'[freq'[q].n].status # "gone"
      BY <2>3, <2>5 DEF Unborn
    <2>6. \A n \in FleetId : Unborn(n)' =>
              agent'.node # n /\ \A q \in FleetReq : freq'[q].n = n => freq'[q].kind = "create"
      BY <1>3, <2>2
    <2> QED BY <2>3, <2>4, <2>5, <2>6 DEF Births, Unborn
  <1>5. \A n \in FleetId : \A t : HasToken(n, t) => HasToken(n, t)'
    BY DEF HasToken
  <1>6. AgentKnown'
    BY <1>5 DEF FleetInv, AgentKnown
  <1>7. ASSUME NEW q \in FleetReq \ {r} PROVE Knows(freq[q])'
    <2>1. freq[q].kind = "setup" => freq[q].n \in FleetId
      BY DEF FleetInv, Births
    <2> QED BY <1>2, <1>5, <2>1 DEF FleetInv, Knows
  <1>8. Knows(freq[r])'
    BY <1>2, BlankShape DEF Knows
  <1> QED BY <1>1, <1>4, <1>6, <1>7, <1>8 DEF FleetInv

-----------------------------------------------------------------------------
(* The requests.                                                           *)

\* What a request that begins on an existing document knows of its token.
LEMMA BeginStep ==
  ASSUME FleetInv, NEW r \in FleetReq, NEW kind, kind \notin {"create", "none"}, NEW at,
         NEW n \in there, NEW api, NEW arg, Begin(r, kind, at, n, api, node[n], arg),
         kind = "setup" => \/ at = "token"
                           \/ at = "install" /\ ~(api = "form" /\ node[n].type = "xray"),
         UNCHANGED <<there, node, rewrote, agent>>
  PROVE  FleetInv'
  <1> DEFINE new == [kind |-> kind, at |-> at, n |-> n, api |-> api, doc |-> node[n], arg |-> arg]
  <1>1. n \in FleetId /\ DocShape(node[n]) /\ ~Unborn(n)
    BY DEF FleetInv, FleetShape, Unborn
  <1>2. ReqShape(new)
    BY <1>1 DEF ReqShape
  <1>3. /\ new.kind = kind /\ new.n = n /\ new.at = at /\ new.doc = node[n] /\ new.api = api
        /\ freq' = [freq EXCEPT ![r] = new]
    BY DEF Begin
  <1> HIDE DEF new
  <1>4. \A q : q = new => Knows(q)'
    BY <1>3 DEF Knows, HasToken
  <1>5. /\ node' = [m \in FleetId |-> node'[m]] /\ \A m \in FleetId : DocShape(node'[m])
        /\ \A m \in FleetId : node'[m] = node[m]
    BY DEF FleetInv, FleetShape
  <1> QED BY <1>1, <1>2, <1>3, <1>4, <1>5, WorkStep

\* A request that ends, or goes on to a step at which it need not know more.
LEMMA FinishStep ==
  ASSUME FleetInv, NEW r \in FleetReq, Finish(r), there' = there, agent' = agent, 
         rewrote \subseteq rewrote',
         node' = [n \in FleetId |-> node'[n]], \A n \in FleetId : DocShape(node'[n]),
         \A n \in FleetId : n \notin there => node'[n] = node[n],
         \A n \in FleetId : node'[n].token # node[n].token =>
             n \in rewrote' \/ node[n].token = NoToken
  PROVE  FleetInv'
  BY BlankShape, WorkStep DEF Finish

LEMMA CreateStep ==
  ASSUME FleetInv, NEW r \in FleetReq, CreateFleetNode(r)
  PROVE  FleetInv'
  <1>1. PICK n, doc, api :
            /\ n \in FleetId \ there
            /\ freq[r] = NoFleetReq
            /\ freq' = [freq EXCEPT ![r] = [kind |-> "create", at |-> "save", n |-> n, api |-> api,
                                            doc |-> doc, arg |-> NoArg]]
            /\ DocShape(doc) /\ node[n].status # "gone"
            /\ \A q \in FleetReq : freq[q].kind = "create" => freq[q].n # n
            /\ UNCHANGED <<there, node, agent, rewrote>>
    <2>1. PICK n \in FleetId \ there, api \in Api, type \in Type, ssh \in Cred \cup {NoCred},
               active \in BOOLEAN : CreateFleetNode(r)!(n, api, type, ssh, active)
      BY DEF CreateFleetNode
    <2> DEFINE token == IF api = "form" /\ type = "xray" THEN 100 + asked ELSE NoToken
    <2>2. PICK ip, from :
              /\ Begin(r, "create", "save", n, api,
                       [Blank EXCEPT !.type = type, !.ip = ip, !.ssh = from, !.active = active,
                                     !.token = token], NoArg)
              /\ node[n].status # "gone"
              /\ \A q \in FleetReq : freq[q].kind = "create" => freq[q].n # n
              /\ UNCHANGED <<there, node, agent, rewrote>>
      BY <2>1
    <2> HIDE DEF token
    <2>3. DocShape([Blank EXCEPT !.type = type, !.ip = ip, !.ssh = from, !.active = active,
                                 !.token = token])
      BY CreateShape, BlankShape
    <2> QED BY <2>2, <2>3 DEF Begin
  <1> DEFINE new == [kind |-> "create", at |-> "save", n |-> n, api |-> api, doc |-> doc, arg |-> NoArg]
  <1>2. new.kind = "create" /\ new.n = n /\ ReqShape(new) /\ freq' = [freq EXCEPT ![r] = new]
    BY <1>1 DEF ReqShape
  <1> HIDE DEF new
  <1>3. freq'[r] = new /\ \A q \in FleetReq \ {r} : freq'[q] = freq[q]
    BY <1>2 DEF FleetInv, FleetShape
  <1>4. n \in FleetId /\ Unborn(n) /\ \A q \in FleetReq : freq[q].n # n
    BY <1>1 DEF Unborn, FleetInv, Births
  <1>5. FleetShape'
    BY <1>1, <1>2, <1>3 DEF FleetInv, FleetShape
  <1>6. \A m \in FleetId : Unborn(m)' <=> Unborn(m)
    BY <1>1 DEF Unborn
  <1>7. Births'
    <2>1. ASSUME NEW m \in FleetId, Unborn(m)
          PROVE  /\ agent'.node # m
                 /\ \A q \in FleetReq : freq'[q].n = m => freq'[q].kind = "create"
      BY <1>1, <1>2, <1>3, <2>1 DEF FleetInv, Births
    <2>2. ASSUME NEW q \in FleetReq, freq'[q].kind = "create"
          PROVE  /\ freq'[q].n \in FleetId /\ Unborn(freq'[q].n)
                 /\ \A p \in FleetReq \ {q} : freq'[p].n # freq'[q].n
      BY <1>2, <1>3, <1>4, <2>2 DEF FleetInv, Births
    <2>3. ASSUME NEW q \in FleetReq, freq'[q].kind \notin {"create", "none"}
          PROVE  freq'[q].n \in FleetId
      BY <1>2, <1>3, <2>3 DEF FleetInv, Births
    <2>4. ASSUME NEW q \in FleetReq, freq'[q].kind = "create"
          PROVE  freq'[q].n \notin there' /\ node'[freq'[q].n].status # "gone"
      BY <1>1, <2>2, <2>4 DEF Unborn
    <2> QED BY <1>6, <2>1, <2>2, <2>3, <2>4 DEF Births, Unborn
  <1>8. AgentKnown' /\ \A q \in FleetReq : Knows(freq[q])'
    BY <1>1, <1>2, <1>3 DEF FleetInv, AgentKnown, Knows, HasToken
  <1> QED BY <1>5, <1>7, <1>8 DEF FleetInv

\* The new document's id is known to nobody, so nobody is wrong about its token.
LEMMA InsertStep ==
  ASSUME FleetInv, NEW r \in FleetReq, InsertFleetNode(r)
  PROVE  FleetInv'
  <1> DEFINE n == freq[r].n
             doc == freq[r].doc
  <1>1. CASE ~Insertable(n, doc)
    BY <1>1, FinishStep DEF InsertFleetNode, FleetInv, FleetShape
  <1>2. CASE Insertable(n, doc)
    <2>1. /\ there' = there \cup {n} /\ node' = [node EXCEPT ![n] = doc]
          /\ freq' = [freq EXCEPT ![r] = NoFleetReq] /\ UNCHANGED <<agent, rewrote>>
      BY <1>2 DEF InsertFleetNode, Put, Finish
    <2>2. n \in FleetId /\ Unborn(n) /\ agent.node # n /\ \A q \in FleetReq \ {r} : freq[q].n # n
      BY DEF FleetInv, Births, InsertFleetNode, At_
    <2>3. DocShape(doc)
      BY DEF FleetInv, FleetShape, ReqShape
    <2> HIDE DEF n, doc
    <2>4. /\ freq'[r] = NoFleetReq /\ \A q \in FleetReq \ {r} : freq'[q] = freq[q]
          /\ \A m \in FleetId \ {n} : node'[m] = node[m] /\ (m \in there' <=> m \in there)
          /\ n \in there' /\ agent' = agent
      BY <2>1 DEF FleetInv, FleetShape
    <2>5. FleetShape'
      BY <2>1, <2>2, <2>3, BlankShape DEF FleetInv, FleetShape
    <2>6. \A m \in FleetId : Unborn(m)' => Unborn(m) /\ m # n
      BY <2>4 DEF Unborn
    <2>7. Births'
      <3>1. ASSUME NEW m \in FleetId, Unborn(m)
            PROVE  /\ agent'.node # m
                   /\ \A q \in FleetReq : freq'[q].n = m => freq'[q].kind = "create"
        <4>2. \A q \in FleetReq : freq'[q] = freq[q] \/ freq'[q].n = ""
          BY <2>4, BlankShape
        <4>3. Unborn(m) => agent.node # m /\ \A q \in FleetReq : freq[q].n = m => freq[q].kind = "create"
          BY DEF FleetInv, Births
        <4> QED BY <2>4, <3>1, <4>2, <4>3, FleetAssumption
      <3>2. ASSUME NEW q \in FleetReq, freq'[q].kind = "create"
            PROVE  /\ freq'[q].n \in FleetId /\ Unborn(freq'[q].n) /\ freq'[q].n # n
                   /\ \A p \in FleetReq \ {q} : freq'[p].n # freq'[q].n
        <4>1. q # r /\ freq'[q] = freq[q] /\ freq[q].kind = "create"
          BY <2>4, <3>2, BlankShape
        <4>2. /\ freq[q].n \in FleetId /\ Unborn(freq[q].n)
              /\ \A p \in FleetReq \ {q} : freq[p].n # freq[q].n
          BY <4>1 DEF FleetInv, Births
        <4>3. freq[q].n # n
          BY <2>2, <4>1
        <4>4. \A p \in FleetReq : freq'[p] = freq[p] \/ freq'[p].n = ""
          BY <2>4, BlankShape
        <4> QED BY <4>1, <4>2, <4>3, <4>4, FleetAssumption
      <3>3. ASSUME NEW q \in FleetReq, freq'[q].kind \notin {"create", "none"}
            PROVE  freq'[q].n \in FleetId
        BY <2>4, <3>3, BlankShape DEF FleetInv, Births
      <3>4. ASSUME NEW q \in FleetReq, freq'[q].kind = "create"
            PROVE  freq'[q].n \notin there' /\ node'[freq'[q].n].status # "gone"
        BY <2>4, <3>2, <3>4 DEF Unborn
      <3> QED BY <2>6, <3>1, <3>2, <3>3, <3>4 DEF Births, Unborn
    <2>8. AgentKnown'
      BY <2>1, <2>2, <2>4 DEF FleetInv, AgentKnown, HasToken
    <2>9. ASSUME NEW q \in FleetReq PROVE Knows(freq[q])'
      <3>1. q # r /\ freq[q].kind = "setup" => freq[q].n \in FleetId /\ freq[q].n # n
        BY <2>2 DEF FleetInv, Births
      <3>2. CASE q = r
        BY <2>4, <3>2, BlankShape DEF Knows
      <3>3. CASE q # r
        <4>1. \A t : HasToken(freq[q].n, t) /\ freq[q].kind = "setup" => HasToken(freq[q].n, t)'
          BY <2>1, <2>4, <3>1, <3>3 DEF HasToken
        <4> QED BY <2>4, <3>3, <4>1 DEF FleetInv, Knows
      <3> QED BY <3>2, <3>3
    <2> QED BY <2>5, <2>7, <2>8, <2>9 DEF FleetInv
  <1> QED BY <1>1, <1>2

LEMMA DeleteStep ==
  ASSUME FleetInv, NEW r \in FleetReq, DeleteFleetNode(r)
  PROVE  FleetInv'
  <1>1. PICK n \in there :
            /\ freq' = [freq EXCEPT ![r] = [kind |-> "delete", at |-> "pull", n |-> n, api |-> "rest",
                                            doc |-> node[n], arg |-> NoArg]]
            /\ there' = there \ {n} /\ node' = [node EXCEPT ![n] = [Blank EXCEPT !.status = "gone"]]
            /\ UNCHANGED <<agent, rewrote>>
    BY DEF DeleteFleetNode, Begin, Put
  <1> DEFINE new == [kind |-> "delete", at |-> "pull", n |-> n, api |-> "rest", doc |-> node[n], arg |-> NoArg]
             gone == [Blank EXCEPT !.status = "gone"]
  <1>2. n \in FleetId /\ DocShape(node[n]) /\ ~Unborn(n) /\ DocShape(gone) /\ gone.status = "gone"
    <2>1. DocShape(gone) /\ gone.status = "gone"
      BY EditShape, BlankShape
    <2> QED BY <2>1 DEF FleetInv, FleetShape, Unborn
  <1>3. /\ new.kind = "delete" /\ new.n = n /\ ReqShape(new) /\ freq' = [freq EXCEPT ![r] = new]
        /\ node' = [node EXCEPT ![n] = gone]
    BY <1>1, <1>2 DEF ReqShape
  <1> HIDE DEF new, gone
  <1>4. /\ freq'[r] = new /\ \A q \in FleetReq \ {r} : freq'[q] = freq[q]
        /\ \A m \in FleetId \ {n} : node'[m] = node[m] /\ (m \in there' <=> m \in there)
        /\ n \notin there' /\ node'[n] = gone
    BY <1>1, <1>2, <1>3 DEF FleetInv, FleetShape
  <1>5. FleetShape'
    BY <1>1, <1>2, <1>3 DEF FleetInv, FleetShape
  <1>6. \A m \in FleetId : Unborn(m)' <=> Unborn(m)
    BY <1>2, <1>4 DEF Unborn
  <1>7. Births'
    <2>1. ASSUME NEW m \in FleetId, Unborn(m)
          PROVE  /\ agent'.node # m
                 /\ \A q \in FleetReq : freq'[q].n = m => freq'[q].kind = "create"
      BY <1>1, <1>2, <1>3, <1>4, <2>1 DEF FleetInv, Births
    <2>2. ASSUME NEW q \in FleetReq, freq'[q].kind = "create"
          PROVE  /\ freq'[q].n \in FleetId /\ Unborn(freq'[q].n)
                 /\ \A p \in FleetReq \ {q} : freq'[p].n # freq'[q].n
      BY <1>2, <1>3, <1>4, <2>2 DEF FleetInv, Births
    <2>3. ASSUME NEW q \in FleetReq, freq'[q].kind \notin {"create", "none"}
          PROVE  freq'[q].n \in FleetId
      BY <1>2, <1>3, <1>4, <2>3 DEF FleetInv, Births
    <2>4. ASSUME NEW q \in FleetReq, freq'[q].kind = "create"
          PROVE  freq'[q].n \notin there' /\ node'[freq'[q].n].status # "gone"
      BY <1>2, <1>4, <2>2, <2>4 DEF Unborn
    <2> QED BY <1>6, <2>1, <2>2, <2>3, <2>4 DEF Births, Unborn
  <1>8. \A m, t : m \in FleetId /\ HasToken(m, t) => HasToken(m, t)'
    BY <1>1, <1>4 DEF HasToken
  <1>9. AgentKnown' /\ \A q \in FleetReq : Knows(freq[q])'
    <2>1. AgentKnown'
      BY <1>1, <1>8 DEF FleetInv, AgentKnown
    <2>2. ASSUME NEW q \in FleetReq PROVE Knows(freq[q])'
      <3>1. freq[q].kind = "setup" => freq[q].n \in FleetId
        BY DEF FleetInv, Births
      <3> QED BY <1>3, <1>4, <1>8, <3>1 DEF FleetInv, Knows
    <2> QED BY <2>1, <2>2
  <1> QED BY <1>5, <1>7, <1>9 DEF FleetInv

-----------------------------------------------------------------------------
(* Their steps.                                                            *)

LEMMA RequestAt ==
  ASSUME NEW q, ReqShape(q), NEW at
  PROVE  /\ ReqShape([q EXCEPT !.at = at]) /\ [q EXCEPT !.at = at].kind = q.kind
         /\ [q EXCEPT !.at = at].n = q.n /\ [q EXCEPT !.at = at].at = at
         /\ [q EXCEPT !.at = at].doc = q.doc /\ [q EXCEPT !.at = at].api = q.api
  BY DEF ReqShape

LEMMA RequestDoc ==
  ASSUME NEW q, ReqShape(q), NEW d, DocShape(d)
  PROVE  /\ ReqShape([q EXCEPT !.doc = d]) /\ [q EXCEPT !.doc = d].kind = q.kind
         /\ [q EXCEPT !.doc = d].n = q.n /\ [q EXCEPT !.doc = d].at = q.at
         /\ [q EXCEPT !.doc = d].doc = d /\ [q EXCEPT !.doc = d].api = q.api
  BY DEF ReqShape

\* The documents after a step that sets no token but where there was none.
Harmless ==
    /\ there' = there /\ rewrote \subseteq rewrote'
    /\ node' = [n \in FleetId |-> node'[n]] /\ \A n \in FleetId : DocShape(node'[n])
    /\ \A n \in FleetId : n \notin there => node'[n] = node[n]
    /\ \A n \in FleetId : node'[n].token # node[n].token => n \in rewrote' \/ node[n].token = NoToken

LEMMA GoOnStep ==
  ASSUME FleetInv, NEW r \in FleetReq, freq[r].kind \notin {"create", "none"}, Harmless,
         NEW new, ReqShape(new), freq' = [freq EXCEPT ![r] = new],
         new.kind = freq[r].kind, new.n = freq[r].n, \A q : q = new => Knows(q)',
         agent' = agent \/ (~Unborn(agent'.node) /\ AgentKnown')
  PROVE  FleetInv'
  <1>1. new.n \in FleetId /\ ~Unborn(new.n)
    BY DEF FleetInv, Births
  <1> QED BY <1>1, WorkStep DEF Harmless

LEMMA DoneStep ==
  ASSUME FleetInv, NEW r \in FleetReq, Finish(r), Harmless, agent' = agent
  PROVE  FleetInv'
  BY FinishStep DEF Harmless

LEMMA NothingWritten ==
  ASSUME FleetInv, UNCHANGED <<there, node, rewrote>>
  PROVE  Harmless
  BY DEF FleetInv, FleetShape, Harmless

LEMMA OneWritten ==
  ASSUME FleetInv, NEW n \in there, NEW doc, DocShape(doc), Put(n, doc), there' = there,
         rewrote \subseteq rewrote',
         doc.token = node[n].token \/ n \in rewrote' \/ node[n].token = NoToken
  PROVE  Harmless
  <1>1. n \in FleetId /\ node' = [node EXCEPT ![n] = doc]
    BY DEF FleetInv, FleetShape, Put
  <1>2. node'[n] = doc /\ \A m \in FleetId \ {n} : node'[m] = node[m]
    BY <1>1 DEF FleetInv, FleetShape
  <1> QED BY <1>1, <1>2 DEF FleetInv, FleetShape, Harmless

LEMMA DocOf ==
  ASSUME FleetInv
  PROVE  /\ \A n \in there : n \in FleetId /\ DocShape(node[n])
         /\ \A r \in FleetReq : ReqShape(freq[r]) /\ DocShape(freq[r].doc)
  BY DEF FleetInv, FleetShape, ReqShape

LEMMA EditedShape ==
  ASSUME NEW q, DocShape(node[q.n])
  PROVE  DocShape(Edited(q))
  <1> DEFINE now == node[q.n]
             form == q.api = "form"
             type == IF form /\ q.arg.type = q.doc["type"] THEN now["type"] ELSE q.arg.type
             there_ == IF form /\ q.arg.ip = q.doc["ip"] THEN now["ip"] ELSE q.arg.ip
             ip == IF form \/ q.arg.type = "virtual" THEN there_ ELSE now.ip
             ssh == IF q.arg.ssh = Keep THEN now.ssh ELSE q.arg.ssh
             fresh == form /\ q.arg.type = "xray" /\ q.doc.token = NoToken
             token == IF q.arg.wipe THEN NoToken ELSE IF fresh THEN 200 + asked ELSE now.token
             keys == IF q.arg.wipe THEN NoToken ELSE now.keys
  <1>1. Edited(q) = [now EXCEPT !.type = type, !.ip = ip, !.ssh = ssh, !.token = token, !.keys = keys]
    BY DEF Edited
  <1> HIDE DEF now, type, ip, ssh, token, keys
  <1>2. DocShape([now EXCEPT !.type = type, !.ip = ip, !.ssh = ssh, !.token = token, !.keys = keys])
    BY FormShape, Zenon DEF now
  <1> QED BY <1>1, <1>2, Zenon

LEMMA WriteFleetStep ==
  ASSUME FleetInv, NEW r \in FleetReq, WriteFleetNode(r)
  PROVE  FleetInv'
  <1> DEFINE q == freq[r]
  <1>1. PICK active \in BOOLEAN : WriteFleetNode(r)!2!(active)
    BY DEF WriteFleetNode
  <1> DEFINE doc == [Edited(q) EXCEPT !.active = active]
             ok == q.n \in there /\ Insertable(q.n, doc)
  <1>2. /\ q.kind = "edit" /\ UNCHANGED <<there, agent>>
        /\ IF ok THEN /\ Put(q.n, doc)
                      /\ rewrote' = IF doc.token # node[q.n].token THEN rewrote \cup {q.n} ELSE rewrote
                 ELSE UNCHANGED <<node, rewrote>>
        /\ \/ freq' = [freq EXCEPT ![r].at = "siblings", ![r].doc = doc]
           \/ Finish(r)
    BY <1>1 DEF WriteFleetNode, At_
  <1>3. DocShape(node[q.n]) => DocShape(doc)
    BY EditedShape, EditShape
  <1> HIDE DEF doc
  <1>4. Harmless
    <2>1. CASE ok
      BY <1>2, <1>3, <2>1, DocOf, OneWritten
    <2>2. CASE ~ok
      BY <1>2, <2>2, NothingWritten
    <2> QED BY <2>1, <2>2
  <1>5. DocShape(doc)
    BY <1>2, <1>3 DEF FleetInv, FleetShape, Births
  <1>6. CASE freq' = [freq EXCEPT ![r].at = "siblings", ![r].doc = doc]
    <2>1. freq' = [freq EXCEPT ![r] = [q EXCEPT !.at = "siblings", !.doc = doc]]
      BY <1>6
    <2>2. ReqShape(q)
      BY DocOf
    <2> DEFINE new == [q EXCEPT !.at = "siblings", !.doc = doc]
    <2>3. ReqShape(new) /\ new.kind = "edit" /\ new.n = q.n /\ freq' = [freq EXCEPT ![r] = new]
      <3> DEFINE p == [q EXCEPT !.at = "siblings"]
      <3>1. ReqShape(p) /\ p.kind = q.kind /\ p.n = q.n /\ new = [p EXCEPT !.doc = doc]
        BY <2>2, RequestAt
      <3> HIDE DEF p, new
      <3>2. /\ ReqShape(new) /\ new.kind = q.kind /\ new.n = q.n
        BY <1>5, <3>1, RequestDoc
      <3> QED BY <1>2, <2>1, <3>2 DEF new
    <2> HIDE DEF new
    <2>4. \A p : p = new => Knows(p)'
      BY <2>3 DEF Knows
    <2> QED BY <1>2, <1>4, <2>3, <2>4, GoOnStep
  <1>7. CASE Finish(r)
    BY <1>2, <1>4, <1>7, DoneStep
  <1> QED BY <1>2, <1>6, <1>7

LEMMA CopyStep ==
  ASSUME FleetInv, NEW r \in FleetReq, CopySsh(r)
  PROVE  FleetInv'
  <1> DEFINE q == freq[r]
             doc == IF q.api = "form" THEN node[q.n] ELSE q.doc
  <1>1. /\ node' = [m \in FleetId |->
                       IF m \in there \ {q.n} /\ node[m].ip = doc.ip /\ q.n \in there
                       THEN [node[m] EXCEPT !.ssh = doc.ssh] ELSE node[m]]
        /\ Finish(r) /\ UNCHANGED <<there, agent, rewrote>>
    BY DEF CopySsh
  <1> HIDE DEF doc
  <1>2. \A m \in FleetId : /\ DocShape(node'[m]) /\ node'[m].token = node[m].token
                           /\ m \notin there => node'[m] = node[m]
    BY <1>1, EditShape DEF FleetInv, FleetShape
  <1>3. Harmless
    BY <1>1, <1>2 DEF Harmless
  <1> QED BY <1>1, <1>3, DoneStep

LEMMA StoreKeyStep ==
  ASSUME FleetInv, NEW r \in FleetReq, StoreSshKey(r)
  PROVE  FleetInv'
  <1>1. Finish(r) /\ UNCHANGED <<there, agent, rewrote>>
    BY DEF StoreSshKey
  <1>2. Harmless
    <2>1. CASE freq[r].n \notin there
      BY <1>1, <2>1, NothingWritten DEF StoreSshKey
    <2>2. CASE freq[r].n \in there
      <3>1. PICK c \in Cred : Put(freq[r].n, [node[freq[r].n] EXCEPT !.ssh = c])
        BY <2>2 DEF StoreSshKey
      <3>2. /\ DocShape([node[freq[r].n] EXCEPT !.ssh = c])
            /\ [node[freq[r].n] EXCEPT !.ssh = c].token = node[freq[r].n].token
        BY <2>2, DocOf, EditShape
      <3> QED BY <1>1, <2>2, <3>1, <3>2, OneWritten
    <2> QED BY <2>1, <2>2
  <1> QED BY <1>1, <1>2, DoneStep

LEMMA PullStep ==
  ASSUME FleetInv, NEW r \in FleetReq, PullFromUsers(r)
  PROVE  FleetInv'
  BY NothingWritten, DoneStep DEF PullFromUsers

LEMMA SwitchStep ==
  ASSUME FleetInv, NEW r \in FleetReq, WriteSwitch(r)
  PROVE  FleetInv'
  <1>1. Finish(r) /\ UNCHANGED <<there, agent, rewrote>>
    BY DEF WriteSwitch
  <1>2. ASSUME freq[r].n \in there
        PROVE  /\ DocShape(SwitchWritten(freq[r]))
               /\ SwitchWritten(freq[r]).token = node[freq[r].n].token
    <2> DEFINE on == freq[r].kind = "enable" /\ freq[r].at = "ok"
               status == IF on THEN IF freq[r].doc.type = "virtual" THEN freq[r].doc.status ELSE "online"
                         ELSE "offline"
               d == [node[freq[r].n] EXCEPT !.active = on]
    <2>1. SwitchWritten(freq[r]) = [d EXCEPT !.status = status]
      BY DEF SwitchWritten
    <2>2. DocShape(node[freq[r].n])
      BY <1>2, DocOf
    <2>3. \A b : /\ DocShape([node[freq[r].n] EXCEPT !.active = b])
                 /\ [node[freq[r].n] EXCEPT !.active = b].token = node[freq[r].n].token
      BY <2>2, EditShape
    <2>4. DocShape(d) /\ d.token = node[freq[r].n].token
      BY <2>3, Zenon
    <2> HIDE DEF d, status
    <2>5. DocShape([d EXCEPT !.status = status]) /\ [d EXCEPT !.status = status].token = d.token
      BY <2>4, EditShape
    <2> QED BY <2>1, <2>4, <2>5, Zenon
  <1>3. Harmless
    <2>1. CASE freq[r].n \in there
      BY <1>1, <1>2, <2>1, OneWritten DEF WriteSwitch
    <2>2. CASE freq[r].n \notin there
      BY <1>1, <2>2, NothingWritten DEF WriteSwitch
    <2> QED BY <2>1, <2>2
  <1> QED BY <1>1, <1>3, DoneStep

LEMMA SetupWritten ==
  ASSUME FleetInv, NEW r \in FleetReq, WriteSetup(r)
  PROVE  FleetInv'
  <1> DEFINE status == IF freq[r].at = "ok" THEN "online" ELSE "error"
             doc == [node[freq[r].n] EXCEPT !.status = status]
  <1>1. Finish(r) /\ UNCHANGED <<there, agent, rewrote>>
    BY DEF WriteSetup
  <1>2. ASSUME freq[r].n \in there
        PROVE  DocShape(doc) /\ doc.token = node[freq[r].n].token /\ Put(freq[r].n, doc)
    <2>1. Put(freq[r].n, doc)
      BY <1>2 DEF WriteSetup
    <2> HIDE DEF status
    <2>2. DocShape(doc) /\ doc.token = node[freq[r].n].token
      BY <1>2, DocOf, EditShape
    <2> QED BY <2>1, <2>2
  <1> HIDE DEF doc
  <1>3. Harmless
    <2>1. CASE freq[r].n \in there
      BY <1>1, <1>2, <2>1, OneWritten
    <2>2. CASE freq[r].n \notin there
      BY <1>1, <2>2, NothingWritten DEF WriteSetup
    <2> QED BY <2>1, <2>2
  <1> QED BY <1>1, <1>3, DoneStep

\* A request that goes on to a step at which it knows no more than before.
LEMMA LaterStep ==
  ASSUME FleetInv, NEW r \in FleetReq, freq[r].kind \notin {"create", "none"}, NEW at, Later(r, at),
         at \in {"ok", "failed"}, Harmless, agent' = agent
  PROVE  FleetInv'
  <1> DEFINE new == [freq[r] EXCEPT !.at = at]
  <1>1. /\ ReqShape(new) /\ new.kind = freq[r].kind /\ new.n = freq[r].n /\ new.at = at
        /\ freq' = [freq EXCEPT ![r] = new]
    BY DocOf, RequestAt DEF Later
  <1> HIDE DEF new
  <1>2. \A q : q = new => Knows(q)'
    BY <1>1 DEF Knows
  <1> QED BY <1>1, <1>2, GoOnStep

LEMMA RuntimeStep ==
  ASSUME FleetInv, NEW r \in FleetReq, SwitchRuntime(r)
  PROVE  FleetInv'
  <1>1. /\ freq[r].kind \in {"enable", "disable"} /\ UNCHANGED <<there, node, agent, rewrote>>
        /\ Later(r, "ok") \/ Later(r, "failed")
    BY DEF SwitchRuntime
  <1> QED BY <1>1, LaterStep, NothingWritten

LEMMA HysteriaStep ==
  ASSUME FleetInv, NEW r \in FleetReq, InstallHysteria(r)
  PROVE  FleetInv'
  <1>1. /\ freq[r].kind = "setup" /\ UNCHANGED <<there, node, agent, rewrote>>
        /\ Later(r, "ok") \/ Later(r, "failed")
    BY DEF InstallHysteria, At_
  <1> QED BY <1>1, LaterStep, NothingWritten

\* The token a set-up leaves the document with is the one it goes on with.
LEMMA TokenStep ==
  ASSUME FleetInv, NEW r \in FleetReq, EnsureAgentToken(r)
  PROVE  FleetInv'
  <1> DEFINE q == freq[r]
             token == IF q.doc.token # NoToken THEN q.doc.token
                      ELSE IF node[q.n].token # NoToken THEN node[q.n].token ELSE Fresh(r)
             written == [node[q.n] EXCEPT !.token = token]
  <1>1. q.kind = "setup" /\ q.at = "token" /\ UNCHANGED <<there, agent, rewrote>>
    BY DEF EnsureAgentToken, At_
  <1>2. CASE q.doc.token = NoToken /\ q.n \notin there
    BY <1>1, <1>2, LaterStep, NothingWritten DEF EnsureAgentToken
  <1>3. CASE ~(q.doc.token = NoToken /\ q.n \notin there)
    <2> DEFINE new == [q EXCEPT !.at = "install", !.doc.token = token]
    <2>1. /\ freq' = [freq EXCEPT ![r] = new]
          /\ IF q.n \in there /\ q.doc.token = NoToken THEN Put(q.n, written) ELSE UNCHANGED node
      BY <1>3 DEF EnsureAgentToken
    <2>2. token # NoToken
      BY DEF Fresh, NoToken
    <2> HIDE DEF token
    <2>3. q.n \in there => DocShape(written) /\ written.token = token
      BY DocOf, EditShape
    <2>4. /\ ReqShape(new) /\ new.kind = "setup" /\ new.n = q.n /\ new.at = "install"
          /\ new.doc.token = token
      <3> DEFINE p == [q EXCEPT !.at = "install"]
                 d == [p.doc EXCEPT !.token = token]
      <3>1. ReqShape(p) /\ p.kind = "setup" /\ p.n = q.n /\ p.at = "install" /\ DocShape(p.doc)
        BY <1>1, DocOf, RequestAt
      <3>2. DocShape(d) /\ d.token = token
        BY <3>1, EditShape
      <3>3. new = [p EXCEPT !.doc = d]
        OBVIOUS
      <3> HIDE DEF p, d, new
      <3> QED BY <3>1, <3>2, <3>3, RequestDoc
    <2> HIDE DEF new, written
    <2>5. Harmless
      <3>1. CASE q.n \in there /\ q.doc.token = NoToken
        <4>1. node[q.n].token # NoToken => token = node[q.n].token
          BY <3>1 DEF token
        <4> QED BY <1>1, <2>1, <2>3, <3>1, <4>1, OneWritten
      <3>2. CASE ~(q.n \in there /\ q.doc.token = NoToken)
        BY <1>1, <2>1, <3>2, NothingWritten
      <3> QED BY <3>1, <3>2
    <2>6. q.n \in there' /\ q.n \notin rewrote' => node'[q.n].token = token
      <3>1. CASE q.doc.token = NoToken
        <4>1. q.n \in there /\ node' = [node EXCEPT ![q.n] = written]
          BY <1>3, <2>1, <3>1 DEF Put
        <4>2. node'[q.n].token = token
          BY <2>3, <4>1 DEF FleetInv, FleetShape
        <4> QED BY <4>2
      <3>2. CASE q.doc.token # NoToken
        <4>1. token = q.doc.token /\ HasToken(q.n, q.doc.token)
          BY <1>1, <3>2 DEF token, FleetInv, Knows
        <4> QED BY <1>1, <2>1, <3>2, <4>1 DEF HasToken
      <3> QED BY <3>1, <3>2
    <2>7. \A p : p = new => Knows(p)'
      BY <2>2, <2>4, <2>6 DEF Knows, HasToken
    <2> QED BY <1>1, <2>1, <2>4, <2>5, <2>7, GoOnStep
  <1> QED BY <1>2, <1>3

\* Keys are no token.
LEMMA KeysStep ==
  ASSUME FleetInv, NEW r \in FleetReq, MakeRealityKeys(r)
  PROVE  FleetInv'
  <1> DEFINE q == freq[r]
             keys == IF q.doc.keys # NoToken THEN q.doc.keys ELSE Fresh(r)
             written == [node[q.n] EXCEPT !.keys = keys]
             new == [q EXCEPT !.at = "upload", !.doc.keys = keys]
  <1>1. /\ q.kind = "setup" /\ q.at = "install" /\ q.doc.type = "xray"
        /\ UNCHANGED <<there, agent, rewrote>>
    BY DEF MakeRealityKeys, At_
  <1>2. CASE UNCHANGED node /\ Later(r, "failed")
    BY <1>1, <1>2, LaterStep, NothingWritten
  <1>3. CASE /\ freq' = [freq EXCEPT ![r] = new]
             /\ IF q.n \in there /\ keys # q.doc.keys THEN Put(q.n, written) ELSE UNCHANGED node
    <2> HIDE DEF keys
    <2>1. q.n \in there => DocShape(written) /\ written.token = node[q.n].token
      BY DocOf, EditShape
    <2>2. /\ ReqShape(new) /\ new.kind = "setup" /\ new.n = q.n /\ new.at = "upload"
          /\ new.api = q.api /\ new.doc.token = q.doc.token /\ new.doc.type = q.doc.type
      <3> DEFINE p == [q EXCEPT !.at = "upload"]
                 d == [p.doc EXCEPT !.keys = keys]
      <3>1. /\ ReqShape(p) /\ p.kind = "setup" /\ p.n = q.n /\ p.at = "upload" /\ p.api = q.api
            /\ p.doc = q.doc /\ DocShape(p.doc)
        BY <1>1, DocOf, RequestAt
      <3>2. DocShape(d) /\ d.token = p.doc.token
        <4> HIDE DEF p
        <4> QED BY <3>1, EditShape
      <3>3. d.type = q.doc.type
        BY <3>1 DEF DocShape
      <3>4. new = [p EXCEPT !.doc = d]
        OBVIOUS
      <3> HIDE DEF p, d, new
      <3> QED BY <3>1, <3>2, <3>3, <3>4, RequestDoc
    <2> HIDE DEF new, written
    <2>3. Harmless
      BY <1>1, <1>3, <2>1, OneWritten, NothingWritten
    <2>4. q.n \in FleetId
      BY <1>1 DEF FleetInv, Births
    <2>5. node'[q.n].token = node[q.n].token
      BY <1>3, <2>1, <2>4 DEF Put, FleetInv, FleetShape
    <2>6. \A p : p = new => Knows(p)'
      BY <1>1, <2>2, <2>5 DEF Knows, HasToken, FleetInv
    <2> QED BY <1>1, <1>3, <2>2, <2>3, <2>6, GoOnStep
  <1> QED BY <1>2, <1>3 DEF MakeRealityKeys

\* After the install the agent of a form's set-up of an Xray node, or the end.
LEMMA XrayStep ==
  ASSUME FleetInv, NEW r \in FleetReq, InstallXray(r)
  PROVE  FleetInv'
  <1> DEFINE q == freq[r]
             new == [q EXCEPT !.at = "agent"]
  <1>1. /\ q.kind = "setup" /\ q.at = "upload" /\ UNCHANGED <<there, node, agent, rewrote>>
        /\ Later(r, "failed") \/ Later(r, AfterInstall(q))
    BY DEF InstallXray, At_
  <1>2. CASE Later(r, "failed") \/ Later(r, "ok")
    BY <1>1, <1>2, LaterStep, NothingWritten
  <1>3. CASE Later(r, "agent") /\ q.api = "form" /\ q.doc.type = "xray"
    <2>1. /\ ReqShape(new) /\ new.kind = "setup" /\ new.n = q.n /\ new.at = "agent"
          /\ new.api = "form" /\ new.doc = q.doc /\ freq' = [freq EXCEPT ![r] = new]
      BY <1>1, <1>3, DocOf, RequestAt DEF Later
    <2> HIDE DEF new
    <2>2. \A p : p = new => Knows(p)'
      BY <1>1, <1>3, <2>1 DEF Knows, HasToken, FleetInv
    <2> QED BY <1>1, <2>1, <2>2, GoOnStep, NothingWritten
  <1> QED BY <1>1, <1>2, <1>3 DEF AfterInstall

LEMMA AgentStep ==
  ASSUME FleetInv, NEW r \in FleetReq, InstallAgent(r)
  PROVE  FleetInv'
  <1> DEFINE q == freq[r]
             new == [q EXCEPT !.at = "record"]
  <1>1. /\ q.kind = "setup" /\ q.at = "agent" /\ UNCHANGED <<there, node, rewrote>>
        /\ agent' = agent \/ agent' = [token |-> q.doc.token, node |-> q.n]
        /\ \/ Later(r, "failed")
           \/ Later(r, "record")
    BY DEF InstallAgent, At_
  <1>2. HasToken(q.n, q.doc.token) /\ q.n \in FleetId /\ ~Unborn(q.n)
        /\ q.api = "form" /\ q.doc.type = "xray"
    BY <1>1 DEF FleetInv, Knows, Births
  <1>3. agent' = agent \/ (~Unborn(agent'.node) /\ AgentKnown')
    BY <1>1, <1>2 DEF AgentKnown, HasToken
  <1>4. Harmless
    BY <1>1, NothingWritten
  <1>5. PICK at \in {"failed", "record"} : Later(r, at)
    BY <1>1
  <1> DEFINE next == [q EXCEPT !.at = at]
  <1>6. /\ ReqShape(next) /\ next.kind = "setup" /\ next.n = q.n /\ next.at = at
        /\ next.api = "form" /\ next.doc = q.doc /\ freq' = [freq EXCEPT ![r] = next]
    BY <1>1, <1>2, <1>5, DocOf, RequestAt DEF Later
  <1> HIDE DEF next
  <1>7. \A p : p = next => Knows(p)'
    BY <1>1, <1>2, <1>6 DEF Knows, HasToken
  <1> QED BY <1>1, <1>3, <1>4, <1>6, <1>7, GoOnStep

LEMMA RecordStep ==
  ASSUME FleetInv, NEW r \in FleetReq, RecordAgent(r)
  PROVE  FleetInv'
  <1> DEFINE q == freq[r]
             written == [node[q.n] EXCEPT !.token = q.doc.token]
  <1>1. /\ q.kind = "setup" /\ q.at = "record" /\ Later(r, "ok")
        /\ UNCHANGED <<there, agent, rewrote>>
    BY DEF RecordAgent, At_
  <1>2. HasToken(q.n, q.doc.token)
    BY <1>1 DEF FleetInv, Knows
  <1>3. CASE q.n \in there
    <2>1. Put(q.n, written) /\ DocShape(written) /\ written.token = q.doc.token
      <3>1. Put(q.n, written)
        BY <1>3 DEF RecordAgent
      <3>2. DocShape(node[q.n])
        BY <1>3, DocOf
      <3>3. \A x : DocShape([node[q.n] EXCEPT !.token = x]) /\ [node[q.n] EXCEPT !.token = x].token = x
        BY <3>2, EditShape
      <3> QED BY <3>1, <3>3
    <2> HIDE DEF written
    <2>2. Harmless
      BY <1>1, <1>2, <1>3, <2>1, OneWritten DEF HasToken
    <2> QED BY <1>1, <2>2, LaterStep
  <1>4. CASE q.n \notin there
    BY <1>1, <1>4, NothingWritten, LaterStep DEF RecordAgent
  <1> QED BY <1>3, <1>4

LEMMA BeginSteps ==
  ASSUME FleetInv, NEW r \in FleetReq,
         EditFleetNode(r) \/ GenerateSshKey(r) \/ SwitchNode(r) \/ SetupNode(r)
  PROVE  FleetInv'
  <1>1. CASE EditFleetNode(r)
    BY <1>1, BeginStep DEF EditFleetNode
  <1>2. CASE GenerateSshKey(r)
    BY <1>2, BeginStep DEF GenerateSshKey
  <1>3. CASE SwitchNode(r)
    BY <1>3, BeginStep DEF SwitchNode
  <1>4. CASE SetupNode(r)
    BY <1>4, BeginStep DEF SetupNode
  <1> QED BY <1>1, <1>2, <1>3, <1>4

LEMMA FleetStep == FleetInv /\ [FleetNext]_fleetVars => FleetInv'
  <1> SUFFICES ASSUME FleetInv, [FleetNext]_fleetVars PROVE FleetInv'
    OBVIOUS
  <1>1. CASE UNCHANGED fleetVars
    BY <1>1 DEF fleetVars, FleetInv, FleetShape, Births, Unborn, AgentKnown, Knows, HasToken
  <1>2. CASE FleetNext
    BY <1>2, CreateStep, InsertStep, BeginSteps, WriteFleetStep, CopyStep, StoreKeyStep, DeleteStep,
       PullStep, RuntimeStep, SwitchStep, TokenStep, HysteriaStep, KeysStep, XrayStep, AgentStep,
       RecordStep, SetupWritten DEF FleetNext
  <1> QED BY <1>1, <1>2

\* Whatever requests overlap, of however many operators: the token in a node's
\* document is the one the agent on its server was installed with, unless an
\* edit said in so many words that it replaces the token.
THEOREM TokenAgreesHolds == FleetSpec => []TokenAgrees
  <1>1. FleetInv => TokenAgrees
    BY DEF FleetInv, FleetShape, AgentKnown, HasToken, TokenAgrees
  <1> QED BY FleetInit_, FleetStep, <1>1, PTL DEF FleetSpec

-----------------------------------------------------------------------------
(***************************************************************************)
(* Subscription. A body is always some client's own rendering under its    *)
(* key, which is all OwnVariant needs. Freshness rests on what every       *)
(* request under way has read (ReadsAgree) and on the three caches: as     *)
(* long as nothing disturbed them, each agrees with the database or is     *)
(* still to be deleted by the editor that changed it, and no request runs  *)
(* until it is.                                                            *)
(***************************************************************************)

RuleSet == {"r0", "r1"}
Setting == [hide : BOOLEAN, rules : RuleSet]
RequestRecord ==
    [pc : {"idle", "settings", "lookup", "nodes", "generate"}, client : Applications,
     member : BOOLEAN, rules : RuleSet, online : BOOLEAN, hide : BOOLEAN,
     missed : SUBSET {"settings", "nodes"}]

SubTypes ==
    /\ db \in [online : BOOLEAN, member : BOOLEAN, hide : BOOLEAN, rules : RuleSet]
    /\ nodesKey \subseteq BOOLEAN
    /\ settingsKey \subseteq Setting
    /\ req \in [Req -> RequestRecord]
    /\ subs = [k \in Key |-> subs[k]]

\* What an editor may still have to delete.
SubTodo ==
    /\ todo \in {<<>>, <<{"nodes", "subs"}>>, <<{"nodes"}>>, <<{"subs"}>>,
                 <<{"settings"}, {"subs"}>>, <<{"settings"}>>}
    /\ routingSave => todo = <<>>
ToDelete == UNION {todo[i] : i \in DOMAIN todo}

\* Every body is one that an application reading under its key rendered.
Rendered ==
    \A k \in Key : \A b \in subs[k] :
        \E c \in Applications, list \in SUBSET {"a", "b", "v"}, rules \in RuleSet :
            k = CacheFormat(c) /\ b = Body(c, list, rules)

\* What a request has read is what the database says.
ReadsAgree ==
    \A r \in Req : req[r].pc # "idle" =>
        /\ todo = <<>>
        /\ req[r].member = db.member
        /\ req[r].pc \in {"lookup", "generate"} => req[r].hide = db.hide
        /\ req[r].pc = "lookup" => req[r].rules = db.rules
        /\ req[r].pc = "generate" => req[r].online = db.online

NodesFresh == "nodes" \notin ToDelete => nodesKey \subseteq {db.online}
SettingsFresh ==
    "settings" \notin ToDelete => settingsKey \subseteq {[hide |-> db.hide, rules |-> db.rules]}
BodiesFresh ==
    "subs" \notin ToDelete =>
        \A k \in Key : \A b \in subs[k] : b.list = ActiveNodes(db.member, db.online, db.hide)

FreshInv == ReadsAgree /\ NodesFresh /\ SettingsFresh /\ BodiesFresh

SubInv == SubTypes /\ SubTodo /\ Rendered /\ (~disturbed => FreshInv)

LEMMA NoReqIs == NoReq \in RequestRecord /\ NoReq.pc = "idle"
  BY DEF NoReq, RequestRecord, Applications, RuleSet

LEMMA SubInitInv == SubInit => SubInv
  <1> SUFFICES ASSUME SubInit PROVE SubInv
    OBVIOUS
  <1>1. SubTypes /\ SubTodo
    BY NoReqIs DEF SubInit, SubTypes, SubTodo, RuleSet, Setting
  <1>2. Rendered /\ BodiesFresh
    BY DEF SubInit, Rendered, BodiesFresh
  <1>3. ReadsAgree /\ NodesFresh /\ SettingsFresh
    BY NoReqIs DEF SubInit, ReadsAgree, NodesFresh, SettingsFresh
  <1> QED BY <1>1, <1>2, <1>3 DEF SubInv, FreshInv

LEMMA NothingToDelete == todo = <<>> => ToDelete = {}
  BY DEF ToDelete

LEMMA BodyList ==
  ASSUME NEW c, NEW list, NEW rules
  PROVE  Body(c, list, rules).list = list
  BY DEF Body

LEMMA CachedIs == ASSUME NEW key PROVE Cached(key) = {} \/ Cached(key) = key
  BY DEF Cached

\* What only a request moves leaves the database and the editors alone.
LEMMA ArriveInv ==
  ASSUME SubInv, NEW r \in Req, NEW c \in Client, Arrive(r, c)
  PROVE  SubInv'
  <1> DEFINE member == db.member
             new == [NoReq EXCEPT !.pc = "settings", !.client = c, !.member = member]
  <1>0. member \in BOOLEAN /\ c \in Applications
    BY ClientAssumption DEF SubInv, SubTypes
  <1>1. req' = [req EXCEPT ![r] = new] /\ new \in RequestRecord
        /\ new.pc = "settings" /\ new.member = member
    <2>1. req' = [req EXCEPT ![r] = new]
      BY DEF Arrive
    <2> HIDE DEF member
    <2>2. new \in RequestRecord /\ new.pc = "settings" /\ new.member = member
      BY <1>0, NoReqIs DEF RequestRecord
    <2> QED BY <2>1, <2>2
  <1>2. UNCHANGED <<db, todo, routingSave, nodesKey, settingsKey, subs>> /\ disturbed' = (disturbed \/ todo # <<>>)
    BY DEF Arrive, EditorSame
  <1>3. SubTypes'
    <2> HIDE DEF new
    <2> QED BY <1>1, <1>2 DEF SubInv, SubTypes
  <1>4. SubTodo' /\ Rendered'
    BY <1>2 DEF SubInv, SubTodo, Rendered
  <1>5. ASSUME ~disturbed' PROVE FreshInv'
    <2>1. ~disturbed /\ todo = <<>> /\ FreshInv
      BY <1>2, <1>5 DEF SubInv
    <2> HIDE DEF new
    <2>2. ReadsAgree'
      BY <1>1, <1>2, <2>1 DEF FreshInv, ReadsAgree, SubInv, SubTypes
    <2>3. NodesFresh' /\ SettingsFresh' /\ BodiesFresh'
      BY <1>2, <2>1 DEF FreshInv, NodesFresh, SettingsFresh, BodiesFresh, ToDelete
    <2> QED BY <2>2, <2>3 DEF FreshInv
  <1> QED BY <1>3, <1>4, <1>5 DEF SubInv

LEMMA ReadSettingsInv ==
  ASSUME SubInv, NEW r \in Req, ReadSettings(r)
  PROVE  SubInv'
  <1>1. PICK s \in IF Cached(settingsKey) # {} THEN settingsKey
                   ELSE {[hide |-> db.hide, rules |-> db.rules]} :
          req' = [req EXCEPT ![r].rules = s.rules, ![r].hide = s.hide, ![r].pc = "lookup",
                             ![r].missed = IF Cached(settingsKey) = {} THEN {"settings"} ELSE {}]
    BY DEF ReadSettings
  <1>2. UNCHANGED <<db, todo, routingSave, nodesKey, settingsKey, subs, disturbed>> /\ req[r].pc = "settings"
    BY DEF ReadSettings, EditorSame
  <1>3. s \in Setting
    BY <1>1 DEF SubInv, SubTypes, Setting
  <1>4. s.rules \in RuleSet /\ s.hide \in BOOLEAN
    BY <1>3 DEF Setting
  <1>5. SubTypes'
    <2> DEFINE missed == IF Cached(settingsKey) = {} THEN {"settings"} ELSE {}
               f1 == [req EXCEPT ![r].rules = s.rules]
               f2 == [f1 EXCEPT ![r].hide = s.hide]
               f3 == [f2 EXCEPT ![r].pc = "lookup"]
               f4 == [f3 EXCEPT ![r].missed = missed]
    <2>1. missed \in SUBSET {"settings", "nodes"} /\ req' = f4
      BY <1>1
    <2> HIDE DEF missed
    <2>2. f1 \in [Req -> RequestRecord]
      BY <1>4 DEF SubInv, SubTypes, RequestRecord
    <2> HIDE DEF f1
    <2>3. f2 \in [Req -> RequestRecord]
      BY <1>4, <2>2 DEF RequestRecord
    <2> HIDE DEF f2
    <2>4. f3 \in [Req -> RequestRecord]
      BY <2>3 DEF RequestRecord
    <2> HIDE DEF f3
    <2>5. f4 \in [Req -> RequestRecord]
      BY <2>1, <2>4 DEF RequestRecord
    <2> QED BY <1>2, <2>1, <2>5 DEF SubInv, SubTypes
  <1>6. SubTodo' /\ Rendered'
    BY <1>2 DEF SubInv, SubTodo, Rendered
  <1>7. ASSUME ~disturbed' PROVE FreshInv'
    <2>1. ~disturbed /\ todo = <<>> /\ FreshInv
      BY <1>2, <1>7 DEF SubInv, FreshInv, ReadsAgree
    <2>2. s = [hide |-> db.hide, rules |-> db.rules]
      BY <1>1, <2>1, NothingToDelete DEF FreshInv, SettingsFresh
    <2>3. s.hide = db.hide /\ s.rules = db.rules
      BY <2>2
    <2>4. /\ req'[r].pc = "lookup" /\ req'[r].hide = db.hide /\ req'[r].rules = db.rules
          /\ req'[r].member = req[r].member
          /\ \A q \in Req \ {r} : req'[q] = req[q]
      BY <1>1, <2>3 DEF SubInv, SubTypes, RequestRecord
    <2>5. ReadsAgree'
      BY <1>2, <2>1, <2>4 DEF FreshInv, ReadsAgree
    <2>6. NodesFresh' /\ SettingsFresh' /\ BodiesFresh'
      BY <1>2, <2>1 DEF FreshInv, NodesFresh, SettingsFresh, BodiesFresh, ToDelete
    <2> QED BY <2>5, <2>6 DEF FreshInv
  <1> QED BY <1>5, <1>6, <1>7 DEF SubInv

LEMMA LookupInv ==
  ASSUME SubInv, NEW r \in Req, Lookup(r)
  PROVE  SubInv'
  <1> DEFINE q == req[r]
  <1>1. /\ q.pc = "lookup" /\ UNCHANGED <<db, todo, routingSave, nodesKey, subs, disturbed>>
        /\ settingsKey' \in {settingsKey, {[hide |-> q.hide, rules |-> q.rules]}}
        /\ \/ req' = [req EXCEPT ![r] = NoReq]
           \/ req' = [req EXCEPT ![r] = [q EXCEPT !.pc = "nodes", !.missed = {}]]
    BY DEF Lookup, EditorSame
  <1>2. q.hide \in BOOLEAN /\ q.rules \in RuleSet
    BY DEF SubInv, SubTypes, RequestRecord
  <1>3. req' \in [Req -> RequestRecord]
    <2>1. q \in RequestRecord
      BY DEF SubInv, SubTypes
    <2> HIDE DEF q
    <2>2. [q EXCEPT !.pc = "nodes", !.missed = {}] \in RequestRecord
      BY <2>1 DEF RequestRecord
    <2> QED BY <1>1, <2>2, NoReqIs DEF SubInv, SubTypes, q
  <1>4. SubTypes'
    BY <1>1, <1>2, <1>3 DEF SubInv, SubTypes, Setting
  <1>5. SubTodo' /\ Rendered'
    BY <1>1 DEF SubInv, SubTodo, Rendered
  <1>6. ASSUME ~disturbed' PROVE FreshInv'
    <2>1. FreshInv /\ q.hide = db.hide /\ q.rules = db.rules
      BY <1>1, <1>6 DEF SubInv, FreshInv, ReadsAgree
    <2>2. /\ req'[r].pc \in {"idle", "nodes"} /\ (req'[r].pc # "idle" => req'[r].member = q.member)
          /\ \A p \in Req \ {r} : req'[p] = req[p]
      <3>0. q \in RequestRecord
        BY DEF SubInv, SubTypes
      <3> HIDE DEF q
      <3>1. [q EXCEPT !.pc = "nodes", !.missed = {}].pc = "nodes"
            /\ [q EXCEPT !.pc = "nodes", !.missed = {}].member = q.member
        BY <3>0 DEF RequestRecord
      <3> QED BY <1>1, <3>1, NoReqIs DEF SubInv, SubTypes, q
    <2>3. ReadsAgree'
      BY <1>1, <2>1, <2>2 DEF FreshInv, ReadsAgree
    <2>4. NodesFresh' /\ SettingsFresh' /\ BodiesFresh'
      BY <1>1, <2>1 DEF FreshInv, NodesFresh, SettingsFresh, BodiesFresh, ToDelete
    <2> QED BY <2>3, <2>4 DEF FreshInv
  <1> QED BY <1>4, <1>5, <1>6 DEF SubInv

LEMMA ReadNodesInv ==
  ASSUME SubInv, NEW r \in Req, ReadNodes(r)
  PROVE  SubInv'
  <1>1. PICK n \in IF Cached(nodesKey) # {} THEN nodesKey ELSE {db.online},
             s \in IF Cached(settingsKey) # {} THEN settingsKey
                   ELSE {[hide |-> db.hide, rules |-> db.rules]} :
          req' = [req EXCEPT ![r].online = n, ![r].hide = s.hide, ![r].pc = "generate",
                             ![r].missed = IF Cached(nodesKey) = {} THEN {"nodes"} ELSE {}]
    BY DEF ReadNodes
  <1>2. UNCHANGED <<db, todo, routingSave, nodesKey, settingsKey, subs, disturbed>> /\ req[r].pc = "nodes"
    BY DEF ReadNodes, EditorSame
  <1>3. n \in BOOLEAN /\ s \in Setting
    BY <1>1 DEF SubInv, SubTypes, Setting
  <1>4. s.hide \in BOOLEAN
    BY <1>3 DEF Setting
  <1>5. SubTypes'
    <2> DEFINE missed == IF Cached(nodesKey) = {} THEN {"nodes"} ELSE {}
               f1 == [req EXCEPT ![r].online = n]
               f2 == [f1 EXCEPT ![r].hide = s.hide]
               f3 == [f2 EXCEPT ![r].pc = "generate"]
               f4 == [f3 EXCEPT ![r].missed = missed]
    <2>1. missed \in SUBSET {"settings", "nodes"} /\ req' = f4
      BY <1>1
    <2> HIDE DEF missed
    <2>2. f1 \in [Req -> RequestRecord]
      BY <1>3 DEF SubInv, SubTypes, RequestRecord
    <2> HIDE DEF f1
    <2>3. f2 \in [Req -> RequestRecord]
      BY <1>4, <2>2 DEF RequestRecord
    <2> HIDE DEF f2
    <2>4. f3 \in [Req -> RequestRecord]
      BY <2>3 DEF RequestRecord
    <2> HIDE DEF f3
    <2>5. f4 \in [Req -> RequestRecord]
      BY <2>1, <2>4 DEF RequestRecord
    <2> QED BY <1>2, <2>1, <2>5 DEF SubInv, SubTypes
  <1>6. SubTodo' /\ Rendered'
    BY <1>2 DEF SubInv, SubTodo, Rendered
  <1>7. ASSUME ~disturbed' PROVE FreshInv'
    <2>1. ~disturbed /\ todo = <<>> /\ FreshInv
      BY <1>2, <1>7 DEF SubInv, FreshInv, ReadsAgree
    <2>2. s = [hide |-> db.hide, rules |-> db.rules] /\ n = db.online
      BY <1>1, <2>1, NothingToDelete DEF FreshInv, SettingsFresh, NodesFresh
    <2>3. /\ req'[r].pc = "generate" /\ req'[r].hide = db.hide /\ req'[r].online = db.online
          /\ req'[r].member = req[r].member
          /\ \A q \in Req \ {r} : req'[q] = req[q]
      BY <1>1, <2>2 DEF SubInv, SubTypes, RequestRecord
    <2>4. ReadsAgree'
      BY <1>2, <2>1, <2>3 DEF FreshInv, ReadsAgree
    <2>5. NodesFresh' /\ SettingsFresh' /\ BodiesFresh'
      BY <1>2, <2>1 DEF FreshInv, NodesFresh, SettingsFresh, BodiesFresh, ToDelete
    <2> QED BY <2>4, <2>5 DEF FreshInv
  <1> QED BY <1>5, <1>6, <1>7 DEF SubInv

LEMMA GenerateInv ==
  ASSUME SubInv, NEW r \in Req, Generate(r)
  PROVE  SubInv'
  <1> DEFINE q == req[r]
             list == ActiveNodes(q.member, q.online, q.hide)
             body == Body(q.client, list, q.rules)
  <1>1. /\ q.pc = "generate" /\ UNCHANGED <<db, todo, routingSave, settingsKey, disturbed>>
        /\ nodesKey' \in {nodesKey, {q.online}}
        /\ \/ subs' = [subs EXCEPT ![CacheFormat(q.client)] = {body}]
           \/ subs' = subs
        /\ req' = [req EXCEPT ![r] = NoReq]
    BY DEF Generate, EditorSame
  <1>2. q.online \in BOOLEAN /\ q.rules \in RuleSet /\ q.client \in Applications
    BY DEF SubInv, SubTypes, RequestRecord
  <1>3. list \in SUBSET {"a", "b", "v"}
    BY DEF ActiveNodes
  <1>4. CacheFormat(q.client) \in Key
    BY <1>2 DEF Key
  <1> HIDE DEF list
  <1>5. body.list = list
    BY BodyList
  <1>6. \A k \in Key : \A b \in subs'[k] : b \in subs[k] \/ (k = CacheFormat(q.client) /\ b = body)
    <2> HIDE DEF body
    <2> QED BY <1>1, <1>4 DEF SubInv, SubTypes
  <1>7. NoReq \in RequestRecord
    BY NoReqIs
  <1>8. SubTypes'
    <2> HIDE DEF body
    <2> QED BY <1>1, <1>2, <1>7 DEF SubInv, SubTypes
  <1>9. SubTodo' /\ Rendered'
    <2>1. Rendered'
      BY <1>2, <1>3, <1>6 DEF SubInv, Rendered
    <2> QED BY <1>1, <2>1 DEF SubInv, SubTodo
  <1>10. ASSUME ~disturbed' PROVE FreshInv'
    <2>1. /\ FreshInv /\ q.hide = db.hide /\ q.member = db.member /\ q.online = db.online
      BY <1>1, <1>10 DEF SubInv, FreshInv, ReadsAgree
    <2>2. req'[r].pc = "idle" /\ \A p \in Req \ {r} : req'[p] = req[p]
      BY <1>1, NoReqIs DEF SubInv, SubTypes
    <2>3. ReadsAgree'
      BY <1>1, <2>1, <2>2 DEF FreshInv, ReadsAgree
    <2>4. list = ActiveNodes(db.member, db.online, db.hide)
      BY <2>1 DEF list
    <2>5. NodesFresh' /\ SettingsFresh'
      BY <1>1, <2>1 DEF FreshInv, NodesFresh, SettingsFresh, ToDelete
    <2>6. BodiesFresh'
      <3> HIDE DEF body
      <3> QED BY <1>1, <1>5, <1>6, <2>1, <2>4 DEF FreshInv, BodiesFresh, ToDelete
    <2> QED BY <2>3, <2>5, <2>6 DEF FreshInv
  <1> QED BY <1>8, <1>9, <1>10 DEF SubInv

-----------------------------------------------------------------------------
\* A change of the database that leaves the caches to the editor.
LEMMA ChangeFresh ==
  ASSUME SubInv, UNCHANGED <<nodesKey, settingsKey, subs, req>>, todo = <<>>,
         disturbed' = (disturbed \/ InFlight),
         db' \in [online : BOOLEAN, member : BOOLEAN, hide : BOOLEAN, rules : RuleSet],
         SubTodo',
         "nodes" \in ToDelete' \/ db'.online = db.online,
         "settings" \in ToDelete' \/ (db'.hide = db.hide /\ db'.rules = db.rules),
         "subs" \in ToDelete' \/ (db'.online = db.online /\ db'.hide = db.hide /\ db'.member = db.member)
  PROVE  SubInv'
  <1>1. SubTypes' /\ Rendered'
    BY DEF SubInv, SubTypes, Rendered
  <1>2. ASSUME ~disturbed' PROVE FreshInv'
    <2>1. FreshInv /\ \A r \in Req : req[r].pc = "idle"
      BY <1>2 DEF SubInv, InFlight
    <2>2. ToDelete = {}
      BY NothingToDelete
    <2>3. ReadsAgree'
      BY <2>1 DEF ReadsAgree
    <2>4. NodesFresh' /\ SettingsFresh' /\ BodiesFresh'
      BY <2>1, <2>2 DEF FreshInv, NodesFresh, SettingsFresh, BodiesFresh
    <2> QED BY <2>3, <2>4 DEF FreshInv
  <1> QED BY <1>1, <1>2 DEF SubInv

LEMMA EditInv ==
  ASSUME SubInv, NodeChange \/ UserChange \/ SystemChange \/ EndRoutingSave
  PROVE  SubInv'
  <1>1. CASE NodeChange
    <2>1. /\ todo = <<>> /\ UNCHANGED <<nodesKey, settingsKey, subs, req>>
          /\ db' = [db EXCEPT !.online = ~@] /\ todo' = <<{"nodes", "subs"}>>
          /\ disturbed' = (disturbed \/ InFlight) /\ ~routingSave'
      BY <1>1 DEF NodeChange, Change
    <2>2. /\ db' \in [online : BOOLEAN, member : BOOLEAN, hide : BOOLEAN, rules : RuleSet]
          /\ db'.hide = db.hide /\ db'.rules = db.rules
      BY <2>1 DEF SubInv, SubTypes
    <2>3. ToDelete' = {"nodes", "subs"}
      BY <2>1 DEF ToDelete
    <2> QED BY <2>1, <2>2, <2>3, ChangeFresh DEF SubTodo
  <1>2. CASE UserChange
    <2>1. /\ todo = <<>> /\ UNCHANGED <<nodesKey, settingsKey, subs, req>>
          /\ db' = [db EXCEPT !.member = ~@] /\ todo' = <<{"subs"}>>
          /\ disturbed' = (disturbed \/ InFlight) /\ ~routingSave'
      BY <1>2 DEF UserChange, Change
    <2>2. /\ db' \in [online : BOOLEAN, member : BOOLEAN, hide : BOOLEAN, rules : RuleSet]
          /\ db'.hide = db.hide /\ db'.rules = db.rules /\ db'.online = db.online
      BY <2>1 DEF SubInv, SubTypes
    <2>3. ToDelete' = {"subs"}
      BY <2>1 DEF ToDelete
    <2> QED BY <2>1, <2>2, <2>3, ChangeFresh DEF SubTodo
  <1>3. CASE SystemChange
    <2>1. /\ todo = <<>> /\ UNCHANGED <<nodesKey, settingsKey, subs, req>>
          /\ db' = [db EXCEPT !.hide = ~@] /\ todo' = <<{"settings"}, {"subs"}>>
          /\ disturbed' = (disturbed \/ InFlight) /\ ~routingSave'
      BY <1>3 DEF SystemChange, Change
    <2>2. /\ db' \in [online : BOOLEAN, member : BOOLEAN, hide : BOOLEAN, rules : RuleSet]
          /\ db'.online = db.online
      BY <2>1 DEF SubInv, SubTypes
    <2>3. "settings" \in ToDelete' /\ "subs" \in ToDelete'
      BY <2>1 DEF ToDelete
    <2> QED BY <2>1, <2>2, <2>3, ChangeFresh DEF SubTodo
  <1>4. CASE EndRoutingSave
    <2>1. /\ UNCHANGED <<nodesKey, settingsKey, subs, req>>
          /\ db' = [db EXCEPT !.rules = IF @ = "r0" THEN "r1" ELSE "r0"] /\ todo' = <<{"settings"}>>
          /\ disturbed' = (disturbed \/ InFlight) /\ todo = <<>> /\ ~routingSave'
      BY <1>4 DEF EndRoutingSave, SubInv, SubTodo
    <2>2. /\ db' \in [online : BOOLEAN, member : BOOLEAN, hide : BOOLEAN, rules : RuleSet]
          /\ db'.online = db.online /\ db'.hide = db.hide /\ db'.member = db.member
      BY <2>1 DEF SubInv, SubTypes, RuleSet
    <2>3. ToDelete' = {"settings"}
      BY <2>1 DEF ToDelete
    <2> QED BY <1>4, <2>1, <2>2, <2>3, ChangeFresh DEF SubTodo
  <1> QED BY <1>1, <1>2, <1>3, <1>4

\* A deletion leaves of the others what there was.
LEMMA InvalidateInv ==
  ASSUME SubInv, NEW what \in {"nodes", "settings", "subs"}, Invalidate(what)
  PROVE  SubInv'
  <1>1. /\ todo # <<>> /\ what \in Head(todo) /\ UNCHANGED <<db, req, routingSave>>
        /\ todo' = IF Head(todo) = {what} THEN Tail(todo) ELSE [todo EXCEPT ![1] = @ \ {what}]
        /\ nodesKey' = IF redis /\ what = "nodes" THEN {} ELSE nodesKey
        /\ settingsKey' = IF redis /\ what = "settings" THEN {} ELSE settingsKey
        /\ subs' = IF redis /\ what = "subs" THEN [k \in Key |-> {}] ELSE subs
        /\ disturbed' = (disturbed \/ ~redis)
    BY DEF Invalidate
  <1>2. SubTodo' /\ ToDelete' = ToDelete \ {what}
    <2>1. CASE todo = <<{"nodes", "subs"}>>
      <3>1. Head(todo) # {what} /\ Len(todo) = 1 /\ todo[1] = {"nodes", "subs"}
        BY <2>1, <1>1
      <3>2. todo' = <<{"nodes", "subs"} \ {what}>> /\ what \in {"nodes", "subs"}
        BY <2>1, <3>1, <1>1
      <3>3. todo' \in {<<{"nodes"}>>, <<{"subs"}>>}
        <4>1. CASE what = "nodes"
          <5>1. {"nodes", "subs"} \ {what} = {"subs"}
            BY <4>1
          <5> QED BY <3>2, <5>1
        <4>2. CASE what = "subs"
          <5>1. {"nodes", "subs"} \ {what} = {"nodes"}
            BY <4>2
          <5> QED BY <3>2, <5>1
        <4> QED BY <3>2, <4>1, <4>2
      <3> QED BY <2>1, <3>2, <3>3, <1>1 DEF SubTodo, ToDelete, SubInv
    <2>2. CASE todo = <<{"nodes"}>> \/ todo = <<{"subs"}>> \/ todo = <<{"settings"}>>
      <3>1. Head(todo) = {what} /\ todo = <<{what}>> /\ todo' = <<>>
        BY <2>2, <1>1
      <3> QED BY <3>1, <1>1 DEF SubTodo, ToDelete, SubInv
    <2>3. CASE todo = <<{"settings"}, {"subs"}>>
      <3>1. what = "settings" /\ todo' = <<{"subs"}>>
        BY <2>3, <1>1
      <3> QED BY <2>3, <3>1, <1>1 DEF SubTodo, ToDelete, SubInv
    <2> QED BY <1>1, <2>1, <2>2, <2>3 DEF SubInv, SubTodo
  <1>3. SubTypes' /\ Rendered'
    BY <1>1 DEF SubInv, SubTypes, Rendered
  <1>4. ASSUME ~disturbed' PROVE FreshInv'
    <2>1. FreshInv /\ redis
      BY <1>1, <1>4 DEF SubInv
    <2>2. ReadsAgree'
      BY <1>1, <2>1 DEF FreshInv, ReadsAgree
    <2>3. NodesFresh' /\ SettingsFresh'
      BY <1>1, <1>2, <2>1 DEF FreshInv, NodesFresh, SettingsFresh
    <2>4. BodiesFresh'
      BY <1>1, <1>2, <2>1 DEF FreshInv, BodiesFresh
    <2> QED BY <2>2, <2>3, <2>4 DEF FreshInv
  <1> QED BY <1>2, <1>3, <1>4 DEF SubInv

\* Caches that only lose what they hold stay as fresh as they were.
LEMMA LessCached ==
  ASSUME SubInv, UNCHANGED <<db, req, todo>>, SubTodo',
         nodesKey' \subseteq nodesKey, settingsKey' \subseteq settingsKey,
         subs' = [k \in Key |-> subs'[k]], \A k \in Key : subs'[k] \subseteq subs[k]
  PROVE  /\ SubTypes' /\ Rendered'
         /\ ~disturbed => FreshInv'
  <1>1. SubTypes' /\ Rendered'
    BY DEF SubInv, SubTypes, Rendered
  <1>2. ASSUME ~disturbed PROVE FreshInv'
    <2>1. FreshInv
      BY <1>2 DEF SubInv
    <2>2. ReadsAgree' /\ NodesFresh' /\ SettingsFresh'
      BY <2>1 DEF FreshInv, ReadsAgree, NodesFresh, SettingsFresh, ToDelete
    <2>3. BodiesFresh'
      BY <2>1 DEF FreshInv, BodiesFresh, ToDelete
    <2> QED BY <2>2, <2>3 DEF FreshInv
  <1> QED BY <1>1, <1>2

LEMMA BeginRoutingSaveInv ==
  ASSUME SubInv, BeginRoutingSave
  PROVE  SubInv'
  <1>1. /\ todo = <<>> /\ UNCHANGED <<db, nodesKey, settingsKey, req, todo>>
        /\ subs' = IF redis THEN [k \in Key |-> {}] ELSE subs
        /\ disturbed' = (disturbed \/ ~redis)
    BY DEF BeginRoutingSave
  <1>2. SubTodo'
    BY <1>1 DEF SubInv, SubTodo
  <1>3. subs' = [k \in Key |-> subs'[k]] /\ \A k \in Key : subs'[k] \subseteq subs[k]
    BY <1>1 DEF SubInv, SubTypes
  <1>4. /\ SubTypes' /\ Rendered'
        /\ ~disturbed' => FreshInv'
    <2>1. CASE redis
      BY <1>1, <1>2, <1>3, <2>1, LessCached
    <2>2. CASE ~redis
      BY <1>1, <2>2 DEF SubInv, SubTypes, Rendered
    <2> QED BY <2>1, <2>2
  <1> QED BY <1>2, <1>4 DEF SubInv

\* Once all keys are gone no request is under way, and there is nothing stale.
LEMMA ExpireInv ==
  ASSUME SubInv, Expire
  PROVE  SubInv'
  <1>1. /\ UNCHANGED <<db, req, todo, routingSave>>
        /\ disturbed' = (disturbed /\ ~(/\ ~InFlight /\ todo = <<>>
                                        /\ nodesKey' = {} /\ settingsKey' = {}
                                        /\ \A k \in Key : subs'[k] = {}))
        /\ \/ nodesKey' = {} /\ UNCHANGED <<settingsKey, subs>>
           \/ settingsKey' = {} /\ UNCHANGED <<nodesKey, subs>>
           \/ \E k \in Key : subs' = [subs EXCEPT ![k] = {}] /\ UNCHANGED <<nodesKey, settingsKey>>
    BY DEF Expire
  <1>2. SubTodo'
    BY <1>1 DEF SubInv, SubTodo
  <1>3. subs' = [k \in Key |-> subs'[k]] /\ \A k \in Key : subs'[k] \subseteq subs[k]
    BY <1>1 DEF SubInv, SubTypes
  <1>4. nodesKey' \subseteq nodesKey /\ settingsKey' \subseteq settingsKey
    BY <1>1
  <1>5. /\ SubTypes' /\ Rendered'
        /\ ~disturbed => FreshInv'
    BY <1>1, <1>2, <1>3, <1>4, LessCached
  <1>6. ASSUME disturbed, ~disturbed' PROVE FreshInv'
    <2>1. /\ ~InFlight /\ nodesKey' = {} /\ settingsKey' = {} /\ \A k \in Key : subs'[k] = {}
      BY <1>1, <1>6
    <2>2. ReadsAgree'
      BY <1>1, <2>1 DEF ReadsAgree, InFlight
    <2>3. NodesFresh' /\ SettingsFresh' /\ BodiesFresh'
      BY <2>1 DEF NodesFresh, SettingsFresh, BodiesFresh
    <2> QED BY <2>2, <2>3 DEF FreshInv
  <1> QED BY <1>2, <1>5, <1>6 DEF SubInv

LEMMA SubSame == SubInv /\ UNCHANGED <<db, nodesKey, settingsKey, subs, req, todo, routingSave, disturbed>> => SubInv'
  <1> SUFFICES ASSUME SubInv, UNCHANGED <<db, nodesKey, settingsKey, subs, req, todo, routingSave, disturbed>>
               PROVE  SubInv'
    OBVIOUS
  <1>1. SubTypes' /\ SubTodo' /\ Rendered'
    BY DEF SubInv, SubTypes, SubTodo, Rendered
  <1>2. ASSUME FreshInv PROVE FreshInv'
    <2>1. ReadsAgree'
      BY <1>2 DEF FreshInv, ReadsAgree
    <2>2. NodesFresh' /\ SettingsFresh' /\ BodiesFresh'
      BY <1>2 DEF FreshInv, NodesFresh, SettingsFresh, BodiesFresh, ToDelete
    <2> QED BY <2>1, <2>2 DEF FreshInv
  <1> QED BY <1>1, <1>2 DEF SubInv

LEMMA SubStep == SubInv /\ [SubNext]_subVars => SubInv'
  <1> SUFFICES ASSUME SubInv, [SubNext]_subVars PROVE SubInv'
    OBVIOUS
  <1>1. CASE RedisFlaps \/ UNCHANGED subVars
    BY <1>1, SubSame DEF RedisFlaps, subVars
  <1> QED BY <1>1, ArriveInv, ReadSettingsInv, LookupInv, ReadNodesInv, GenerateInv, EditInv,
             BeginRoutingSaveInv, InvalidateInv, ExpireInv DEF SubNext

\* A rendered body is one that every application reading under its key can use.
LEMMA RenderedIsOwn == SubTypes /\ Rendered => OwnVariant
  <1> SUFFICES ASSUME Rendered, NEW c \in Client, NEW b \in subs[CacheFormat(c)]
               PROVE  /\ b.shape = Shape(c, b.list)
                      /\ "ios" \in b.rules <=> c = "happ-ios" /\ b.shape # "list"
    BY DEF OwnVariant
  <1>1. c \in Applications /\ CacheFormat(c) \in Key
    BY ClientAssumption DEF Key
  <1>2. PICK d \in Applications, list \in SUBSET {"a", "b", "v"}, rules \in RuleSet :
            CacheFormat(c) = CacheFormat(d) /\ b = Body(d, list, rules)
    BY <1>1 DEF Rendered
  <1>3. XrayProfileClient(c) <=> XrayProfileClient(d)
    BY <1>1, <1>2 DEF CacheFormat, XrayProfileClient, Applications
  <1>4. c = "clash" <=> d = "clash"
    BY <1>1, <1>2 DEF CacheFormat, XrayProfileClient, Applications
  <1>5. c = "happ-ios" <=> d = "happ-ios"
    BY <1>1, <1>2 DEF CacheFormat, XrayProfileClient, Applications
  <1>6. b.list = list /\ b.shape = Shape(d, list)
        /\ b.rules = IF Shape(d, list) = "list" THEN {} ELSE IF d = "happ-ios" THEN {"ios"} ELSE {rules}
    BY <1>2 DEF Body
  <1>7. Shape(c, list) = Shape(d, list)
    BY <1>3, <1>4 DEF Shape
  <1> QED BY <1>5, <1>6, <1>7 DEF RuleSet

\* Whatever order requests, edits, expiries and failures of Redis come in, and
\* whichever applications a user has: a cached body suits every application that
\* reads under its key (cacheFormat of serveSubscription in subscription.js).
THEOREM OwnVariantHolds == SubSpec => []OwnVariant
  <1>1. SubInv => OwnVariant
    BY RenderedIsOwn DEF SubInv
  <1> QED BY <1>1, SubInitInv, SubStep, PTL DEF SubSpec

\* Whatever order requests, edits and expiries come in: once a change is through,
\* no cached body lists servers the user does not have now, unless a request
\* overlapped the change or Redis missed a deletion (serveSubscription and the
\* cache deletions in the routes that edit).
THEOREM FreshUnlessDisturbedHolds == SubSpec => []FreshUnlessDisturbed
  <1>1. SubInv => FreshUnlessDisturbed
    BY NothingToDelete DEF SubInv, FreshInv, BodiesFresh, FreshUnlessDisturbed
  <1> QED BY <1>1, SubInitInv, SubStep, PTL DEF SubSpec

\* A subscription served from the cache is one its application can read and, with
\* the exceptions above, up to date: for any applications, requests and changes.
THEOREM CacheIsSoundHolds == SubSpec => []CacheIsSound
  BY OwnVariantHolds, FreshUnlessDisturbedHolds, PTL DEF CacheIsSound

-----------------------------------------------------------------------------
(***************************************************************************)
(* L2tpRelay. RollbackRestores rests on what the operation's directory says *)
(* (Traced): the backup is of the files the operation found, what ran is    *)
(* recorded before the first service is touched and never again, however   *)
(* often the scripts are killed and executed again; and on how far the     *)
(* current execution is (Laid): what each step left is not undone by the   *)
(* next.                                                                   *)
(***************************************************************************)

RelayFile == {"ipsec", "xl2tpd", "chap", "nft", "xray"}
Staged    == {"ipsec", "xl2tpd", "chap", "nft"}
L2tpUnit  == {"strongswan", "xl2tp"}
RelayUnit == {"strongswan", "xl2tp", "xray"}
NsPart    == {"table", "rule", "route"}

DirType == [backup : SUBSET [RelayFile -> Nat], state : BOOLEAN, firewall : BOOLEAN,
            xrayWas : SUBSET BOOLEAN, unitsWere : SUBSET SUBSET L2tpUnit, verified : BOOLEAN]
NodeType == [file : [RelayFile -> Nat], ns : SUBSET NsPart,
             unit : [RelayUnit -> SUBSET Nat], dir : DirType]

\* The directory of `n` is that of an operation which found what `task` says.
Traced(n) ==
    /\ n.dir.backup \in {{}, {task.file}}
    /\ n.dir.backup = {} =>
          /\ n.file = task.file /\ n.unit = task.unit /\ n.ns = task.ns
          /\ ~n.dir.firewall /\ n.dir.xrayWas = {} /\ n.dir.unitsWere = {}
    /\ n.dir.xrayWas \in {{}, {task.unit["xray"] # {}}}
    /\ n.dir.xrayWas = {} => n.unit["xray"] = task.unit["xray"]
    /\ n.dir.unitsWere \in {{}, {{u \in L2tpUnit : task.unit[u] # {}}}}
    /\ n.dir.unitsWere = {} => \A u \in L2tpUnit : n.unit[u] = task.unit[u]
\* Without a marker the namespace is the one it found, or gone.
Marked(n) == ~n.dir.firewall => n.ns \in {{}, task.ns}

\* What an installation has done before its i-th step.
Laid(n, i) ==
    /\ i > 2 => n.dir.backup # {}
    /\ i > 3 => \A f \in Staged : n.file[f] = task.n
    /\ i > 5 => n.unit["xray"] = {task.n}
    /\ i > 6 => n.ns = NsPart
    /\ i > 7 => \A u \in L2tpUnit : n.unit[u] = {task.n}

LEMMA RelayNames ==
  /\ ToSet(StagedFiles) = Staged /\ ToSet(ManagedPaths) = RelayFile
  /\ ToSet(L2tpUnits) = L2tpUnit /\ ToSet(Namespace) = NsPart
  /\ DOMAIN Config = RelayUnit /\ \A u \in RelayUnit : Config[u] \in RelayFile
  /\ Config["xray"] = "xray" /\ Config["strongswan"] = "ipsec" /\ Config["xl2tp"] = "xl2tpd"
  BY DEF ToSet, StagedFiles, ManagedPaths, L2tpUnits, Namespace, Config, Staged, RelayFile,
         L2tpUnit, NsPart, RelayUnit

-----------------------------------------------------------------------------
(* What one change of a node leaves as it was.                              *)

LEMMA WriteIs ==
  ASSUME NEW n \in NodeType, NEW S, NEW content \in [RelayFile -> Nat]
  PROVE  LET m == Write(n, S, content) IN
         /\ m \in NodeType /\ m.ns = n.ns /\ m.unit = n.unit /\ m.dir = n.dir
         /\ \A f \in RelayFile : m.file[f] = IF f \in S THEN content[f] ELSE n.file[f]
  BY DEF Write, NodeType

LEMMA PutIs ==
  ASSUME NEW n \in NodeType, NEW f \in RelayFile, NEW c \in Nat
  PROVE  LET m == [n EXCEPT !.file[f] = c] IN
         /\ m \in NodeType /\ m.ns = n.ns /\ m.unit = n.unit /\ m.dir = n.dir
         /\ \A g \in RelayFile : m.file[g] = IF g = f THEN c ELSE n.file[g]
  BY DEF NodeType

LEMMA RunIs ==
  ASSUME NEW n \in NodeType, NEW u \in RelayUnit
  PROVE  LET m == Run(n, u) IN
         /\ m \in NodeType /\ m.ns = n.ns /\ m.file = n.file /\ m.dir = n.dir
         /\ \A v \in RelayUnit : m.unit[v] = IF v = u THEN {n.file[Config[u]]} ELSE n.unit[v]
  BY RelayNames DEF Run, NodeType

LEMMA HaltIs ==
  ASSUME NEW n \in NodeType, NEW u \in RelayUnit
  PROVE  LET m == Halt(n, u) IN
         /\ m \in NodeType /\ m.ns = n.ns /\ m.file = n.file /\ m.dir = n.dir
         /\ \A v \in RelayUnit : m.unit[v] = IF v = u THEN {} ELSE n.unit[v]
  BY DEF Halt, NodeType

LEMMA DirIs ==
  ASSUME NEW n \in NodeType, NEW d \in DirType
  PROVE  LET m == [n EXCEPT !.dir = d] IN
         /\ m \in NodeType /\ m.ns = n.ns /\ m.file = n.file /\ m.unit = n.unit /\ m.dir = d
  BY DEF NodeType

LEMMA NsIs ==
  ASSUME NEW n \in NodeType, NEW S \in SUBSET NsPart
  PROVE  LET m == [n EXCEPT !.ns = S] IN
         /\ m \in NodeType /\ m.ns = S /\ m.file = n.file /\ m.unit = n.unit /\ m.dir = n.dir
  BY DEF NodeType

LEMMA NsParts == \A S \in Begun(Namespace) : S \subseteq NsPart
  BY DEF Begun, Prefixes, ToSet, Namespace, NsPart

TaskFound == task.file \in [RelayFile -> Nat] /\ task.unit \in [RelayUnit -> SUBSET Nat]

\* `m` is a node of the same operation as `n`, whose backup it kept.
Follows(n, m) ==
    m \in NodeType /\ Traced(m) /\ (n.dir.backup # {} => m.dir.backup # {})

Follow(n, script) ==
    /\ \A m \in script.ok \cup script.err : Follows(n, m) /\ (Marked(n) => Marked(m))
    /\ \A m \in script.cut : Follows(n, m)

LEMMA FollowIs ==
  ASSUME NEW n, NEW ok, NEW err, NEW cut
  PROVE  /\ Script(ok, err, cut).ok = ok
         /\ Follow(n, Script(ok, err, cut)) <=>
               /\ \A m \in ok \cup err : Follows(n, m) /\ (Marked(n) => Marked(m))
               /\ \A m \in cut : Follows(n, m)
  <1>1. Script(ok, err, cut).ok = ok /\ Script(ok, err, cut).err = err /\ Script(ok, err, cut).cut = cut
    BY DEF Script
  <1> HIDE DEF Script
  <1> QED BY <1>1 DEF Follow

LEMMA SelfFollows ==
  ASSUME NEW n \in NodeType, Traced(n)
  PROVE  Follows(n, n)
  BY DEF Follows, Traced, Marked

\* A script that refuses changes nothing.
LEMMA RefusalFollows ==
  ASSUME NEW n \in NodeType, Traced(n)
  PROVE  Follow(n, Script({}, {n}, {n})) /\ Script({}, {n}, {n}).ok = {}
  <1>1. \A m \in {} \cup {n} : Follows(n, m) /\ (Marked(n) => Marked(m))
    BY SelfFollows
  <1>2. \A m \in {n} : Follows(n, m)
    BY SelfFollows
  <1>3. Follow(n, Script({}, {n}, {n}))
    BY <1>1, <1>2, FollowIs
  <1>4. Script({}, {n}, {n}).ok = {}
    BY FollowIs
  <1> QED BY <1>3, <1>4

LEMMA CheckFollows ==
  ASSUME NEW n \in NodeType, Traced(n)
  PROVE  Follow(n, Check(n))
  <1>1. Check(n) = Script({n}, {n}, {n})
    BY DEF Check
  <1>2. Follow(n, Script({n}, {n}, {n}))
    BY SelfFollows, FollowIs
  <1> QED BY <1>1, <1>2

LEMMA BackupFollows ==
  ASSUME NEW n \in NodeType, Traced(n), TaskFound
  PROVE  /\ Follow(n, Backup(n))
         /\ \A m \in Backup(n).ok : m.dir.backup # {}
  <1> DEFINE b == IF n.dir.backup = {} THEN {n.file} ELSE n.dir.backup
             d == [n.dir EXCEPT !.backup = b]
             done == [n EXCEPT !.dir = d]
  <1>1. Backup(n) = Script({done}, {n}, {n, done})
    BY DEF Backup, NodeType, DirType
  <1>2. d \in DirType /\ d = [n.dir EXCEPT !.backup = b] /\ d.backup = b /\ d.firewall = n.dir.firewall
        /\ d.xrayWas = n.dir.xrayWas /\ d.unitsWere = n.dir.unitsWere
    BY DEF NodeType, DirType
  <1> HIDE DEF d
  <1>3. done \in NodeType /\ done.ns = n.ns /\ done.file = n.file /\ done.unit = n.unit /\ done.dir = d
    BY <1>2, DirIs
  <1> HIDE DEF done
  <1>4. b \in {{task.file}} /\ b # {}
    BY DEF Traced, TaskFound
  <1> HIDE DEF b
  <1>5. Traced(done) /\ (Marked(n) => Marked(done))
    BY <1>2, <1>3, <1>4 DEF Traced, Marked
  <1>6. Follows(n, done) /\ (Marked(n) => Marked(done)) /\ done.dir.backup # {}
    BY <1>2, <1>3, <1>4, <1>5 DEF Follows
  <1>7. Follow(n, Script({done}, {n}, {n, done})) /\ Script({done}, {n}, {n, done}).ok = {done}
    <2>1. Follow(n, Script({done}, {n}, {n, done}))
      BY <1>6, SelfFollows, FollowIs
    <2>2. Script({done}, {n}, {n, done}).ok = {done}
      BY FollowIs
    <2> QED BY <2>1, <2>2
  <1> QED BY <1>1, <1>6, <1>7

LEMMA StageFollows ==
  ASSUME NEW n \in NodeType, Traced(n), NEW c \in Nat,
         n.dir.backup # {}
  PROVE  /\ Follow(n, Stage(n, c))
         /\ \A m \in Stage(n, c).ok : \A f \in Staged : m.file[f] = c
  <1> DEFINE to == [f \in DOMAIN n.file |-> c]
             part == {Write(n, S, to) : S \in Begun(StagedFiles)}
  <1>1. Stage(n, c) = Script({Write(n, Staged, to)}, part, part)
    BY RelayNames DEF Stage
  <1>2. to \in [RelayFile -> Nat] /\ \A f \in Staged : f \in RelayFile /\ to[f] = c
    BY DEF NodeType, Staged, RelayFile
  <1> HIDE DEF to
  <1>3. \A S : Follows(n, Write(n, S, to)) /\ (Marked(n) => Marked(Write(n, S, to)))
    <2> TAKE S
    <2> DEFINE m == Write(n, S, to)
    <2>1. m \in NodeType /\ m.ns = n.ns /\ m.unit = n.unit /\ m.dir = n.dir
      BY <1>2, WriteIs
    <2> HIDE DEF m
    <2>2. Follows(n, m) /\ (Marked(n) => Marked(m))
      BY <2>1 DEF Follows, Traced, Marked
    <2> QED BY <2>2 DEF m
  <1>4. \A f \in Staged : Write(n, Staged, to).file[f] = c
    BY <1>2, WriteIs
  <1>5. /\ Follow(n, Script({Write(n, Staged, to)}, part, part))
        /\ Script({Write(n, Staged, to)}, part, part).ok = {Write(n, Staged, to)}
    <2>1. Follow(n, Script({Write(n, Staged, to)}, part, part))
      BY <1>3, FollowIs
    <2>2. Script({Write(n, Staged, to)}, part, part).ok = {Write(n, Staged, to)}
      BY FollowIs
    <2> QED BY <2>1, <2>2
  <1> QED BY <1>1, <1>4, <1>5

LEMMA ActivateFollows ==
  ASSUME NEW n \in NodeType, Traced(n), NEW c \in Nat
  PROVE  /\ Follow(n, ActivateXray(n, c))
         /\ \A m \in ActivateXray(n, c).ok :
               /\ m.unit["xray"] = {c} /\ \A f \in Staged : m.file[f] = n.file[f]
  <1>1. CASE n.dir.backup = {}
    BY <1>1, RefusalFollows DEF ActivateXray
  <1>2. CASE n.dir.backup # {}
    <2> DEFINE was  == IF n.dir.xrayWas = {} THEN {n.unit["xray"] # {}} ELSE n.dir.xrayWas
               d    == [n.dir EXCEPT !.state = TRUE, !.xrayWas = was]
               seen == [n EXCEPT !.dir = d]
               put  == [seen EXCEPT !.file["xray"] = c]
               run  == Run(put, "xray")
               off  == Halt(put, "xray")
    <2>1. ActivateXray(n, c) = Script({run}, {n, seen, off}, {n, seen, put, run})
      <3>1. [n EXCEPT !.dir.state = TRUE, !.dir.xrayWas = IF @ = {} THEN {n.unit["xray"] # {}} ELSE @] = seen
        BY DEF NodeType, DirType
      <3> QED BY <1>2, <3>1 DEF ActivateXray
    <2>2. was \in SUBSET BOOLEAN /\ was = {task.unit["xray"] # {}}
      BY DEF Traced, NodeType, DirType
    <2> HIDE DEF was
    <2>3. /\ d \in DirType /\ d.xrayWas = was /\ d.backup = n.dir.backup
          /\ d.firewall = n.dir.firewall /\ d.unitsWere = n.dir.unitsWere
      BY <2>2 DEF NodeType, DirType
    <2> HIDE DEF d
    <2>4. seen \in NodeType /\ seen.ns = n.ns /\ seen.file = n.file /\ seen.unit = n.unit /\ seen.dir = d
      BY <2>3, DirIs
    <2> HIDE DEF seen
    <2>5. /\ put \in NodeType /\ put.ns = n.ns /\ put.unit = n.unit /\ put.dir = d
          /\ \A g \in RelayFile : put.file[g] = IF g = "xray" THEN c ELSE n.file[g]
      BY <2>4, PutIs DEF RelayFile
    <2> HIDE DEF put
    <2>6. /\ run \in NodeType /\ run.ns = n.ns /\ run.dir = d /\ run.file = put.file
          /\ \A v \in RelayUnit : run.unit[v] = IF v = "xray" THEN {c} ELSE n.unit[v]
      BY <2>5, RunIs, RelayNames DEF RelayFile, RelayUnit
    <2>7. /\ off \in NodeType /\ off.ns = n.ns /\ off.dir = d
          /\ \A v \in RelayUnit : off.unit[v] = IF v = "xray" THEN {} ELSE n.unit[v]
      BY <2>5, HaltIs DEF RelayUnit
    <2> HIDE DEF run, off
    <2>8. \A m \in {seen, put, run, off} : Follows(n, m) /\ (Marked(n) => Marked(m))
      <3>1. \A m \in {seen, put, run, off} :
               m \in NodeType /\ m.ns = n.ns /\ m.dir = d /\ \A u \in L2tpUnit : m.unit[u] = n.unit[u]
        BY <2>4, <2>5, <2>6, <2>7 DEF L2tpUnit, RelayUnit
      <3> SUFFICES ASSUME NEW m \in {seen, put, run, off}
                   PROVE  Follows(n, m) /\ (Marked(n) => Marked(m))
        OBVIOUS
      <3>2. Traced(m) /\ (Marked(n) => Marked(m))
        BY <1>2, <2>2, <2>3, <3>1 DEF Traced, Marked
      <3> QED BY <1>2, <2>3, <3>1, <3>2 DEF Follows
    <2>9. run.unit["xray"] = {c} /\ \A f \in Staged : run.file[f] = n.file[f]
      BY <2>5, <2>6 DEF RelayUnit, RelayFile, Staged
    <2>10. /\ Follow(n, Script({run}, {n, seen, off}, {n, seen, put, run}))
           /\ Script({run}, {n, seen, off}, {n, seen, put, run}).ok = {run}
      <3>1. Follow(n, Script({run}, {n, seen, off}, {n, seen, put, run}))
        BY <2>8, SelfFollows, FollowIs
      <3>2. Script({run}, {n, seen, off}, {n, seen, put, run}).ok = {run}
        BY FollowIs
      <3> QED BY <3>1, <3>2
    <2> QED BY <2>1, <2>9, <2>10
  <1> QED BY <1>1, <1>2

LEMMA FirewallFollows ==
  ASSUME NEW n \in NodeType, Traced(n)
  PROVE  /\ Follow(n, ApplyFirewall(n))
         /\ \A m \in ApplyFirewall(n).ok : m.ns = NsPart /\ m.file = n.file /\ m.unit = n.unit
  <1>1. CASE n.dir.backup = {}
    BY <1>1, RefusalFollows DEF ApplyFirewall
  <1>2. CASE n.dir.backup # {} /\ n.dir.firewall /\ n.ns = ToSet(Namespace)
    <2>1. ApplyFirewall(n) = Script({n}, {n}, {n})
      BY <1>2 DEF ApplyFirewall
    <2>2. Follow(n, Script({n}, {n}, {n})) /\ Script({n}, {n}, {n}).ok = {n}
      <3>1. Follow(n, Script({n}, {n}, {n}))
        BY SelfFollows, FollowIs
      <3>2. Script({n}, {n}, {n}).ok = {n}
        BY FollowIs
      <3> QED BY <3>1, <3>2
    <2> QED BY <1>2, <2>1, <2>2, RelayNames
  <1>3. CASE n.dir.backup # {} /\ ~(n.dir.firewall /\ n.ns = ToSet(Namespace))
    <2> DEFINE part == {[n EXCEPT !.ns = S] : S \in {n.ns} \cup Begun(Namespace)}
               bare == [n EXCEPT !.ns = {}, !.dir.firewall = FALSE]
               cut  == part \cup {[bare EXCEPT !.ns = S] : S \in Begun(Namespace)}
               done == [bare EXCEPT !.ns = ToSet(Namespace), !.dir.firewall = TRUE, !.dir.state = TRUE]
    <2>1. ApplyFirewall(n) = Script({done}, {n, bare}, cut \cup {done})
      BY <1>3 DEF ApplyFirewall
    <2>2. /\ bare \in NodeType /\ bare.ns = {} /\ bare.file = n.file /\ bare.unit = n.unit
          /\ bare.dir.backup = n.dir.backup /\ bare.dir.xrayWas = n.dir.xrayWas
          /\ bare.dir.unitsWere = n.dir.unitsWere
      BY DEF NodeType, DirType
    <2> HIDE DEF bare
    <2>3. /\ done \in NodeType /\ done.ns = NsPart /\ done.file = n.file /\ done.unit = n.unit
          /\ done.dir.backup = n.dir.backup /\ done.dir.xrayWas = n.dir.xrayWas
          /\ done.dir.unitsWere = n.dir.unitsWere /\ done.dir.firewall
      BY <2>2, RelayNames DEF NodeType, DirType
    <2> HIDE DEF done
    <2>4. \A S \in SUBSET NsPart :
             Follows(n, [n EXCEPT !.ns = S]) /\ Follows(n, [bare EXCEPT !.ns = S])
      <3> TAKE S \in SUBSET NsPart
      <3> DEFINE m == [n EXCEPT !.ns = S]
                 p == [bare EXCEPT !.ns = S]
      <3>1. /\ m \in NodeType /\ m.file = n.file /\ m.unit = n.unit /\ m.dir = n.dir
            /\ p \in NodeType /\ p.file = n.file /\ p.unit = n.unit /\ p.dir = bare.dir
        BY <2>2, NsIs
      <3> HIDE DEF m, p
      <3>2. Follows(n, m) /\ Follows(n, p)
        BY <1>3, <2>2, <3>1 DEF Follows, Traced, Marked
      <3> QED BY <3>2 DEF m, p
    <2>5. \A m \in cut : Follows(n, m)
      BY <2>4, NsParts DEF NodeType
    <2>6. Follows(n, bare) /\ (Marked(n) => Marked(bare))
      <3>1. Traced(bare) /\ (Marked(n) => Marked(bare))
        BY <1>3, <2>2 DEF Traced, Marked
      <3> QED BY <1>3, <2>2, <3>1 DEF Follows
    <2>7. Follows(n, done) /\ (Marked(n) => Marked(done))
      <3>1. Traced(done) /\ (Marked(n) => Marked(done))
        BY <1>3, <2>3 DEF Traced, Marked
      <3> QED BY <1>3, <2>3, <3>1 DEF Follows
    <2> HIDE DEF cut
    <2>8. /\ Follow(n, Script({done}, {n, bare}, cut \cup {done}))
          /\ Script({done}, {n, bare}, cut \cup {done}).ok = {done}
      <3>1. Follow(n, Script({done}, {n, bare}, cut \cup {done}))
        BY <2>5, <2>6, <2>7, SelfFollows, FollowIs
      <3>2. Script({done}, {n, bare}, cut \cup {done}).ok = {done}
        BY FollowIs
      <3> QED BY <3>1, <3>2
    <2> QED BY <2>1, <2>3, <2>8 DEF cut
  <1> QED BY <1>1, <1>2, <1>3

LEMMA StartFollows ==
  ASSUME NEW n \in NodeType, Traced(n)
  PROVE  /\ Follow(n, StartL2tp(n))
         /\ \A m \in StartL2tp(n).ok :
               /\ m.unit["strongswan"] = {n.file["ipsec"]} /\ m.unit["xl2tp"] = {n.file["xl2tpd"]}
               /\ m.unit["xray"] = n.unit["xray"] /\ m.ns = n.ns /\ m.file = n.file
  <1>1. CASE n.dir.backup = {}
    BY <1>1, RefusalFollows DEF StartL2tp
  <1>2. CASE n.dir.backup # {}
    <2> DEFINE running == {{u \in L2tpUnit : n.unit[u] # {}}}
               were == IF n.dir.unitsWere = {} THEN running ELSE n.dir.unitsWere
               d    == [n.dir EXCEPT !.state = TRUE, !.unitsWere = were]
               seen == [n EXCEPT !.dir = d]
               down == Halt(seen, "strongswan")
               half == Run(down, "strongswan")
               done == Run(half, "xl2tp")
               off  == Halt(half, "xl2tp")
    <2>1. StartL2tp(n) = Script({done}, {n, down, off}, {n, seen, down, half, done})
      <3>1. CaptureUnits(n) = seen
        BY RelayNames DEF CaptureUnits, NodeType, DirType
      <3> QED BY <1>2, <3>1 DEF StartL2tp
    <2>2. were \in SUBSET SUBSET L2tpUnit /\ were = {{u \in L2tpUnit : task.unit[u] # {}}}
      BY DEF Traced, NodeType, DirType
    <2> HIDE DEF were
    <2>3. /\ d \in DirType /\ d.unitsWere = were /\ d.backup = n.dir.backup
          /\ d.firewall = n.dir.firewall /\ d.xrayWas = n.dir.xrayWas
      BY <2>2 DEF NodeType, DirType
    <2> HIDE DEF d
    <2>4. seen \in NodeType /\ seen.ns = n.ns /\ seen.file = n.file /\ seen.unit = n.unit /\ seen.dir = d
      BY <2>3, DirIs
    <2> HIDE DEF seen
    <2>5. /\ down \in NodeType /\ down.ns = n.ns /\ down.file = n.file /\ down.dir = d
          /\ \A v \in RelayUnit : down.unit[v] = IF v = "strongswan" THEN {} ELSE n.unit[v]
      BY <2>4, HaltIs DEF RelayUnit
    <2> HIDE DEF down
    <2>6. /\ half \in NodeType /\ half.ns = n.ns /\ half.file = n.file /\ half.dir = d
          /\ \A v \in RelayUnit :
                half.unit[v] = IF v = "strongswan" THEN {n.file["ipsec"]} ELSE n.unit[v]
      BY <2>5, RunIs, RelayNames DEF RelayUnit
    <2> HIDE DEF half
    <2>7. /\ done \in NodeType /\ done.ns = n.ns /\ done.file = n.file /\ done.dir = d
          /\ \A v \in RelayUnit : done.unit[v] = IF v = "strongswan" THEN {n.file["ipsec"]}
                                                 ELSE IF v = "xl2tp" THEN {n.file["xl2tpd"]}
                                                 ELSE n.unit[v]
      BY <2>6, RunIs, RelayNames DEF RelayUnit
    <2>8. /\ off \in NodeType /\ off.ns = n.ns /\ off.dir = d
          /\ off.unit["xray"] = n.unit["xray"]
      BY <2>6, HaltIs DEF RelayUnit
    <2> HIDE DEF done, off
    <2>9. \A m \in {seen, down, half, done, off} : Follows(n, m) /\ (Marked(n) => Marked(m))
      <3>1. \A m \in {seen, down, half, done, off} :
               m \in NodeType /\ m.ns = n.ns /\ m.dir = d /\ m.unit["xray"] = n.unit["xray"]
        BY <2>4, <2>5, <2>6, <2>7, <2>8 DEF RelayUnit
      <3> SUFFICES ASSUME NEW m \in {seen, down, half, done, off}
                   PROVE  Follows(n, m) /\ (Marked(n) => Marked(m))
        OBVIOUS
      <3>2. Traced(m) /\ (Marked(n) => Marked(m))
        BY <1>2, <2>2, <2>3, <3>1 DEF Traced, Marked
      <3> QED BY <1>2, <2>3, <3>1, <3>2 DEF Follows
    <2>10. /\ done.unit["strongswan"] = {n.file["ipsec"]} /\ done.unit["xl2tp"] = {n.file["xl2tpd"]}
           /\ done.unit["xray"] = n.unit["xray"]
      BY <2>7 DEF RelayUnit
    <2>11. /\ Follow(n, Script({done}, {n, down, off}, {n, seen, down, half, done}))
           /\ Script({done}, {n, down, off}, {n, seen, down, half, done}).ok = {done}
      <3>1. Follow(n, Script({done}, {n, down, off}, {n, seen, down, half, done}))
        BY <2>9, SelfFollows, FollowIs
      <3>2. Script({done}, {n, down, off}, {n, seen, down, half, done}).ok = {done}
        BY FollowIs
      <3> QED BY <3>1, <3>2
    <2> QED BY <2>1, <2>7, <2>10, <2>11
  <1> QED BY <1>1, <1>2

LEMMA SyncFollows ==
  ASSUME NEW n \in NodeType, Traced(n), NEW c \in Nat
  PROVE  /\ Follow(n, SyncUsers(n, c))
         /\ \A m \in SyncUsers(n, c).ok :
               /\ m.unit = n.unit /\ m.ns = n.ns /\ m.file["chap"] = c
               /\ \A f \in RelayFile \ {"chap"} : m.file[f] = n.file[f]
  <1>1. CASE n.dir.backup = {}
    BY <1>1, RefusalFollows DEF SyncUsers
  <1>2. CASE n.dir.backup # {}
    <2> DEFINE done == [n EXCEPT !.file["chap"] = c]
    <2>1. SyncUsers(n, c) = Script({done}, {n}, {n, done})
      BY <1>2 DEF SyncUsers
    <2>2. /\ done \in NodeType /\ done.ns = n.ns /\ done.unit = n.unit /\ done.dir = n.dir
          /\ \A g \in RelayFile : done.file[g] = IF g = "chap" THEN c ELSE n.file[g]
      BY PutIs DEF RelayFile
    <2> HIDE DEF done
    <2>3. Follows(n, done) /\ (Marked(n) => Marked(done))
      BY <1>2, <2>2 DEF Follows, Traced, Marked
    <2>4. Follow(n, Script({done}, {n}, {n, done})) /\ Script({done}, {n}, {n, done}).ok = {done}
      <3>1. Follow(n, Script({done}, {n}, {n, done}))
        BY <2>3, SelfFollows, FollowIs
      <3>2. Script({done}, {n}, {n, done}).ok = {done}
        BY FollowIs
      <3> QED BY <3>1, <3>2
    <2> QED BY <2>1, <2>2, <2>4 DEF RelayFile
  <1> QED BY <1>1, <1>2

LEMMA VerifyFollows ==
  ASSUME NEW n \in NodeType, Traced(n)
  PROVE  /\ Follow(n, Verify(n))
         /\ \A m \in Verify(n).ok :
               m.unit = n.unit /\ m.ns = n.ns /\ m.file = n.file /\ m.dir.backup = n.dir.backup
  <1> DEFINE d == [n.dir EXCEPT !.verified = TRUE]
             done == [n EXCEPT !.dir = d]
  <1>1. /\ Verify(n) = Script(IF Healthy(n) THEN {done} ELSE {}, {n}, {n})
    <2>1. [n EXCEPT !.dir.verified = TRUE] = done
      BY DEF NodeType, DirType
    <2> QED BY <2>1 DEF Verify
  <1>2. /\ d \in DirType /\ d.backup = n.dir.backup /\ d.firewall = n.dir.firewall
        /\ d.xrayWas = n.dir.xrayWas /\ d.unitsWere = n.dir.unitsWere
    BY DEF NodeType, DirType
  <1> HIDE DEF d
  <1>3. done \in NodeType /\ done.ns = n.ns /\ done.file = n.file /\ done.unit = n.unit /\ done.dir = d
    BY <1>2, DirIs
  <1> HIDE DEF done
  <1>4. Follows(n, done) /\ (Marked(n) => Marked(done))
    BY <1>2, <1>3 DEF Follows, Traced, Marked
  <1> DEFINE ok == IF Healthy(n) THEN {done} ELSE {}
  <1>5. Follow(n, Script(ok, {n}, {n})) /\ Script(ok, {n}, {n}).ok = ok
    <2>1. Follow(n, Script(ok, {n}, {n}))
      BY <1>4, SelfFollows, FollowIs
    <2>2. Script(ok, {n}, {n}).ok = ok
      BY FollowIs
    <2> QED BY <2>1, <2>2
  <1> QED BY <1>1, <1>2, <1>3, <1>5

LEMMA CommitFollows ==
  ASSUME NEW n \in NodeType, Traced(n)
  PROVE  Follow(n, Commit(n)) /\ \A m \in Commit(n).ok : m = n
  <1> DEFINE ok == IF n.dir.verified THEN {n} ELSE {}
  <1>1. Commit(n) = Script(ok, {n}, {n})
    BY DEF Commit
  <1>2. Follow(n, Script(ok, {n}, {n}))
    BY SelfFollows, FollowIs
  <1>3. Script(ok, {n}, {n}).ok = ok
    BY FollowIs
  <1> QED BY <1>1, <1>2, <1>3

-----------------------------------------------------------------------------
(* The steps of an operation in their order.                                *)

LEMMA InstallFollows ==
  ASSUME NEW n \in NodeType, Traced(n), TaskFound, task.n \in Nat, NEW i \in 1..10, Laid(n, i)
  PROVE  LET script == StepScript(InstallSteps[i], n, task.n) IN
         Follow(n, script) /\ \A m \in script.ok : Laid(m, i + 1)
  <1> DEFINE script == StepScript(InstallSteps[i], n, task.n)
  <1> SUFFICES Follow(n, script) /\ \A m \in script.ok : Laid(m, i + 1)
    OBVIOUS
  <1>1. ASSUME Follow(n, script), NEW m \in script.ok
        PROVE  n.dir.backup # {} => m.dir.backup # {}
    BY <1>1 DEF Follow, Follows
  <1>2. CASE i \in {1, 4}
    <2>1. script = Check(n)
      BY <1>2 DEF StepScript, InstallSteps
    <2>2. Follow(n, script) /\ script.ok = {n}
      BY <2>1, CheckFollows DEF Check, Script
    <2> QED BY <1>2, <2>2 DEF Laid
  <1>3. CASE i = 2
    <2>1. script = Backup(n)
      BY <1>3 DEF StepScript, InstallSteps
    <2> QED BY <1>3, <2>1, BackupFollows DEF Laid
  <1>4. CASE i = 3
    <2>1. script = Stage(n, task.n)
      BY <1>4 DEF StepScript, InstallSteps
    <2>2. Follow(n, script) /\ \A m \in script.ok : \A f \in Staged : m.file[f] = task.n
      BY <1>4, <2>1, StageFollows DEF Laid
    <2> HIDE DEF script
    <2> QED BY <1>1, <1>4, <2>2 DEF Laid
  <1>5. CASE i = 5
    <2>1. script = ActivateXray(n, task.n)
      BY <1>5 DEF StepScript, InstallSteps
    <2>2. /\ Follow(n, script)
          /\ \A m \in script.ok : m.unit["xray"] = {task.n} /\ \A f \in Staged : m.file[f] = n.file[f]
      BY <2>1, ActivateFollows
    <2> HIDE DEF script
    <2> QED BY <1>1, <1>5, <2>2 DEF Laid
  <1>6. CASE i = 6
    <2>1. script = ApplyFirewall(n)
      BY <1>6 DEF StepScript, InstallSteps
    <2>2. /\ Follow(n, script)
          /\ \A m \in script.ok : m.ns = NsPart /\ m.file = n.file /\ m.unit = n.unit
      BY <2>1, FirewallFollows
    <2> HIDE DEF script
    <2> QED BY <1>1, <1>6, <2>2 DEF Laid
  <1>7. CASE i = 7
    <2>1. script = StartL2tp(n)
      BY <1>7 DEF StepScript, InstallSteps
    <2>2. /\ Follow(n, script)
          /\ \A m \in script.ok :
                /\ m.unit["strongswan"] = {n.file["ipsec"]} /\ m.unit["xl2tp"] = {n.file["xl2tpd"]}
                /\ m.unit["xray"] = n.unit["xray"] /\ m.ns = n.ns /\ m.file = n.file
      BY <2>1, StartFollows
    <2> HIDE DEF script
    <2> QED BY <1>1, <1>7, <2>2 DEF Laid, L2tpUnit, Staged
  <1>8. CASE i = 8
    <2>1. script = SyncUsers(n, task.n)
      BY <1>8 DEF StepScript, InstallSteps
    <2>2. /\ Follow(n, script)
          /\ \A m \in script.ok :
                /\ m.unit = n.unit /\ m.ns = n.ns /\ m.file["chap"] = task.n
                /\ \A f \in RelayFile \ {"chap"} : m.file[f] = n.file[f]
      BY <2>1, SyncFollows
    <2> HIDE DEF script
    <2> QED BY <1>1, <1>8, <2>2 DEF Laid, Staged, RelayFile
  <1>9. CASE i = 9
    <2>1. script = Verify(n)
      BY <1>9 DEF StepScript, InstallSteps
    <2>2. /\ Follow(n, script)
          /\ \A m \in script.ok : m.unit = n.unit /\ m.ns = n.ns /\ m.file = n.file
      BY <2>1, VerifyFollows
    <2> HIDE DEF script
    <2> QED BY <1>1, <1>9, <2>2 DEF Laid
  <1>10. CASE i = 10
    <2>1. script = Commit(n)
      BY <1>10 DEF StepScript, InstallSteps
    <2>2. Follow(n, script) /\ \A m \in script.ok : m = n
      BY <2>1, CommitFollows
    <2> HIDE DEF script
    <2> QED BY <1>10, <2>2 DEF Laid
  <1> QED BY <1>2, <1>3, <1>4, <1>5, <1>6, <1>7, <1>8, <1>9, <1>10

LEMMA SyncStepFollows ==
  ASSUME NEW n \in NodeType, Traced(n), TaskFound, task.n \in Nat, NEW i \in 1..3
  PROVE  Follow(n, StepScript(SyncSteps[i], n, task.n))
  <1>1. CASE i = 1
    <2>1. StepScript(SyncSteps[i], n, task.n) = Backup(n)
      BY <1>1 DEF StepScript, SyncSteps
    <2> QED BY <2>1, BackupFollows
  <1>2. CASE i = 2
    <2>1. StepScript(SyncSteps[i], n, task.n) = SyncUsers(n, task.n)
      BY <1>2 DEF StepScript, SyncSteps
    <2> QED BY <2>1, SyncFollows
  <1>3. CASE i = 3
    <2>1. StepScript(SyncSteps[i], n, task.n) = Check(n)
      BY <1>3 DEF StepScript, SyncSteps
    <2> QED BY <2>1, CheckFollows
  <1> QED BY <1>1, <1>2, <1>3

-----------------------------------------------------------------------------
(* Rollback.                                                                *)

\* `n` is as the operation found it, up to what a service runs with.
Restored(n) ==
    /\ n.file = task.file
    /\ \A u \in RelayUnit :
          /\ n.unit[u] = {} <=> task.unit[u] = {}
          /\ n.unit[u] \in {task.unit[u], {n.file[Config[u]]}, {}}

LEMMA RestoreUnitIs ==
  ASSUME NEW n \in NodeType, NEW u \in RelayUnit, NEW was
  PROVE  LET m == RestoreUnit(n, u, was) IN
         /\ m \in NodeType /\ m.ns = n.ns /\ m.file = n.file /\ m.dir = n.dir
         /\ \A v \in RelayUnit \ {u} : m.unit[v] = n.unit[v]
         /\ m.unit[u] = IF was THEN {n.file[Config[u]]} ELSE {}
  <1>1. CASE was
    BY <1>1, RunIs DEF RestoreUnit
  <1>2. CASE ~was
    BY <1>2, HaltIs DEF RestoreUnit
  <1> QED BY <1>1, <1>2

LEMMA RestoreXrayIs ==
  ASSUME NEW n \in NodeType
  PROVE  LET m == RestoreXray(n) IN
         /\ m \in NodeType /\ m.ns = n.ns /\ m.file = n.file /\ m.dir = n.dir
         /\ \A v \in L2tpUnit : m.unit[v] = n.unit[v]
         /\ m.unit["xray"] = IF n.dir.xrayWas = {} THEN n.unit["xray"]
                             ELSE IF TRUE \in n.dir.xrayWas THEN {n.file["xray"]} ELSE {}
  <1>1. CASE n.dir.xrayWas = {}
    BY <1>1 DEF RestoreXray
  <1>2. CASE n.dir.xrayWas # {}
    <2>1. RestoreXray(n) = RestoreUnit(n, "xray", TRUE \in n.dir.xrayWas)
      BY <1>2 DEF RestoreXray
    <2>2. "xray" \in RelayUnit /\ L2tpUnit \subseteq RelayUnit \ {"xray"} /\ Config["xray"] = "xray"
      BY RelayNames DEF RelayUnit, L2tpUnit
    <2> DEFINE m == RestoreUnit(n, "xray", TRUE \in n.dir.xrayWas)
    <2>3. /\ m \in NodeType /\ m.ns = n.ns /\ m.file = n.file /\ m.dir = n.dir
          /\ \A v \in RelayUnit \ {"xray"} : m.unit[v] = n.unit[v]
          /\ m.unit["xray"] = IF TRUE \in n.dir.xrayWas THEN {n.file[Config["xray"]]} ELSE {}
      BY <2>2, RestoreUnitIs
    <2> QED BY <1>2, <2>1, <2>2, <2>3
  <1> QED BY <1>1, <1>2

LEMMA RestoreUnitsIs ==
  ASSUME NEW n \in NodeType
  PROVE  LET m == RestoreUnits(n) IN
         /\ m \in NodeType /\ m.ns = n.ns /\ m.file = n.file /\ m.dir = n.dir
         /\ m.unit["xray"] = n.unit["xray"]
         /\ \A v \in L2tpUnit :
               m.unit[v] = IF n.dir.unitsWere = {} THEN n.unit[v]
                           ELSE IF v \in UNION n.dir.unitsWere THEN {n.file[Config[v]]} ELSE {}
  <1>1. CASE n.dir.unitsWere = {}
    BY <1>1 DEF RestoreUnits
  <1>2. CASE n.dir.unitsWere # {}
    <2> DEFINE were == UNION n.dir.unitsWere
               p == RestoreUnit(n, "strongswan", "strongswan" \in were)
               m == RestoreUnit(p, "xl2tp", "xl2tp" \in were)
    <2>1. RestoreUnits(n) = m
      BY <1>2 DEF RestoreUnits
    <2> HIDE DEF were
    <2>2. /\ "strongswan" \in RelayUnit /\ "xl2tp" \in RelayUnit /\ "xray" \in RelayUnit
          /\ L2tpUnit = {"strongswan", "xl2tp"}
      BY DEF RelayUnit, L2tpUnit
    <2>3. /\ p \in NodeType /\ p.ns = n.ns /\ p.file = n.file /\ p.dir = n.dir
          /\ \A v \in RelayUnit \ {"strongswan"} : p.unit[v] = n.unit[v]
          /\ p.unit["strongswan"] = IF "strongswan" \in were THEN {n.file[Config["strongswan"]]} ELSE {}
      BY <2>2, RestoreUnitIs
    <2> HIDE DEF p
    <2>4. /\ m \in NodeType /\ m.ns = p.ns /\ m.file = p.file /\ m.dir = p.dir
          /\ \A v \in RelayUnit \ {"xl2tp"} : m.unit[v] = p.unit[v]
          /\ m.unit["xl2tp"] = IF "xl2tp" \in were THEN {p.file[Config["xl2tp"]]} ELSE {}
      BY <2>2, <2>3, RestoreUnitIs
    <2> HIDE DEF m
    <2>5. m.unit["strongswan"] = IF "strongswan" \in were THEN {n.file[Config["strongswan"]]} ELSE {}
      BY <2>2, <2>3, <2>4
    <2>6. m.unit["xray"] = n.unit["xray"]
      BY <2>2, <2>3, <2>4
    <2>7. \A v \in L2tpUnit : m.unit[v] = IF v \in were THEN {n.file[Config[v]]} ELSE {}
      BY <2>2, <2>3, <2>4, <2>5
    <2> QED BY <1>2, <2>1, <2>3, <2>4, <2>6, <2>7 DEF were
  <1> QED BY <1>1, <1>2

LEMMA RollbackIs ==
  ASSUME NEW n \in NodeType, Traced(n), TaskFound
  PROVE  /\ \A m \in Rollback(n).ok :
               Restored(m) /\ (Marked(n) /\ task.ns = {} => m.ns = {})
         /\ \A m \in Rollback(n).ok \cup Rollback(n).err \cup Rollback(n).cut : m \in NodeType
  <1>1. CASE n.dir.backup = {}
    <2>1. Rollback(n).ok = {} /\ Rollback(n).err = {n} /\ Rollback(n).cut = {n}
      BY <1>1 DEF Rollback, Script
    <2> QED BY <2>1
  <1>2. CASE n.dir.backup # {}
    <2> DEFINE b     == CHOOSE x \in n.dir.backup : TRUE
               part  == {Write(n, S, b) : S \in Begun(RestoreOrder(b))}
               files == Write(n, ToSet(ManagedPaths), b)
               bare  == DropNamespace(files)
               torn  == IF n.dir.firewall
                        THEN {[files EXCEPT !.ns = @ \ S] : S \in {{"route"}, {"route", "rule"}}}
                        ELSE {}
               live  == bare \cup {RestoreXray(x) : x \in bare}
               done  == {RestoreUnits(RestoreXray(x)) : x \in bare}
               clean == {[x EXCEPT !.dir = [EmptyDir EXCEPT !.backup = n.dir.backup,
                                                            !.state = TRUE]] : x \in done}
               some  == part \cup torn \cup live
    <2>1. Rollback(n) = IF ~n.dir.state THEN Script({}, part, part)
                        ELSE Script(clean, some, some \cup done)
      BY <1>2 DEF Rollback
    <2>2. b = task.file
      BY <1>2 DEF Traced
    <2> HIDE DEF b
    <2>3. \A S : Write(n, S, b) \in NodeType
      BY <2>2, WriteIs DEF TaskFound
    <2>4. files \in NodeType /\ files.ns = n.ns /\ files.unit = n.unit /\ files.dir = n.dir
          /\ files.file = task.file
      <3>1. /\ files \in NodeType /\ files.ns = n.ns /\ files.unit = n.unit /\ files.dir = n.dir
            /\ \A f \in RelayFile : files.file[f] = b[f]
        BY <2>2, WriteIs, RelayNames DEF TaskFound
      <3>2. files.file \in [RelayFile -> Nat]
        BY <3>1 DEF NodeType
      <3> HIDE DEF files
      <3> QED BY <2>2, <3>1, <3>2 DEF TaskFound
    <2> HIDE DEF files
    <2>5. \A x \in bare : /\ x \in NodeType /\ x.unit = n.unit /\ x.dir = n.dir /\ x.file = task.file
                          /\ Marked(n) /\ task.ns = {} => x.ns = {}
      <3>1. CASE ~n.dir.firewall
        BY <2>4, <3>1 DEF DropNamespace, Marked
      <3>2. CASE n.dir.firewall
        <4> DEFINE x == [files EXCEPT !.ns = {}]
        <4>1. x \in NodeType /\ x.ns = {} /\ x.file = files.file /\ x.unit = files.unit /\ x.dir = files.dir
          BY <2>4, NsIs
        <4>2. bare \subseteq {x}
          BY <2>4, <3>2 DEF DropNamespace
        <4> HIDE DEF x
        <4> QED BY <2>4, <4>1, <4>2
      <3> QED BY <3>1, <3>2
    <2> HIDE DEF bare
    <2>6. \A x \in bare : LET m == RestoreUnits(RestoreXray(x)) IN
             /\ m \in NodeType /\ Restored(m) /\ RestoreXray(x) \in NodeType
             /\ Marked(n) /\ task.ns = {} => m.ns = {}
      <3> SUFFICES ASSUME NEW x \in bare
                   PROVE  LET m == RestoreUnits(RestoreXray(x)) IN
                          /\ m \in NodeType /\ Restored(m) /\ RestoreXray(x) \in NodeType
                          /\ Marked(n) /\ task.ns = {} => m.ns = {}
        OBVIOUS
      <3> DEFINE p == RestoreXray(x)
                 m == RestoreUnits(p)
      <3>1. /\ p \in NodeType /\ p.ns = x.ns /\ p.file = task.file /\ p.dir = n.dir
            /\ \A v \in L2tpUnit : p.unit[v] = n.unit[v]
            /\ p.unit["xray"] = IF n.dir.xrayWas = {} THEN n.unit["xray"]
                                ELSE IF TRUE \in n.dir.xrayWas THEN {task.file["xray"]} ELSE {}
        <4>1. /\ x \in NodeType /\ x.unit = n.unit /\ x.dir = n.dir /\ x.file = task.file
          BY <2>5
        <4>2. /\ p \in NodeType /\ p.ns = x.ns /\ p.file = x.file /\ p.dir = x.dir
              /\ \A v \in L2tpUnit : p.unit[v] = x.unit[v]
              /\ p.unit["xray"] = IF x.dir.xrayWas = {} THEN x.unit["xray"]
                                  ELSE IF TRUE \in x.dir.xrayWas THEN {x.file["xray"]} ELSE {}
          BY <4>1, RestoreXrayIs
        <4> HIDE DEF p
        <4> QED BY <4>1, <4>2
      <3> HIDE DEF p
      <3>2. /\ m \in NodeType /\ m.ns = x.ns /\ m.file = task.file
            /\ m.unit["xray"] = p.unit["xray"]
            /\ \A v \in L2tpUnit :
                  m.unit[v] = IF n.dir.unitsWere = {} THEN n.unit[v]
                              ELSE IF v \in UNION n.dir.unitsWere THEN {task.file[Config[v]]} ELSE {}
        <4>1. /\ m \in NodeType /\ m.ns = p.ns /\ m.file = p.file
              /\ m.unit["xray"] = p.unit["xray"]
              /\ \A v \in L2tpUnit :
                    m.unit[v] = IF p.dir.unitsWere = {} THEN p.unit[v]
                                ELSE IF v \in UNION p.dir.unitsWere THEN {p.file[Config[v]]} ELSE {}
          BY <3>1, RestoreUnitsIs
        <4> HIDE DEF m
        <4> QED BY <3>1, <4>1
      <3> HIDE DEF m
      <3>3. /\ m.unit["xray"] = {} <=> task.unit["xray"] = {}
            /\ m.unit["xray"] \in {task.unit["xray"], {m.file[Config["xray"]]}, {}}
        BY <3>1, <3>2, RelayNames DEF Traced
      <3>4. \A v \in L2tpUnit : /\ m.unit[v] = {} <=> task.unit[v] = {}
                                /\ m.unit[v] \in {task.unit[v], {m.file[Config[v]]}, {}}
        <4> SUFFICES ASSUME NEW v \in L2tpUnit
                     PROVE  /\ m.unit[v] = {} <=> task.unit[v] = {}
                            /\ m.unit[v] \in {task.unit[v], {m.file[Config[v]]}, {}}
          OBVIOUS
        <4>1. CASE n.dir.unitsWere = {}
          BY <3>2, <4>1 DEF Traced
        <4>2. CASE n.dir.unitsWere = {{u \in L2tpUnit : task.unit[u] # {}}}
          <5>1. UNION n.dir.unitsWere = {u \in L2tpUnit : task.unit[u] # {}}
            BY <4>2
          <5> QED BY <3>2, <4>2, <5>1
        <4> QED BY <4>1, <4>2 DEF Traced
      <3>5. Restored(m)
        BY <3>2, <3>3, <3>4 DEF Restored, RelayUnit, L2tpUnit
      <3> QED BY <2>5, <3>1, <3>2, <3>5 DEF m, p
    <2>7. \A x \in done : x \in NodeType /\ Restored(x) /\ (Marked(n) /\ task.ns = {} => x.ns = {})
      BY <2>6
    <2>8. \A x \in some : x \in NodeType
      <3>1. \A x \in torn : x \in NodeType
        <4>1. \A S : files.ns \ S \in SUBSET NsPart
          BY <2>4 DEF NodeType
        <4> QED BY <2>4, <4>1, NsIs
      <3> HIDE DEF torn
      <3> QED BY <2>3, <2>5, <2>6, <3>1
    <2> HIDE DEF done, some
    <2>9. \A x \in clean : x \in NodeType /\ Restored(x) /\ (Marked(n) /\ task.ns = {} => x.ns = {})
      <3> DEFINE d == [EmptyDir EXCEPT !.backup = n.dir.backup, !.state = TRUE]
      <3>1. EmptyDir \in DirType
        BY DEF EmptyDir, DirType
      <3>2. n.dir.backup \in SUBSET [RelayFile -> Nat]
        BY DEF NodeType, DirType
      <3>3. d \in DirType
        BY <3>1, <3>2 DEF DirType
      <3> HIDE DEF d
      <3>4. \A x \in done : LET y == [x EXCEPT !.dir = d] IN
               y \in NodeType /\ Restored(y) /\ (Marked(n) /\ task.ns = {} => y.ns = {})
        <4> SUFFICES ASSUME NEW x \in done
                     PROVE  LET y == [x EXCEPT !.dir = d] IN
                            y \in NodeType /\ Restored(y) /\ (Marked(n) /\ task.ns = {} => y.ns = {})
          OBVIOUS
        <4> DEFINE y == [x EXCEPT !.dir = d]
        <4>1. y \in NodeType /\ y.ns = x.ns /\ y.file = x.file /\ y.unit = x.unit
          BY <2>7, <3>3, DirIs
        <4> HIDE DEF y
        <4>2. y \in NodeType /\ Restored(y) /\ (Marked(n) /\ task.ns = {} => y.ns = {})
          BY <2>7, <4>1 DEF Restored
        <4> QED BY <4>2 DEF y
      <3> QED BY <3>4 DEF d
    <2> HIDE DEF clean
    <2>10. CASE ~n.dir.state
      <3>1. Rollback(n).ok = {} /\ Rollback(n).err = part /\ Rollback(n).cut = part
        BY <2>1, <2>10 DEF Script
      <3> QED BY <2>3, <3>1
    <2>11. CASE n.dir.state
      <3>1. Rollback(n).ok = clean /\ Rollback(n).err = some /\ Rollback(n).cut = some \cup done
        BY <2>1, <2>11 DEF Script
      <3> QED BY <2>7, <2>8, <2>9, <3>1
    <2> QED BY <2>10, <2>11
  <1> QED BY <1>1, <1>2

-----------------------------------------------------------------------------
TaskType == [kind : {"none", "install", "sync_users"}, at : Nat, n : Nat, kills : Nat,
             phase : {"idle", "running", "rolling_back", "done", "rolled_back", "failed", "stuck"},
             file : [RelayFile -> Nat], ns : SUBSET NsPart,
             unit : [RelayUnit -> SUBSET Nat], killed : BOOLEAN]

OnCourse ==
    /\ task.phase \in {"running", "rolling_back"} =>
          Traced(Node) /\ (~task.killed => Marked(Node))
    /\ task.phase = "running" =>
          /\ task.kind \in {"install", "sync_users"} /\ task.at \in 1..Len(Steps)
          /\ task.kind = "install" => Laid(Node, task.at)
    /\ task.phase = "done" /\ task.kind = "install" => Laid(Node, 11)
    /\ task.phase = "rolled_back" =>
          Restored(Node) /\ (~task.killed /\ task.ns = {} => Node.ns = {})

RelayInv == Node \in NodeType /\ task \in TaskType /\ OnCourse

LEMMA StepCount == Len(InstallSteps) = 10 /\ Len(SyncSteps) = 3
  BY DEF InstallSteps, SyncSteps

LEMMA NodeIs ==
  ASSUME NEW m \in NodeType, Becomes(m)
  PROVE  Node' = m
  BY DEF Becomes, Node, NodeType

LEMMA RelayInitInv == RelayInit => RelayInv
  <1> SUFFICES ASSUME RelayInit PROVE RelayInv
    OBVIOUS
  <1>1. Base \in Nat
    BY RelayAssumption DEF Base
  <1>2. EmptyDir \in DirType
    BY DEF EmptyDir, DirType
  <1>3. file \in [RelayFile -> Nat] /\ unit \in [RelayUnit -> SUBSET Nat]
    BY <1>1, RelayNames DEF RelayInit
  <1>4. Node \in NodeType
    BY <1>2, <1>3 DEF RelayInit, Node, NodeType
  <1>5. task \in TaskType /\ task.phase = "idle"
    BY RelayNames DEF RelayInit, Idle, TaskType
  <1> QED BY <1>4, <1>5 DEF RelayInv, OnCourse

\* What a script is about stays with the operation.
TaskKept == task'.file = task.file /\ task'.unit = task.unit /\ task'.ns = task.ns
            /\ task'.n = task.n /\ task'.kind = task.kind

LEMMA KeptTask ==
  ASSUME TaskKept, NEW m
  PROVE  /\ Traced(m) => Traced(m)' /\ (Marked(m) => Marked(m)')
         /\ Restored(m) => Restored(m)'
         /\ \A i \in Nat : Laid(m, i) => Laid(m, i)'
  <1>1. Traced(m) => Traced(m)'
    BY DEF TaskKept, Traced
  <1>2. Marked(m) => Marked(m)'
    BY DEF TaskKept, Marked
  <1>3. Restored(m) => Restored(m)'
    BY DEF TaskKept, Restored
  <1>4. \A i \in Nat : Laid(m, i) => Laid(m, i)'
    BY DEF TaskKept, Laid
  <1> QED BY <1>1, <1>2, <1>3, <1>4

LEMMA CurrentFollows ==
  ASSUME RelayInv, task.phase = "running"
  PROVE  /\ Follow(Node, Current)
         /\ task.kind = "install" => \A m \in Current.ok : Laid(m, task.at + 1)
         /\ TaskFound /\ task.n \in Nat
         /\ Traced(Node) /\ (~task.killed => Marked(Node))
         /\ task.kind \in {"install", "sync_users"} /\ task.at \in 1..Len(Steps)
         /\ Len(Steps) = IF task.kind = "install" THEN 10 ELSE 3
  <1>1. TaskFound /\ task.n \in Nat /\ Node \in NodeType
    BY DEF RelayInv, TaskFound, TaskType
  <1>2. /\ Traced(Node) /\ (~task.killed => Marked(Node))
        /\ task.kind \in {"install", "sync_users"} /\ task.at \in 1..Len(Steps)
        /\ task.kind = "install" => Laid(Node, task.at)
    BY DEF RelayInv, OnCourse
  <1>3. Len(Steps) = IF task.kind = "install" THEN 10 ELSE 3
    BY StepCount DEF Steps
  <1>4. CASE task.kind = "install"
    <2>1. task.at \in 1..10 /\ Current = StepScript(InstallSteps[task.at], Node, task.n)
      BY <1>2, <1>3, <1>4 DEF Current, Steps
    <2>2. Follow(Node, Current) /\ \A m \in Current.ok : Laid(m, task.at + 1)
      BY <1>1, <1>2, <1>4, <2>1, InstallFollows
    <2> QED BY <1>1, <1>2, <1>3, <2>2
  <1>5. CASE task.kind = "sync_users"
    <2>1. task.at \in 1..3 /\ Current = StepScript(SyncSteps[task.at], Node, task.n)
      BY <1>2, <1>3, <1>5 DEF Current, Steps
    <2>2. Follow(Node, Current)
      BY <1>1, <1>2, <2>1, SyncStepFollows
    <2> QED BY <1>1, <1>2, <1>3, <1>5, <2>2
  <1> QED BY <1>2, <1>4, <1>5

LEMMA RelayStartInv ==
  ASSUME RelayInv, RelayStart
  PROVE  RelayInv'
  <1>1. PICK kind \in {"install", "sync_users"} :
            task' = [task EXCEPT !.kind = kind, !.at = 1, !.n = @ + 1, !.phase = "running",
                                 !.file = file, !.ns = ns, !.unit = unit, !.killed = FALSE]
    BY DEF RelayStart
  <1>2. odir' = EmptyDir /\ UNCHANGED <<file, ns, unit>>
    BY DEF RelayStart
  <1>3. file \in [RelayFile -> Nat] /\ ns \in SUBSET NsPart /\ unit \in [RelayUnit -> SUBSET Nat]
    BY DEF RelayInv, Node, NodeType
  <1>4. EmptyDir \in DirType /\ EmptyDir.backup = {} /\ ~EmptyDir.firewall /\ EmptyDir.xrayWas = {}
        /\ EmptyDir.unitsWere = {}
    BY DEF EmptyDir, DirType
  <1>5. /\ task' \in TaskType /\ task'.kind = kind /\ task'.at = 1 /\ task'.phase = "running"
        /\ task'.file = file /\ task'.ns = ns /\ task'.unit = unit /\ ~task'.killed
    <2> DEFINE f == file  p == ns  u == unit  k == task.n + 1
               t1 == [task EXCEPT !.kind = kind]
               t2 == [t1 EXCEPT !.at = 1]
               t3 == [t2 EXCEPT !.n = k]
               t4 == [t3 EXCEPT !.phase = "running"]
               t5 == [t4 EXCEPT !.file = f]
               t6 == [t5 EXCEPT !.ns = p]
               t7 == [t6 EXCEPT !.unit = u]
               t8 == [t7 EXCEPT !.killed = FALSE]
    <2>1. task' = t8 /\ task \in TaskType /\ k \in Nat
      BY <1>1 DEF RelayInv, TaskType
    <2> HIDE DEF k
    <2>2. f \in [RelayFile -> Nat] /\ p \in SUBSET NsPart /\ u \in [RelayUnit -> SUBSET Nat]
      BY <1>3
    <2> HIDE DEF f, p, u
    <2>3. t2 \in TaskType /\ t2.kind = kind /\ t2.at = 1
      BY <2>1 DEF TaskType
    <2> HIDE DEF t2
    <2>4. t4 \in TaskType /\ t4.kind = kind /\ t4.at = 1 /\ t4.phase = "running"
      BY <2>1, <2>3 DEF TaskType
    <2> HIDE DEF t4
    <2>5. t6 \in TaskType /\ t6.kind = kind /\ t6.at = 1 /\ t6.phase = "running" /\ t6.file = f /\ t6.ns = p
      BY <2>2, <2>4 DEF TaskType
    <2> HIDE DEF t6
    <2>6. /\ t8 \in TaskType /\ t8.kind = kind /\ t8.at = 1 /\ t8.phase = "running" /\ t8.file = f
          /\ t8.ns = p /\ t8.unit = u /\ t8.killed = FALSE
      BY <2>2, <2>5 DEF TaskType
    <2> HIDE DEF t8
    <2> QED BY <2>1, <2>6 DEF f, p, u
  <1>6. Node' \in NodeType /\ Node'.file = file /\ Node'.ns = ns /\ Node'.unit = unit /\ Node'.dir = EmptyDir
    BY <1>2, <1>3, <1>4 DEF Node, NodeType
  <1>7. Traced(Node)' /\ Marked(Node)'
    <2>1. L2tpUnit \subseteq RelayUnit
      BY DEF L2tpUnit, RelayUnit
    <2> QED BY <1>4, <1>5, <1>6, <2>1 DEF Traced, Marked
  <1>8. Laid(Node, task.at)'
    BY <1>5 DEF Laid
  <1>9. task'.at \in 1..Len(Steps')
    <2>1. Steps' \in {InstallSteps, SyncSteps}
      BY DEF Steps
    <2>2. Len(Steps') = 3 \/ Len(Steps') = 10
      BY <2>1, StepCount
    <2>3. \A count : count = 3 \/ count = 10 => 1 \in 1..count
      OBVIOUS
    <2>4. 1 \in 1..Len(Steps')
      BY <2>2, <2>3
    <2> QED BY <1>5, <2>4
  <1> QED BY <1>5, <1>6, <1>7, <1>8, <1>9 DEF RelayInv, OnCourse

LEMMA RelayStepInv ==
  ASSUME RelayInv, RelayStep
  PROVE  RelayInv'
  <1>1. task.phase = "running"
        /\ task' = IF task.at = Len(Steps) THEN [task EXCEPT !.phase = "done"]
                   ELSE [task EXCEPT !.at = @ + 1]
    BY DEF RelayStep
  <1>2. PICK m \in Current.ok : Becomes(m)
    BY DEF RelayStep
  <1>3. m \in NodeType /\ Traced(m) /\ (Marked(Node) => Marked(m))
        /\ (task.kind = "install" => Laid(m, task.at + 1))
    BY <1>1, CurrentFollows DEF Follow, Follows
  <1>4. Node' = m
    BY <1>2, <1>3, NodeIs
  <1>5. task' \in TaskType /\ TaskKept /\ task'.killed = task.killed
    <2> DEFINE i == task.at + 1
               t1 == [task EXCEPT !.phase = "done"]
               t2 == [task EXCEPT !.at = i]
    <2>1. task \in TaskType /\ i \in Nat /\ task' \in {t1, t2}
      BY <1>1 DEF RelayInv, TaskType
    <2> HIDE DEF i
    <2>2. \A t \in {t1, t2} : /\ t \in TaskType /\ t.killed = task.killed /\ t.file = task.file
                             /\ t.unit = task.unit /\ t.ns = task.ns /\ t.n = task.n /\ t.kind = task.kind
      BY <2>1 DEF TaskType
    <2> HIDE DEF t1, t2
    <2> QED BY <2>1, <2>2 DEF TaskKept
  <1>6. Traced(m)' /\ (Marked(m) => Marked(m)') /\ \A i \in Nat : Laid(m, i) => Laid(m, i)'
    BY <1>3, <1>5, KeptTask
  <1>7. Len(Steps') = Len(Steps)
    BY <1>5 DEF TaskKept, Steps
  <1>8. CASE task.at = Len(Steps)
    <2>1. task'.phase = "done" /\ (task.kind = "install" => task.at = 10)
      BY <1>1, <1>8, CurrentFollows DEF RelayInv, TaskType
    <2> QED BY <1>3, <1>4, <1>5, <1>6, <2>1 DEF RelayInv, OnCourse, TaskKept
  <1>9. CASE task.at # Len(Steps)
    <2>1. task'.phase = "running" /\ task'.at = task.at + 1
      BY <1>1, <1>9 DEF RelayInv, TaskType
    <2>2. task'.at \in 1..Len(Steps') /\ task'.at \in Nat
      BY <1>1, <1>7, <1>9, <2>1, CurrentFollows
    <2> QED BY <1>1, <1>3, <1>4, <1>5, <1>6, <2>1, <2>2, CurrentFollows DEF RelayInv, OnCourse, TaskKept
  <1> QED BY <1>8, <1>9

LEMMA RelayFailInv ==
  ASSUME RelayInv, RelayFail
  PROVE  RelayInv'
  <1>1. task.phase = "running" /\ task' = [task EXCEPT !.phase = "rolling_back"]
    BY DEF RelayFail
  <1>2. PICK m \in Current.err : Becomes(m)
    BY DEF RelayFail
  <1>3. m \in NodeType /\ Traced(m) /\ (Marked(Node) => Marked(m))
    BY <1>1, CurrentFollows DEF Follow, Follows
  <1>4. Node' = m
    BY <1>2, <1>3, NodeIs
  <1>5. task' \in TaskType /\ TaskKept /\ task'.killed = task.killed /\ task'.phase = "rolling_back"
    BY <1>1 DEF TaskKept, RelayInv, TaskType
  <1>6. Traced(m)' /\ (Marked(m) => Marked(m)')
    BY <1>3, <1>5, KeptTask
  <1> QED BY <1>1, <1>3, <1>4, <1>5, <1>6, CurrentFollows DEF RelayInv, OnCourse

LEMMA RelayKillInv ==
  ASSUME RelayInv, RelayKill
  PROVE  RelayInv'
  <1>1. task.phase = "running" /\ task' = [task EXCEPT !.at = 1, !.kills = @ + 1, !.killed = TRUE]
    BY DEF RelayKill
  <1>2. PICK m \in Current.cut : Becomes(m)
    BY DEF RelayKill
  <1>3. m \in NodeType /\ Traced(m)
    BY <1>1, CurrentFollows DEF Follow, Follows
  <1>4. Node' = m
    BY <1>2, <1>3, NodeIs
  <1>5. task' \in TaskType /\ TaskKept /\ task'.killed /\ task'.phase = "running" /\ task'.at = 1
    <2> DEFINE k == task.kills + 1
               t1 == [task EXCEPT !.at = 1]
               t2 == [t1 EXCEPT !.kills = k]
               t3 == [t2 EXCEPT !.killed = TRUE]
    <2>1. task \in TaskType /\ k \in Nat /\ task' = t3 /\ task.phase = "running"
      BY <1>1 DEF RelayInv, TaskType
    <2> HIDE DEF k
    <2>2. /\ t2 \in TaskType /\ t2.at = 1 /\ t2.phase = "running" /\ t2.file = task.file
          /\ t2.unit = task.unit /\ t2.ns = task.ns /\ t2.n = task.n /\ t2.kind = task.kind
      BY <2>1 DEF TaskType
    <2> HIDE DEF t2
    <2>3. /\ t3 \in TaskType /\ t3.at = 1 /\ t3.phase = "running" /\ t3.file = task.file
          /\ t3.unit = task.unit /\ t3.ns = task.ns /\ t3.n = task.n /\ t3.kind = task.kind
          /\ t3.killed = TRUE
      BY <2>2 DEF TaskType
    <2> HIDE DEF t3
    <2> QED BY <2>1, <2>3 DEF TaskKept
  <1>6. Traced(m)'
    BY <1>3, <1>5, KeptTask
  <1>7. Laid(m, 1)'
    BY DEF Laid
  <1>8. task'.kind \in {"install", "sync_users"} /\ 1 \in 1..Len(Steps')
    BY <1>1, <1>5, CurrentFollows, StepCount DEF TaskKept, Steps
  <1> QED BY <1>3, <1>4, <1>5, <1>6, <1>7, <1>8 DEF RelayInv, OnCourse

LEMMA RelayRollbackInv ==
  ASSUME RelayInv, RelayRollback \/ RelayRollbackKill
  PROVE  RelayInv'
  <1>1. task.phase = "rolling_back"
    BY DEF RelayRollback, RelayRollbackKill
  <1>2. /\ Node \in NodeType /\ task \in TaskType /\ TaskFound
        /\ Traced(Node) /\ (~task.killed => Marked(Node))
    BY <1>1 DEF RelayInv, OnCourse, TaskFound, TaskType
  <1>3. CASE \E m \in Rollback(Node).ok : Becomes(m) /\ task' = [task EXCEPT !.phase = "rolled_back"]
    <2>1. PICK m \in Rollback(Node).ok : Becomes(m) /\ task' = [task EXCEPT !.phase = "rolled_back"]
      BY <1>3
    <2>2. m \in NodeType /\ Restored(m) /\ (Marked(Node) /\ task.ns = {} => m.ns = {})
      BY <1>2, RollbackIs
    <2>3. Node' = m
      BY <2>1, <2>2, NodeIs
    <2>4. task' \in TaskType /\ TaskKept /\ task'.killed = task.killed /\ task'.phase = "rolled_back"
      BY <1>2, <2>1 DEF TaskKept, TaskType
    <2>5. Restored(m)'
      BY <2>2, <2>4, KeptTask
    <2> QED BY <1>2, <2>2, <2>3, <2>4, <2>5 DEF RelayInv, OnCourse, TaskKept
  <1>4. CASE \E m \in Rollback(Node).err \cup Rollback(Node).cut :
                /\ Becomes(m)
                /\ \/ task' = [task EXCEPT !.phase = "failed"]
                   \/ task' = [task EXCEPT !.phase = "stuck", !.kills = @ + 1]
    <2>1. PICK m \in Rollback(Node).err \cup Rollback(Node).cut :
                /\ Becomes(m)
                /\ \/ task' = [task EXCEPT !.phase = "failed"]
                   \/ task' = [task EXCEPT !.phase = "stuck", !.kills = @ + 1]
      BY <1>4
    <2>2. m \in NodeType
      BY <1>2, RollbackIs
    <2>3. Node' = m
      BY <2>1, <2>2, NodeIs
    <2>4. task' \in TaskType /\ task'.phase \in {"failed", "stuck"}
      <3>1. CASE task' = [task EXCEPT !.phase = "failed"]
        BY <1>2, <3>1 DEF TaskType
      <3>2. CASE task' = [task EXCEPT !.phase = "stuck", !.kills = @ + 1]
        <4> DEFINE k == task.kills + 1
                   t1 == [task EXCEPT !.phase = "stuck"]
                   t2 == [t1 EXCEPT !.kills = k]
        <4>1. k \in Nat /\ task' = t2
          BY <1>2, <3>2 DEF TaskType
        <4> HIDE DEF k
        <4>2. t2 \in TaskType /\ t2.phase = "stuck"
          BY <1>2, <4>1 DEF TaskType
        <4> QED BY <4>1, <4>2
      <3> QED BY <2>1, <3>1, <3>2
    <2> QED BY <2>2, <2>3, <2>4 DEF RelayInv, OnCourse
  <1> QED BY <1>3, <1>4 DEF RelayRollback, RelayRollbackKill

LEMMA RelayStutter == RelayInv /\ UNCHANGED relayVars => RelayInv'
  <1> SUFFICES ASSUME RelayInv, UNCHANGED relayVars PROVE RelayInv'
    OBVIOUS
  <1>1. Node' = Node /\ task' = task /\ Steps' = Steps
    BY DEF relayVars, Node, Steps
  <1>2. TaskKept
    BY <1>1 DEF TaskKept
  <1>3. /\ Traced(Node)' <=> Traced(Node)
        /\ Marked(Node)' <=> Marked(Node)
        /\ Restored(Node)' <=> Restored(Node)
    BY <1>1 DEF Traced, Marked, Restored
  <1>4. Laid(Node, task.at)' <=> Laid(Node, task.at)
    BY <1>1 DEF Laid
  <1>5. Laid(Node, 11)' <=> Laid(Node, 11)
    BY <1>1 DEF Laid
  <1> QED BY <1>1, <1>3, <1>4, <1>5 DEF RelayInv, OnCourse

LEMMA RelayNextInv == RelayInv /\ [RelayNext]_relayVars => RelayInv'
  BY RelayStartInv, RelayStepInv, RelayFailInv, RelayKillInv, RelayRollbackInv, RelayStutter
     DEF RelayNext

\* However many operations ran before and however often scripts failed or were
\* killed half way and executed again: an operation recorded as rolled back left
\* the relay's files and services as it found them, and one recorded as done left
\* all of them running with its own files (backup.sh, rollback.sh and the other
\* scripts of node-artifacts/l2tp).
THEOREM RollbackRestoresHolds == RelaySpec => []RollbackRestores
  <1>1. RelayInv => RollbackRestores
    <2> SUFFICES ASSUME RelayInv PROVE RollbackRestores
      OBVIOUS
    <2>1. /\ Node.file = file /\ Node.ns = ns /\ Node.unit = unit /\ DOMAIN unit = RelayUnit
      BY DEF Node, RelayInv, NodeType
    <2>2. RelayUnit = L2tpUnit \cup {"xray"}
      BY DEF RelayUnit, L2tpUnit
    <2>3. task.phase = "rolled_back" =>
             /\ file = task.file
             /\ \A u \in DOMAIN unit :
                   /\ unit[u] = {} <=> task.unit[u] = {}
                   /\ unit[u] \in {task.unit[u], {file[Config[u]]}, {}}
             /\ task.ns = {} /\ ~task.killed => ns = {}
      BY <2>1 DEF RelayInv, OnCourse, Restored
    <2>4. task.phase = "done" /\ task.kind = "install" =>
             ns = ToSet(Namespace) /\ \A u \in DOMAIN unit : unit[u] = {task.n}
      BY <2>1, <2>2, RelayNames DEF RelayInv, OnCourse, Laid
    <2> QED BY <2>3, <2>4 DEF RollbackRestores
  <1> QED BY <1>1, RelayInitInv, RelayNextInv, PTL DEF RelaySpec
============================================================================
