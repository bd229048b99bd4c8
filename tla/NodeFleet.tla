----------------------------- MODULE NodeFleet -----------------------------
(***************************************************************************)
(* The nodes of the panel, as REST, the panel's forms and MCP create, edit, *)
(* delete, switch on and off and set them up.  Every request reads the node *)
(* first, may then work for minutes on the server behind it, and writes     *)
(* what it decided on the document it read; nothing keeps two requests for  *)
(* the same node apart but a unique index on address and protocol.          *)
(***************************************************************************)
EXTENDS Naturals, FiniteSets

CONSTANTS FleetId,         \* documents
          FleetReq,        \* requests that may be in flight together
          Cred,            \* SSH credentials an operator may enter
          MaxFleetRequests

ASSUME FleetAssumption ==
    MaxFleetRequests \in Nat /\ "n1" \in FleetId /\ "" \notin FleetId

VARIABLES there,    \* documents that exist
          node,     \* their content
          members,  \* nodes listed by some user
          runs,     \* protocols whose service runs on the server
          served,   \* Reality key its Xray was configured with
          agent,    \* token and node the server's agent was installed with
          rewrote,  \* nodes whose token an edit replaced
          freq,     \* requests
          asked     \* number of requests so far

fleetVars == <<there, node, members, runs, served, agent, rewrote, freq, asked>>

Protocol == {"hysteria", "xray"}
Type == Protocol \cup {"virtual"}
Address == "ip1"
NoAddress == "null"
NoCred == "none"
Keep == "keep"
Api == {"rest", "form", "mcp"}
NoToken == 0

\* What a request makes up: no other request's.
Fresh(r) == IF r = CHOOSE x \in FleetReq : TRUE THEN 300 ELSE 301

Blank == [type |-> "hysteria", ip |-> NoAddress, ssh |-> NoCred, token |-> NoToken, keys |-> NoToken,
          active |-> FALSE, status |-> "offline"]
NoArg == [type |-> "", ip |-> NoAddress, ssh |-> Keep, wipe |-> FALSE]
NoFleetReq == [kind |-> "none", at |-> "", n |-> "", api |-> "", doc |-> Blank, arg |-> NoArg]

FleetInit ==
    /\ there = {"n1"}
    /\ node = [n \in FleetId |->
                  IF n = "n1" THEN [Blank EXCEPT !.type = "xray", !.ip = Address, !.ssh = "c1"]
                  ELSE Blank]
    /\ members = {"n1"}
    /\ runs = {}
    /\ served = NoToken
    /\ agent = [token |-> NoToken, node |-> ""]
    /\ rewrote = {}
    /\ freq = [r \in FleetReq |-> NoFleetReq]
    /\ asked = 0

(* Two documents may not have one address and one protocol. *)
Taken(ip, type, n) ==
    \E m \in there \ {n} : ip # NoAddress /\ node[m].ip = ip /\ node[m].type = type

Put(n, doc) == node' = [node EXCEPT ![n] = doc]
Later(r, at) == freq' = [freq EXCEPT ![r].at = at]
Finish(r) == freq' = [freq EXCEPT ![r] = NoFleetReq]
Begin(r, kind, at, n, api, doc, arg) ==
    /\ freq[r] = NoFleetReq
    /\ asked < MaxFleetRequests
    /\ asked' = asked + 1
    /\ freq' = [freq EXCEPT ![r] = [kind |-> kind, at |-> at, n |-> n, api |-> api,
                                    doc |-> doc, arg |-> arg]]
At_(r, kind, at) == freq[r].kind = kind /\ freq[r].at = at

-----------------------------------------------------------------------------
(* Create: a look for a duplicate and for the sibling whose credentials a    *)
(* request without any of its own inherits, then the insert.                 *)

Sibling(ip, type) == {m \in there : node[m].ip = ip /\ node[m].type # type}

CreateFleetNode(r) ==
    \E n \in FleetId \ there, api \in Api, type \in Type, ssh \in Cred \cup {NoCred},
       active \in BOOLEAN :
       LET ip == IF type = "virtual" THEN NoAddress ELSE Address
           old == IF ssh = NoCred /\ type # "virtual" THEN Sibling(ip, type) ELSE {}
       IN  /\ api # "form" => active /\ (type = "virtual" => ssh = NoCred)
           /\ node[n].status # "gone"   \* no id is used twice
           /\ \A q \in FleetReq : freq[q].kind = "create" => freq[q].n # n
           /\ ~Taken(ip, type, n)
           /\ \E from \in IF old = {} THEN {ssh} ELSE {node[m].ssh : m \in old} :
                 Begin(r, "create", "save", n, api,
                       [Blank EXCEPT !.type = type, !.ip = ip, !.ssh = from, !.active = active,
                                     !.token = IF api = "form" /\ type = "xray"
                                               THEN 100 + asked ELSE NoToken],
                       NoArg)
           /\ UNCHANGED <<there, node, members, runs, served, agent, rewrote>>

\* The index refuses a document whose place was taken in the meantime.
Insertable(n, doc) == ~Taken(doc.ip, doc.type, n)

InsertFleetNode(r) ==
    /\ At_(r, "create", "save")
    /\ LET n == freq[r].n
       IN  IF Insertable(n, freq[r].doc)
           THEN /\ there' = there \cup {n}
                /\ Put(n, freq[r].doc)
           ELSE UNCHANGED <<there, node>>
    /\ Finish(r)
    /\ UNCHANGED <<members, runs, served, agent, rewrote, asked>>

-----------------------------------------------------------------------------
(* Edit: what the request sets (Keep: nothing), the document it was checked  *)
(* against, one write, and the credentials of the siblings.                  *)

EditFleetNode(r) ==
    \E n \in there, api \in Api, type \in Type, ssh \in Cred \cup {Keep}, wipe \in BOOLEAN :
       /\ type = "virtual" \/ node[n].ip # NoAddress \/ api = "form"
       /\ wipe => api = "rest" /\ type = "xray"
       /\ Begin(r, "edit", "write", n, api, node[n],
                [type |-> type, ip |-> IF type = "virtual" THEN NoAddress ELSE Address,
                 ssh |-> ssh, wipe |-> wipe])
       /\ UNCHANGED <<there, node, members, runs, served, agent, rewrote>>

\* REST and MCP set what the request names; a form saves what differs from the
\* document it loaded; whether the node is active comes with it, without a word
\* to the server.  REST replaces the whole `xray` of a node, a form gives
\* an Xray node without a token a new one (the bridge role aside).
Edited(q) ==
    LET now == node[q.n]
        form == q.api = "form"
        set(f, new) == IF form /\ new = q.doc[f] THEN now[f] ELSE new
        fresh == form /\ q.arg.type = "xray" /\ q.doc.token = NoToken
    IN  [now EXCEPT !.type = set("type", q.arg.type),
                    !.ip = IF form \/ q.arg.type = "virtual" THEN set("ip", q.arg.ip) ELSE @,
                    !.ssh = IF q.arg.ssh = Keep THEN @ ELSE q.arg.ssh,
                    !.token = IF q.arg.wipe THEN NoToken
                              ELSE IF fresh THEN 200 + asked ELSE @,
                    !.keys = IF q.arg.wipe THEN NoToken ELSE @]

WriteFleetNode(r) ==
    /\ At_(r, "edit", "write")
    /\ \E active \in BOOLEAN :
       LET q == freq[r]
           doc == [Edited(q) EXCEPT !.active = active]
           ok == q.n \in there /\ Insertable(q.n, doc)
       IN  /\ IF ok
              THEN /\ Put(q.n, doc)
                   /\ rewrote' = IF doc.token # node[q.n].token THEN rewrote \cup {q.n}
                                 ELSE rewrote
              ELSE UNCHANGED <<node, rewrote>>
           /\ IF ok /\ (q.api = "form" \/ (q.api = "rest" /\ q.arg.ssh # Keep))
              THEN freq' = [freq EXCEPT ![r].at = "siblings", ![r].doc = doc]
              ELSE Finish(r)
    /\ UNCHANGED <<there, members, runs, served, agent, asked>>

\* Every other document of the address, of no address too, takes over the
\* credentials: of the document as REST wrote it, as a form reads it again.
CopySsh(r) ==
    /\ At_(r, "edit", "siblings")
    /\ LET q == freq[r]
           doc == IF q.api = "form" THEN node[q.n] ELSE q.doc
       IN  node' = [m \in FleetId |->
                       IF m \in there \ {q.n} /\ node[m].ip = doc.ip /\ q.n \in there
                       THEN [node[m] EXCEPT !.ssh = doc.ssh] ELSE node[m]]
    /\ Finish(r)
    /\ UNCHANGED <<there, members, runs, served, agent, rewrote, asked>>

\* A key made on the server is stored for this document alone.
GenerateSshKey(r) ==
    \E n \in there :
       /\ node[n].type # "virtual" /\ node[n].ssh # NoCred
       /\ Begin(r, "key", "write", n, "form", node[n], NoArg)
       /\ UNCHANGED <<there, node, members, runs, served, agent, rewrote>>

StoreSshKey(r) ==
    /\ At_(r, "key", "write")
    /\ IF freq[r].n \in there
       THEN \E c \in Cred : Put(freq[r].n, [node[freq[r].n] EXCEPT !.ssh = c])
       ELSE UNCHANGED node
    /\ Finish(r)
    /\ UNCHANGED <<there, members, runs, served, agent, rewrote, asked>>

DeleteFleetNode(r) ==
    \E n \in there :
       /\ Begin(r, "delete", "pull", n, "rest", node[n], NoArg)
       /\ there' = there \ {n}
       /\ Put(n, [Blank EXCEPT !.status = "gone"])
       /\ UNCHANGED <<members, runs, served, agent, rewrote>>

PullFromUsers(r) ==
    /\ At_(r, "delete", "pull")
    /\ members' = members \ {freq[r].n}
    /\ Finish(r)
    /\ UNCHANGED <<there, node, runs, served, agent, rewrote, asked>>

-----------------------------------------------------------------------------
(* Enable and disable: the service first, then the document.                 *)

SwitchNode(r) ==
    \E n \in there, on \in BOOLEAN :
       /\ Begin(r, IF on THEN "enable" ELSE "disable", "runtime", n, "rest", node[n], NoArg)
       /\ UNCHANGED <<there, node, members, runs, served, agent, rewrote>>

\* The document as read decides which service; an Xray node with a token is
\* started by its agent, everything else needs credentials.
Reachable(doc) == doc.ssh # NoCred

SwitchRuntime(r) ==
    /\ freq[r].kind \in {"enable", "disable"} /\ freq[r].at = "runtime"
    /\ LET q == freq[r]
           byAgent == q.kind = "enable" /\ q.doc.type = "xray" /\ q.doc.token # NoToken
           after == IF q.kind = "enable" THEN runs \cup {q.doc.type} ELSE runs \ {q.doc.type}
       IN  \/ /\ q.doc.type = "virtual" \/ Reachable(q.doc) \/ byAgent
              /\ byAgent => agent.token = q.doc.token
              /\ runs' = IF q.doc.type = "virtual" THEN runs ELSE after
              /\ served' = IF byAgent THEN q.doc.keys ELSE served
              /\ Later(r, "ok")
           \* failed before or after the service heard of it
           \/ /\ q.doc.type # "virtual"
              /\ runs' \in IF Reachable(q.doc) THEN {runs, after, runs \ {q.doc.type}} ELSE {runs}
              /\ UNCHANGED served
              /\ Later(r, "failed")
    /\ UNCHANGED <<there, node, members, agent, rewrote, asked>>

\* A node that could not be stopped is disabled all the same; one that could
\* not be started stays off.
SwitchWritten(q) ==
    [node[q.n] EXCEPT
        !.active = q.kind = "enable" /\ q.at = "ok",
        !.status = IF q.kind = "enable" /\ q.at = "ok"
                   THEN IF q.doc.type = "virtual" THEN q.doc.status ELSE "online"
                   ELSE "offline"]

WriteSwitch(r) ==
    /\ freq[r].kind \in {"enable", "disable"} /\ freq[r].at \in {"ok", "failed"}
    /\ IF freq[r].n \in there THEN Put(freq[r].n, SwitchWritten(freq[r])) ELSE UNCHANGED node
    /\ Finish(r)
    /\ UNCHANGED <<there, members, runs, served, agent, rewrote, asked>>

-----------------------------------------------------------------------------
(* Set-up.  REST and MCP install the protocol's service, a form the agent of *)
(* an Xray node as well.                                                     *)

SetupNode(r) ==
    \E n \in there, api \in Api :
       /\ node[n].type # "virtual" /\ node[n].ssh # NoCred
       /\ Begin(r, "setup", IF api = "form" /\ node[n].type = "xray" THEN "token" ELSE "install",
                n, api, node[n], NoArg)
       /\ UNCHANGED <<there, node, members, runs, served, agent, rewrote>>

\* Bug: the new token is written whether or not the document has one by now.
EnsureTokenAlways(r) ==
    /\ At_(r, "setup", "token")
    /\ LET q == freq[r]
           token == IF q.doc.token # NoToken THEN q.doc.token
                    ELSE Fresh(r)
       IN  /\ IF q.n \in there THEN Put(q.n, [node[q.n] EXCEPT !.token = token]) ELSE UNCHANGED node
           /\ freq' = [freq EXCEPT ![r].at = "install", ![r].doc.token = token]
    /\ UNCHANGED <<there, members, runs, served, agent, rewrote, asked>>

\* A token is written only to a document that still has none; whichever token
\* the document has then is the one that is installed.
EnsureAgentToken(r) ==
    /\ At_(r, "setup", "token")
    /\ LET q == freq[r]
           token == IF q.doc.token # NoToken THEN q.doc.token
                    ELSE IF node[q.n].token # NoToken THEN node[q.n].token ELSE Fresh(r)
       IN  IF q.doc.token = NoToken /\ q.n \notin there
           THEN UNCHANGED node /\ Later(r, "failed")
           ELSE /\ IF q.n \in there /\ q.doc.token = NoToken
                   THEN Put(q.n, [node[q.n] EXCEPT !.token = token]) ELSE UNCHANGED node
                /\ freq' = [freq EXCEPT ![r].at = "install", ![r].doc.token = token]
    /\ UNCHANGED <<there, members, runs, served, agent, rewrote, asked>>

\* A failed start of the service is only a warning.
Started(type) == \/ runs' = runs \cup {type}
                 \/ UNCHANGED runs

AfterInstall(q) == IF q.api = "form" /\ q.doc.type = "xray" THEN "agent" ELSE "ok"

InstallHysteria(r) ==
    /\ At_(r, "setup", "install") /\ freq[r].doc.type = "hysteria"
    /\ \/ Started("hysteria") /\ Later(r, "ok")
       \/ UNCHANGED runs /\ Later(r, "failed")
    /\ UNCHANGED <<there, node, members, served, agent, rewrote, asked>>

\* Reality keys are made when the document, as read, has none, and replace
\* whatever it has by now.
MakeRealityKeys(r) ==
    /\ At_(r, "setup", "install") /\ freq[r].doc.type = "xray"
    /\ \/ LET q == freq[r]
              keys == IF q.doc.keys # NoToken THEN q.doc.keys ELSE Fresh(r)
          IN  /\ IF q.n \in there /\ keys # q.doc.keys
                 THEN Put(q.n, [node[q.n] EXCEPT !.keys = keys]) ELSE UNCHANGED node
              /\ freq' = [freq EXCEPT ![r].at = "upload", ![r].doc.keys = keys]
       \/ UNCHANGED node /\ Later(r, "failed")
    /\ UNCHANGED <<there, members, runs, served, agent, rewrote, asked>>

InstallXray(r) ==
    /\ At_(r, "setup", "upload")
    /\ \/ /\ served' = freq[r].doc.keys
          /\ \/ Started("xray") /\ Later(r, AfterInstall(freq[r]))
             \/ UNCHANGED runs /\ Later(r, "failed")
       \/ UNCHANGED <<runs, served>> /\ Later(r, "failed")
    /\ UNCHANGED <<there, node, members, agent, rewrote, asked>>

InstallAgent(r) ==
    /\ At_(r, "setup", "agent")
    /\ \/ /\ agent' = [token |-> freq[r].doc.token, node |-> freq[r].n]
          /\ \/ Later(r, "record")
             \/ Later(r, "failed")      \* it did not start
       \/ UNCHANGED agent /\ Later(r, "failed")
    /\ UNCHANGED <<there, node, members, runs, served, rewrote, asked>>

RecordAgent(r) ==
    /\ At_(r, "setup", "record")
    /\ IF freq[r].n \in there
       THEN Put(freq[r].n, [node[freq[r].n] EXCEPT !.token = freq[r].doc.token])
       ELSE UNCHANGED node
    /\ Later(r, "ok")
    /\ UNCHANGED <<there, members, runs, served, agent, rewrote, asked>>

WriteSetup(r) ==
    /\ freq[r].kind = "setup" /\ freq[r].at \in {"ok", "failed"}
    /\ IF freq[r].n \in there
       THEN Put(freq[r].n, [node[freq[r].n] EXCEPT
                               !.status = IF freq[r].at = "ok" THEN "online" ELSE "error"])
       ELSE UNCHANGED node
    /\ Finish(r)
    /\ UNCHANGED <<there, members, runs, served, agent, rewrote, asked>>

FleetNext ==
    \E r \in FleetReq :
       \/ CreateFleetNode(r) \/ InsertFleetNode(r)
       \/ EditFleetNode(r) \/ WriteFleetNode(r) \/ CopySsh(r)
       \/ GenerateSshKey(r) \/ StoreSshKey(r)
       \/ DeleteFleetNode(r) \/ PullFromUsers(r)
       \/ SwitchNode(r) \/ SwitchRuntime(r) \/ WriteSwitch(r)
       \/ SetupNode(r) \/ EnsureAgentToken(r) \/ InstallHysteria(r) \/ MakeRealityKeys(r)
       \/ InstallXray(r) \/ InstallAgent(r)
       \/ RecordAgent(r) \/ WriteSetup(r)

FleetSpec == FleetInit /\ [][FleetNext]_fleetVars

-----------------------------------------------------------------------------
(* The token in a node's document is the one its agent was installed with,   *)
(* however many set-ups overlapped and at whatever stage they are; only an   *)
(* edit that replaced the token (REST's whole `xray`, or a form loaded       *)
(* before the token existed) can have changed that.                          *)
TokenAgrees ==
    \A n \in there : agent.node = n /\ n \notin rewrote => node[n].token = agent.token

(* An edit that brings no credentials leaves those of the address's other    *)
(* nodes alone.                                                              *)
SiblingsKeepSsh ==
    [][\A r \in FleetReq :
         At_(r, "edit", "siblings") /\ freq'[r] # freq[r] /\ freq[r].arg.ssh = Keep
         => \A n \in there : node'[n].ssh = node[n].ssh]_fleetVars
============================================================================
