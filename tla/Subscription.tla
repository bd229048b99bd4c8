---------------------------- MODULE Subscription ----------------------------
(***************************************************************************)
(* A user's subscription as clients fetch it (serveSubscription of          *)
(* subscription.js), through three caches in Redis: the rendered bodies,    *)
(* the active nodes and the settings; and the changes that must reach the   *)
(* clients.  Node "b" is the source of the virtual node "v"; node "a" is    *)
(* always online.  Bodies are known by the application they are for, the    *)
(* servers they list and the routing rules they carry.                      *)
(***************************************************************************)
EXTENDS Naturals, Sequences, FiniteSets

CONSTANTS
    Req,            \* requests under way at once
    Client,         \* applications of the user, a subset of Applications
    MaxEvents       \* bound on changes and on failures of Redis

Applications == {"uri", "happ", "happ-ios", "incy", "clash"}
ASSUME ClientAssumption == Client \subseteq Applications

VARIABLES
    db,             \* what the database says
    redis,          \* whether Redis can be reached
    nodesKey, settingsKey,      \* nodes:active and settings: {} or {value}
    subs,           \* sub:{token}:{format}, as above
    req,            \* the requests
    todo,           \* cache keys an editor has yet to delete, in rounds
    routingSave,    \* whether the routing form is between its two steps
    events,         \* changes and failures so far
    disturbed       \* ghost: a request overlapped a change, or Redis missed one

subVars == <<db, redis, nodesKey, settingsKey, subs, req, todo, routingSave, events,
            disturbed>>

XrayProfileClient(c) == c \in {"happ", "happ-ios", "incy"}

\* Mutant of CacheFormat: no split for applications that may get profiles.
CacheFormatByUri(c) == IF c = "happ-ios" THEN "uri+happ-ios"
                       ELSE IF XrayProfileClient(c) THEN "uri" ELSE c

\* detectFormat, selectRoutingProfile and the split of the key space.
CacheFormat(c) ==
    IF c = "happ-ios" THEN "uri+xprofile+happ-ios"
    ELSE IF XrayProfileClient(c) THEN "uri+xprofile" ELSE c

Key == {CacheFormat(c) : c \in Applications}
NoReq == [pc |-> "idle", client |-> "uri", member |-> FALSE, rules |-> "r0",
          online |-> FALSE, hide |-> FALSE, missed |-> {}]

SubInit ==
    /\ db = [online |-> TRUE, member |-> TRUE, hide |-> TRUE, rules |-> "r0"]
    /\ redis = TRUE
    /\ nodesKey = {} /\ settingsKey = {}
    /\ subs = [k \in Key |-> {}]
    /\ req = [r \in Req |-> NoReq]
    /\ todo = <<>> /\ routingSave = FALSE
    /\ events = 0 /\ disturbed = FALSE

-----------------------------------------------------------------------------
(* What a body is.                                                          *)

\* getActiveNodes and resolveVirtualSources: nodes of the user's groups, offline
\* ones hidden if so configured, and a virtual node only with a source left.
ActiveNodes(member, online, hide) ==
    IF ~member THEN {}
    ELSE {"a"} \cup IF online \/ ~hide THEN {"b", "v"} ELSE {}

\* generateSubscriptionData: profiles instead of a list, for those who can read
\* them, when there is a virtual node.
Shape(c, list) ==
    IF c = "clash" THEN "clash"
    ELSE IF XrayProfileClient(c) /\ "v" \in list THEN "xray" ELSE "list"

Body(c, list, rules) ==
    [shape |-> Shape(c, list), list |-> list,
     rules |-> IF Shape(c, list) = "list" THEN {}
               ELSE IF c = "happ-ios" THEN {"ios"} ELSE {rules}]

-----------------------------------------------------------------------------
(* Requests.                                                                *)

InFlight == \E r \in Req : req[r].pc # "idle"
EditorSame == UNCHANGED <<db, redis, todo, routingSave, events>>
Event == events < MaxEvents /\ events' = events + 1
Cached(key) == IF redis THEN key ELSE {}

\* getUserByToken and validateUser.
Arrive(r, c) ==
    /\ req[r].pc = "idle"
    /\ req' = [req EXCEPT ![r] = [NoReq EXCEPT !.pc = "settings", !.client = c,
                                               !.member = db.member]]
    /\ disturbed' = (disturbed \/ todo # <<>>)
    /\ EditorSame /\ UNCHANGED <<nodesKey, settingsKey, subs>>

\* getSettings: the cached value, or the database's and then a cached one.
ReadSettings(r) ==
    /\ req[r].pc = "settings"
    /\ \E s \in IF Cached(settingsKey) # {} THEN settingsKey
                ELSE {[hide |-> db.hide, rules |-> db.rules]} :
        req' = [req EXCEPT ![r].rules = s.rules, ![r].hide = s.hide, ![r].pc = "lookup",
                           ![r].missed = IF Cached(settingsKey) = {} THEN {"settings"} ELSE {}]
    /\ EditorSame /\ UNCHANGED <<nodesKey, settingsKey, subs, disturbed>>

\* setSettings, getSubscription.
Lookup(r) ==
    LET q == req[r] IN
    /\ q.pc = "lookup"
    /\ settingsKey' = IF redis /\ "settings" \in q.missed
                      THEN {[hide |-> q.hide, rules |-> q.rules]} ELSE settingsKey
    /\ req' = [req EXCEPT ![r] = IF Cached(subs[CacheFormat(q.client)]) # {} THEN NoReq
                                 ELSE [q EXCEPT !.pc = "nodes", !.missed = {}]]
    /\ EditorSame /\ UNCHANGED <<nodesKey, subs, disturbed>>

\* getActiveNodes reads the nodes and, again, the settings.
ReadNodes(r) ==
    /\ req[r].pc = "nodes"
    /\ \E n \in IF Cached(nodesKey) # {} THEN nodesKey ELSE {db.online},
          s \in IF Cached(settingsKey) # {} THEN settingsKey
                ELSE {[hide |-> db.hide, rules |-> db.rules]} :
        req' = [req EXCEPT ![r].online = n, ![r].hide = s.hide, ![r].pc = "generate",
                           ![r].missed = IF Cached(nodesKey) = {} THEN {"nodes"} ELSE {}]
    /\ EditorSame /\ UNCHANGED <<nodesKey, settingsKey, subs, disturbed>>

\* setActiveNodes, generateSubscriptionData, setSubscription; 503 without servers.
Generate(r) ==
    LET q == req[r]
        list == ActiveNodes(q.member, q.online, q.hide) IN
    /\ q.pc = "generate"
    /\ nodesKey' = IF redis /\ "nodes" \in q.missed THEN {q.online} ELSE nodesKey
    /\ subs' = IF redis /\ list # {}
               THEN [subs EXCEPT ![CacheFormat(q.client)] = {Body(q.client, list, q.rules)}]
               ELSE subs
    /\ req' = [req EXCEPT ![r] = NoReq]
    /\ EditorSame /\ UNCHANGED <<settingsKey, disturbed>>

-----------------------------------------------------------------------------
(* Changes: the database first, then the keys that depend on it.            *)

Change(new, rounds) ==
    /\ todo = <<>> /\ ~routingSave /\ Event
    /\ db' = new /\ todo' = rounds
    /\ disturbed' = (disturbed \/ InFlight)
    /\ UNCHANGED <<redis, nodesKey, settingsKey, subs, req, routingSave>>

\* A node is edited, or a health check finds it online or offline.
NodeChange == Change([db EXCEPT !.online = ~@], <<{"nodes", "subs"}>>)

\* Mutant of UserChange: the rendered bodies are forgotten.
UserChangeUncached == Change([db EXCEPT !.member = ~@], <<>>)

\* A user's groups change.
UserChange == Change([db EXCEPT !.member = ~@], <<{"subs"}>>)

\* The system tab, with its load-balancing switches.
SystemChange == Change([db EXCEPT !.hide = ~@], <<{"settings"}, {"subs"}>>)

\* The routing tab drops the bodies first, and writes the rules afterwards.
BeginRoutingSave ==
    /\ todo = <<>> /\ ~routingSave /\ Event
    /\ routingSave' = TRUE
    /\ subs' = IF redis THEN [k \in Key |-> {}] ELSE subs
    /\ disturbed' = (disturbed \/ ~redis)
    /\ UNCHANGED <<db, redis, nodesKey, settingsKey, req, todo>>

EndRoutingSave ==
    /\ routingSave
    /\ routingSave' = FALSE
    /\ db' = [db EXCEPT !.rules = IF @ = "r0" THEN "r1" ELSE "r0"]
    /\ todo' = <<{"settings"}>>
    /\ disturbed' = (disturbed \/ InFlight)
    /\ UNCHANGED <<redis, nodesKey, settingsKey, subs, req, events>>

\* A deletion Redis does not hear of is only logged.
Invalidate(what) ==
    /\ todo # <<>> /\ what \in Head(todo)
    /\ todo' = IF Head(todo) = {what} THEN Tail(todo)
               ELSE [todo EXCEPT ![1] = @ \ {what}]
    /\ nodesKey'    = IF redis /\ what = "nodes" THEN {} ELSE nodesKey
    /\ settingsKey' = IF redis /\ what = "settings" THEN {} ELSE settingsKey
    /\ subs'        = IF redis /\ what = "subs" THEN [k \in Key |-> {}] ELSE subs
    /\ disturbed' = (disturbed \/ ~redis)
    /\ UNCHANGED <<db, redis, req, routingSave, events>>

\* Keys live for their TTL; once all are gone, so is what disturbed them.
Expire ==
    /\ \/ nodesKey' = {} /\ UNCHANGED <<settingsKey, subs>>
       \/ settingsKey' = {} /\ UNCHANGED <<nodesKey, subs>>
       \/ \E k \in Key : subs' = [subs EXCEPT ![k] = {}] /\ UNCHANGED <<nodesKey, settingsKey>>
    /\ disturbed' = (disturbed /\ ~(/\ ~InFlight /\ todo = <<>>
                                    /\ nodesKey' = {} /\ settingsKey' = {}
                                    /\ \A k \in Key : subs'[k] = {}))
    /\ UNCHANGED <<db, redis, req, todo, routingSave, events>>

RedisFlaps ==
    /\ redis' = ~redis
    /\ IF redis THEN Event ELSE UNCHANGED events
    /\ UNCHANGED <<db, nodesKey, settingsKey, subs, req, todo, routingSave, disturbed>>

SubNext ==
    \/ \E r \in Req : \/ \E c \in Client : Arrive(r, c)
                      \/ ReadSettings(r) \/ Lookup(r) \/ ReadNodes(r) \/ Generate(r)
    \/ NodeChange \/ UserChange \/ SystemChange
    \/ BeginRoutingSave \/ EndRoutingSave
    \/ \E what \in {"nodes", "settings", "subs"} : Invalidate(what)
    \/ Expire \/ RedisFlaps

SubSpec == SubInit /\ [][SubNext]_subVars

-----------------------------------------------------------------------------
\* A body in the cache is one that every application reading under its key can
\* use, whichever of them caused it to be rendered.
OwnVariant ==
    \A c \in Client : \A b \in subs[CacheFormat(c)] :
        /\ b.shape = Shape(c, b.list)
        /\ "ios" \in b.rules <=> c = "happ-ios" /\ b.shape # "list"

\* Once a change is through, no cached body lists other servers than the user has
\* now, unless a request overlapped the change or Redis missed it.
FreshUnlessDisturbed ==
    ~disturbed /\ todo = <<>> =>
        \A k \in Key : \A b \in subs[k] :
            b.list = ActiveNodes(db.member, db.online, db.hide)

\* What an application is served from the cache is a list it can read, of the
\* servers its user has.
CacheIsSound == OwnVariant /\ FreshUnlessDisturbed

\* What the comment in the settings route says of the routing form: cached bodies
\* are dropped "so clients receive updated rules immediately".
RulesAtOnce ==
    ~disturbed /\ todo = <<>> /\ ~routingSave =>
        \A k \in Key : \A b \in subs[k] : b.rules \subseteq {"ios", db.rules}
=============================================================================
