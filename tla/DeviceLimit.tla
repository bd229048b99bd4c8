----------------------------- MODULE DeviceLimit -----------------------------
(***************************************************************************)
(* The devices of one user: the gate that every subscription request of an *)
(* application passes (runHwidSubscriptionGate of subscription.js), and the *)
(* registry behind it (hwidDeviceService.js), which counts before and after *)
(* it inserts because requests of several devices run at once.              *)
(***************************************************************************)
EXTENDS Naturals, FiniteSets

CONSTANTS
    Hwid,           \* devices of the user
    NoHwid,         \* what a client sends that has no such header
    Fetch,          \* subscription requests under way at once
    Limit           \* effectiveDeviceLimit, when there is one

ASSUME LimitAssumption == Limit \in Nat \ {0} /\ NoHwid \notin Hwid

VARIABLES
    rows,           \* UserDevice documents
    cooldown,       \* hwidUpsert keys in Redis
    policy,         \* the mode in force, whether there is a limit, and since when
    fetch,          \* the requests
    lenient         \* ghost: devices have been registered without enforcement

deviceVars == <<rows, cooldown, policy, fetch, lenient>>

Mode == {"off", "permissive", "strict"}
NoFetch == [pc |-> "idle", hwid |-> NoHwid, enforce |-> FALSE, reply |-> "none"]

DeviceInit ==
    /\ rows = {} /\ cooldown = {}
    /\ policy = [mode |-> "off", limited |-> FALSE, since |-> TRUE]
    /\ fetch = [f \in Fetch |-> NoFetch]
    /\ lenient = FALSE

Step(f, pc) == fetch' = [fetch EXCEPT ![f].pc = pc]
Reply(f, reply) == fetch' = [fetch EXCEPT ![f] = [NoFetch EXCEPT !.reply = reply]]

-----------------------------------------------------------------------------
\* resolveMode and effectiveDeviceLimit: without a mode or a limit devices are
\* only recorded; before hwidEnforceFrom they are let in.
Gate(f, h) ==
    LET capped == policy.mode # "off" /\ policy.limited IN
    /\ fetch[f].pc = "idle"
    /\ fetch' = [fetch EXCEPT ![f] =
           IF h # NoHwid
           THEN [pc |-> "find", hwid |-> h, reply |-> "none",
                 enforce |-> capped /\ policy.since]
           ELSE [NoFetch EXCEPT !.reply =
                 IF capped /\ policy.mode = "strict" THEN "blocked" ELSE "real"]]
    /\ UNCHANGED <<rows, cooldown, policy, lenient>>

\* checkAndUpsert: a known device is let in ...
FindDevice(f) ==
    /\ fetch[f].pc = "find"
    /\ IF fetch[f].hwid \in rows THEN Reply(f, "real") ELSE Step(f, "throttle")
    /\ UNCHANGED <<rows, cooldown, policy, lenient>>

\* ... so is an unknown one that asked a moment ago; without Redis there is no
\* throttle ...
Throttle(f) ==
    /\ fetch[f].pc = "throttle"
    /\ \/ /\ fetch[f].hwid \in cooldown
          /\ Reply(f, "real") /\ UNCHANGED cooldown
       \/ /\ fetch[f].hwid \notin cooldown
          /\ Step(f, "count") /\ cooldown' = cooldown \cup {fetch[f].hwid}
       \/ Step(f, "count") /\ UNCHANGED cooldown
    /\ UNCHANGED <<rows, policy, lenient>>

\* ... the others only while there is room ...
CountDevices(f) ==
    /\ fetch[f].pc = "count"
    /\ IF fetch[f].enforce /\ Cardinality(rows) >= Limit
       THEN Reply(f, "blocked")
       ELSE Step(f, "create")
    /\ UNCHANGED <<rows, cooldown, policy, lenient>>

\* ... and a duplicate key is a known device after all.
CreateDevice(f) ==
    /\ fetch[f].pc = "create"
    /\ IF fetch[f].hwid \in rows
       THEN Reply(f, "real") /\ UNCHANGED <<rows, lenient>>
       ELSE /\ Step(f, "recount")
            /\ rows' = rows \cup {fetch[f].hwid}
            /\ lenient' = (lenient \/ ~fetch[f].enforce)
    /\ UNCHANGED <<cooldown, policy>>

\* Mutant of Recount: the first count is trusted.
RecountSkipped(f) ==
    /\ fetch[f].pc = "recount"
    /\ Reply(f, "real")
    /\ UNCHANGED <<rows, cooldown, policy, lenient>>

\* The second count sees the rows of requests that ran at the same time.
Recount(f) ==
    /\ fetch[f].pc = "recount"
    /\ IF fetch[f].enforce /\ Cardinality(rows) > Limit
       THEN rows' = rows \ {fetch[f].hwid} /\ Reply(f, "blocked")
       ELSE Reply(f, "real") /\ UNCHANGED rows
    /\ UNCHANGED <<cooldown, policy, lenient>>

-----------------------------------------------------------------------------
\* The REST and MCP operations that unlink one device or all.
Unlink(gone) ==
    /\ gone # {} /\ gone \subseteq rows
    /\ rows' = rows \ gone
    /\ UNCHANGED <<cooldown, policy, fetch, lenient>>

\* cleanupStale: only what has not been seen for days, so no request of it is
\* under way.
CleanupStale ==
    /\ \E h \in rows : /\ \A f \in Fetch : fetch[f].pc = "idle" \/ fetch[f].hwid # h
                       /\ rows' = rows \ {h}
    /\ UNCHANGED <<cooldown, policy, fetch, lenient>>

\* The settings, the user's hwidMode and maxDevices, and the passing of time.
SetPolicy ==
    /\ policy' \in [mode : Mode, limited : BOOLEAN, since : BOOLEAN]
    /\ UNCHANGED <<rows, cooldown, fetch, lenient>>

CooldownOver ==
    /\ \E h \in cooldown : cooldown' = cooldown \ {h}
    /\ UNCHANGED <<rows, policy, fetch, lenient>>

DeviceNext ==
    \/ \E f \in Fetch :
        \/ \E h \in Hwid \cup {NoHwid} : Gate(f, h)
        \/ FindDevice(f) \/ Throttle(f) \/ CountDevices(f) \/ CreateDevice(f) \/ Recount(f)
    \/ \E gone \in SUBSET rows : Unlink(gone)
    \/ CleanupStale \/ SetPolicy \/ CooldownOver

DeviceSpec == DeviceInit /\ [][DeviceNext]_deviceVars

-----------------------------------------------------------------------------
Settled == {h \in rows : \A f \in Fetch : fetch[f].pc = "recount" => fetch[f].hwid # h}

\* However many devices ask at once, no more than the limit get to stay, as long
\* as the limit has been enforced on all that were registered.
LimitHolds == ~lenient => Cardinality(Settled) <= Limit

\* What the comment on the gate says: "In all modes, when a client sending x-hwid
\* exceeds the limit, it gets the same soft-block response".
ExceededIsBlocked ==
    [][\A f \in Fetch :
        (/\ fetch[f].pc # "idle" /\ fetch'[f].pc = "idle"
         /\ fetch[f].enforce /\ fetch[f].hwid \notin rows
         /\ Cardinality(rows) >= Limit)
            => fetch'[f].reply = "blocked"]_deviceVars
=============================================================================
