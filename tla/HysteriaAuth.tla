----------------------------- MODULE HysteriaAuth -----------------------------
(***************************************************************************)
(* Whom a Hysteria node lets in.  For each connection the node asks the    *)
(* panel, which answers from a copy of the user's document in Redis and    *)
(* counts the addresses it has lately let in, each step a round trip of its *)
(* own.  One user; times are ages that stop at their limit.                *)
(***************************************************************************)
EXTENDS Naturals, FiniteSets

CONSTANTS Ip, AuthReq,
          DeviceCap,        \* maxDevices, or the least of the groups'
          CopyTtl,          \* how long a copy of the document lives
          MaxAnswer,        \* bound: how long a request may take
          MaxDisturbances   \* bound: edits of the user and outages of Redis

ASSUME AuthAssumption == /\ {DeviceCap, CopyTtl} \subseteq Nat \ {0}
                         /\ {MaxAnswer, MaxDisturbances} \subseteq Nat
                         /\ IsFiniteSet(AuthReq)

VARIABLES account,    \* the document, as far as it decides
          copy,       \* its copy in Redis: whether it lets the user in, ticks left
          recent,     \* addresses recorded within the grace period
          redisUp,
          auth,       \* the requests
          wiping,     \* what the last edit has still to remove from Redis
          unentitled, \* ghost: ticks since the user was last to be let in
          tally

authVars == <<account, copy, recent, redisUp, auth, wiping, unentitled, tally>>

NoCopy == [grants |-> FALSE, left |-> 0]
NoAuth == [at |-> "none", ip |-> "none", grants |-> FALSE, age |-> 0]

AuthInit ==
    /\ account = [enabled |-> TRUE, over |-> FALSE]
    /\ copy = NoCopy
    /\ recent = {}
    /\ redisUp = TRUE
    /\ auth = [r \in AuthReq |-> NoAuth]
    /\ wiping = {}
    /\ unentitled = 0
    /\ tally = [edits |-> 0, outages |-> 0]

Recent == IF redisUp THEN recent ELSE {}

Grants(a) == a.enabled /\ ~a.over

\* A request decides by the document it holds; one let in is counted.
Decide(r, grants) ==
    auth' = [auth EXCEPT ![r] = IF grants THEN [@ EXCEPT !.at = "count"] ELSE NoAuth]

-----------------------------------------------------------------------------
\* A request for an address, and what it finds in Redis.
AskPanel(r) ==
    /\ auth[r].at = "none"
    /\ LET at == IF ~redisUp \/ copy.left = 0 THEN "find"
                 ELSE IF copy.grants THEN "count" ELSE "none"
       IN  /\ at # "none"
           /\ \E ip \in Ip : auth' = [auth EXCEPT ![r] = [NoAuth EXCEPT !.at = at, !.ip = ip]]
    /\ UNCHANGED <<account, copy, recent, redisUp, wiping, unentitled, tally>>

FindAccount(r) ==
    /\ auth[r].at = "find"
    /\ auth' = [auth EXCEPT ![r].at = "store", ![r].grants = Grants(account)]
    /\ UNCHANGED <<account, copy, recent, redisUp, wiping, unentitled, tally>>

StoreCopy(r) ==
    /\ auth[r].at = "store"
    /\ copy' = IF redisUp THEN [grants |-> auth[r].grants, left |-> CopyTtl] ELSE copy
    /\ Decide(r, auth[r].grants)
    /\ UNCHANGED <<account, recent, redisUp, wiping, unentitled, tally>>

\* Bug: the address that asks is not counted.
CountIpsOfOthers(r) ==
    /\ auth[r].at = "count"
    /\ auth' = [auth EXCEPT ![r] =
                   IF Cardinality(Recent) <= DeviceCap
                   THEN [@ EXCEPT !.at = "record"] ELSE NoAuth]
    /\ UNCHANGED <<account, copy, recent, redisUp, wiping, unentitled, tally>>

\* Without Redis no address is known.
CountIps(r) ==
    /\ auth[r].at = "count"
    /\ auth' = [auth EXCEPT ![r] =
                   IF Cardinality({@.ip} \cup Recent) <= DeviceCap
                   THEN [@ EXCEPT !.at = "record"] ELSE NoAuth]
    /\ UNCHANGED <<account, copy, recent, redisUp, wiping, unentitled, tally>>

\* The last step before the answer.
RecordIp(r) ==
    /\ auth[r].at = "record"
    /\ recent' = IF redisUp THEN recent \cup {auth[r].ip} ELSE recent
    /\ auth' = [auth EXCEPT ![r] = NoAuth]
    /\ UNCHANGED <<account, copy, redisUp, wiping, unentitled, tally>>

-----------------------------------------------------------------------------
(* Edits of the user, and Redis.                                             *)

\* Editing or disabling the user also removes the copy and the addresses, in
\* parallel.
EditAccount ==
    /\ tally.edits + tally.outages < MaxDisturbances /\ wiping = {}
    /\ tally' = [tally EXCEPT !.edits = @ + 1]
    /\ \/ account.enabled /\ account' = [account EXCEPT !.enabled = FALSE]
       \/ account' = [enabled |-> TRUE, over |-> FALSE]
    /\ wiping' = {"copy", "recent"}
    /\ unentitled' = IF Grants(account') THEN 0 ELSE unentitled
    /\ UNCHANGED <<copy, recent, redisUp, auth>>

\* Usage is added to the document alone; the sweep over it comes later.
ExceedTraffic ==
    /\ ~account.over
    /\ account' = [account EXCEPT !.over = TRUE]
    /\ UNCHANGED <<copy, recent, redisUp, auth, wiping, unentitled, tally>>

WipeCopy ==
    /\ "copy" \in wiping
    /\ wiping' = wiping \ {"copy"}
    /\ copy' = IF redisUp THEN NoCopy ELSE copy
    /\ UNCHANGED <<account, recent, redisUp, auth, unentitled, tally>>

WipeRecent ==
    /\ "recent" \in wiping
    /\ wiping' = wiping \ {"recent"}
    /\ recent' = IF redisUp THEN {} ELSE recent
    /\ UNCHANGED <<account, copy, redisUp, auth, unentitled, tally>>

\* An outage leaves the data, a restart does not.
RedisFails ==
    /\ redisUp /\ tally.edits + tally.outages < MaxDisturbances
    /\ tally' = [tally EXCEPT !.outages = @ + 1]
    /\ redisUp' = FALSE
    /\ \/ UNCHANGED <<copy, recent>>
       \/ copy' = NoCopy /\ recent' = {}
    /\ UNCHANGED <<account, auth, wiping, unentitled>>

RedisReturns ==
    /\ ~redisUp
    /\ redisUp' = TRUE
    /\ UNCHANGED <<account, copy, recent, auth, wiping, unentitled, tally>>

GraceEnds(ip) ==
    /\ ip \in recent
    /\ recent' = recent \ {ip}
    /\ UNCHANGED <<account, copy, redisUp, auth, wiping, unentitled, tally>>

Latest == CopyTtl + 2 * MaxAnswer

AuthTick ==
    /\ \A r \in AuthReq : auth[r].at # "none" => auth[r].age < MaxAnswer
    /\ auth' = [r \in AuthReq |-> IF auth[r].at = "none" THEN NoAuth
                                 ELSE [auth[r] EXCEPT !.age = @ + 1]]
    /\ copy' = IF copy.left <= 1 THEN NoCopy ELSE [copy EXCEPT !.left = @ - 1]
    /\ unentitled' = IF Grants(account) THEN 0
                     ELSE IF unentitled > Latest THEN unentitled ELSE unentitled + 1
    /\ UNCHANGED <<account, recent, redisUp, wiping, tally>>

AuthNext ==
    \/ \E r \in AuthReq : AskPanel(r) \/ FindAccount(r) \/ StoreCopy(r)
                          \/ CountIps(r) \/ RecordIp(r)
    \/ EditAccount \/ ExceedTraffic \/ WipeCopy \/ WipeRecent
    \/ \E ip \in Ip : GraceEnds(ip)
    \/ RedisFails \/ RedisReturns \/ AuthTick

AuthSpec == AuthInit /\ [][AuthNext]_authVars

-----------------------------------------------------------------------------
(* However requests, edits and outages overlap, nobody is let in by a        *)
(* document older than a copy lives and two requests take: the one that      *)
(* stored the copy and the one that used it; and unless Redis was away, the  *)
(* addresses of the grace period exceed the limit at most by the requests    *)
(* that were counted at once.                                                *)
AdmissionsAreSound ==
    [][\A r \in AuthReq : RecordIp(r) =>
          /\ unentitled <= Latest
          /\ tally.outages = 0 =>
                Cardinality(recent') <= DeviceCap + Cardinality(AuthReq) - 1]_authVars
=============================================================================
