------------------------------ MODULE RoutePolicy ------------------------------
(***************************************************************************)
(* Which path of a route group carries a relay's L2TP traffic              *)
(* (domain/routePolicy.js as compileTopology calls it), while the operator *)
(* edits paths and their health comes and goes.                            *)
(***************************************************************************)
EXTENDS Integers

CONSTANTS
    PathKey,        \* the paths of one route group
    MaxPriority     \* bound on priorities

ASSUME PathAssumption == "block" \notin PathKey /\ MaxPriority \in Nat

VARIABLE paths      \* each path's attributes

routeVars == <<paths>>

RouteInit ==
    paths \in [PathKey -> [priority : 1 .. MaxPriority, enabled : {TRUE},
                           complete : {TRUE}, healthy : {FALSE}]]

\* Mutant of Eligible: a path the validator rejected may carry traffic.
EligibleThoughBroken(ps) ==
    {k \in PathKey : ps[k].enabled /\ ps[k].healthy}

\* Enabled, without validation errors, and healthy.
Eligible(ps) ==
    {k \in PathKey : ps[k].enabled /\ ps[k].complete /\ ps[k].healthy}

\* No priority may occur twice among the eligible paths, not even behind the
\* best one.
Best(S, ps) ==
    {k \in S : /\ \A j \in S : ps[k].priority <= ps[j].priority
               /\ \A i, j \in S : i # j => ps[i].priority # ps[j].priority}

\* selectActivePath: the best eligible path, or block.
Decision(ps) ==
    LET best == Best(Eligible(ps), ps) IN
    IF best = {} THEN "block" ELSE CHOOSE k \in best : TRUE

\* The operator edits one path, which may make it incomplete or complete again.
EditRoute ==
    \E k \in PathKey, p \in 1 .. MaxPriority, e, c \in BOOLEAN :
        paths' = [paths EXCEPT ![k].priority = p, ![k].enabled = e,
                               ![k].complete = c]

\* A health check of one path changes its verdict.
HealthChanges ==
    \E k \in PathKey : paths' = [paths EXCEPT ![k].healthy = ~@]

RouteNext == EditRoute \/ HealthChanges
RouteSpec == RouteInit /\ [][RouteNext]_routeVars

-----------------------------------------------------------------------------
\* Traffic fails closed: whatever an edit does to a path, it is not selected
\* while it is disabled, broken or down, and never by a coin toss among equals.
FailsClosed ==
    LET k == Decision(paths) IN
    k # "block" =>
        /\ paths[k].enabled /\ paths[k].complete /\ paths[k].healthy
        /\ \A j \in PathKey \ {k} :
              paths[j].enabled /\ paths[j].complete /\ paths[j].healthy
                  => paths[j].priority > paths[k].priority
===============================================================================
