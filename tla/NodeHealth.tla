----------------------------- MODULE NodeHealth -----------------------------
(***************************************************************************)
(* The status of one node as the panel shows and serves it.  Two crons ask *)
(* the node and nothing keeps their requests apart: the health check of    *)
(* every minute and the statistics poll of every thirty seconds.  Threshold*)
(* failures in a row take an online node offline, one answer brings it     *)
(* back; synchronisations and operators write the same two fields.         *)
(***************************************************************************)
EXTENDS Naturals

CONSTANTS Checker,          \* the crons that ask the node
          Threshold,        \* HEALTH_FAILURE_THRESHOLD
          MaxChanges        \* changes of the node, operator calls, syncs and restarts

ASSUME HealthAssumption == Threshold \in Nat \ {0} /\ MaxChanges \in Nat

VARIABLES
    record,         \* the document: active, status, failures (healthFailures)
    alive,          \* the node answers its statistics API or its agent
    check,          \* per checker: idle, asking, or about to write "offline"
    syncing,        \* a synchronisation is on the node
    changes

healthVars == <<record, alive, check, syncing, changes>>



\* healthFailures only matters up to one beyond the threshold.
Capped(n) == IF n > Threshold + 1 THEN Threshold + 1 ELSE n

HealthInit ==
    /\ record = [active |-> TRUE, status |-> "online", failures |-> 0]
    /\ alive = TRUE
    /\ check = [c \in Checker |-> "idle"]
    /\ syncing = FALSE
    /\ changes = 0

-----------------------------------------------------------------------------
(* The checkers: the list of active nodes is read before the request.      *)

AskNode(c) ==
    /\ check[c] = "idle"
    /\ record.active
    /\ check' = [check EXCEPT ![c] = "asking"]
    /\ UNCHANGED <<record, alive, syncing, changes>>

\* An answer clears the count and brings the node back, whatever has been
\* done to it since it was asked.
NodeAnswers(c) ==
    /\ check[c] = "asking"
    /\ alive
    /\ record' = [record EXCEPT !.status = "online", !.failures = 0]
    /\ check' = [check EXCEPT ![c] = "idle"]
    /\ UNCHANGED <<alive, syncing, changes>>

\* Mutant of Offline: a count past the threshold no longer counts.
OfflineExactly(before) == before.failures + 1 = Threshold /\ before.status = "online"

\* The count that the increment returned reaches the threshold, and the node
\* was online before it.
Offline(before) == before.failures + 1 >= Threshold /\ before.status = "online"

NodeFails(c) ==
    /\ check[c] = "asking"
    /\ ~alive
    /\ record' = [record EXCEPT !.failures = Capped(@ + 1)]
    /\ check' = [check EXCEPT ![c] = IF Offline(record) THEN "marking" ELSE "idle"]
    /\ UNCHANGED <<alive, syncing, changes>>

MarkOffline(c) ==
    /\ check[c] = "marking"
    /\ record' = [record EXCEPT !.status = "offline"]
    /\ check' = [check EXCEPT ![c] = "idle"]
    /\ UNCHANGED <<alive, syncing, changes>>

-----------------------------------------------------------------------------
(* Synchronisation: of active nodes, or on request of any.                 *)

SyncBegins ==
    /\ ~syncing /\ changes < MaxChanges
    /\ syncing' = TRUE
    /\ record' = [record EXCEPT !.status = "syncing"]
    /\ changes' = changes + 1
    /\ UNCHANGED <<alive, check>>

\* The service runs or it does not: the shell it is asked through is not what
\* the checkers ask.  A missing certificate ends it before the count is reset.
SyncEnds ==
    /\ syncing
    /\ syncing' = FALSE
    /\ \/ \E s \in {"online", "error"} :
            record' = [record EXCEPT !.status = s, !.failures = 0]
       \/ record' = [record EXCEPT !.status = "error"]
    /\ UNCHANGED <<alive, check, changes>>

-----------------------------------------------------------------------------
(* Operators, the node and the panel's process.                            *)

\* A started runtime is online, with the failures counted before it stopped.
EnableNode ==
    /\ record' \in { [record EXCEPT !.active = TRUE, !.status = "online"],
                     [record EXCEPT !.active = FALSE, !.status = "offline"] }
    /\ UNCHANGED <<alive, check, syncing>>

DisableNode ==
    /\ record' = [record EXCEPT !.active = FALSE, !.status = "offline"]
    /\ UNCHANGED <<alive, check, syncing>>

ResetStatus ==
    /\ record' = [record EXCEPT !.status = "online", !.failures = 0]
    /\ UNCHANGED <<alive, check, syncing>>

NodeFlips ==
    /\ alive' = ~alive
    /\ UNCHANGED <<record, check, syncing>>

\* What the process had in flight is gone; the document is as it was left.
PanelRestarts ==
    /\ check' = [c \in Checker |-> "idle"]
    /\ syncing' = FALSE
    /\ UNCHANGED <<record, alive>>

Disturb ==
    /\ changes < MaxChanges
    /\ changes' = changes + 1
    /\ EnableNode \/ DisableNode \/ ResetStatus \/ NodeFlips \/ PanelRestarts

CheckStep(c) == AskNode(c) \/ NodeAnswers(c) \/ NodeFails(c) \/ MarkOffline(c)

CheckNext == \E c \in Checker : CheckStep(c)

HealthNext == CheckNext \/ SyncBegins \/ SyncEnds \/ Disturb

\* Requests time out, the crons go on, a synchronisation ends.
HealthFairness ==
    /\ \A c \in Checker : WF_healthVars(CheckStep(c))
    /\ WF_healthVars(SyncEnds)

HealthSpec == HealthInit /\ [][HealthNext]_healthVars /\ HealthFairness

-----------------------------------------------------------------------------
\* The status comes to tell the truth: of an active node that stays up it is
\* online for good in the end, of one that stays down it is not online, in
\* whatever state crashes, overlapping checks, failed synchronisations and
\* operators have left the count (syncService.getXrayOnlineUsers and
\* _getHysteriaOnlineUsers, against setNodeActive, which keeps the count).
StatusSettles ==
    /\ <>[](record.active /\ alive) => <>[](record.status = "online")
    /\ <>[](record.active /\ ~alive) => <>[](record.status # "online")
=============================================================================
