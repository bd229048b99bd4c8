------------------------------- MODULE MCLive -------------------------------
\* One run for what must eventually happen: `part` picks the topology worker,
\* the L2TP worker or the expiry scheduler, and only its variables move.  The
\* two workers are never queued anything in a run that picked another part, so
\* nothing of theirs is owed a step; the scheduler boots whenever it may.
EXTENDS TopologyOperation, ExpireScheduler, NodeHealth, TLC

CONSTANTS o1, w1, w2, User, MaxOps, MaxSecret, L2tpFaultKinds

VARIABLES part, relay, user, l2tpDoc, relayLock, l2tpRun, l2tpRemote, relayHost, l2tpFaults

L2tp == INSTANCE L2tpOperation WITH
            Worker <- {w1}, FaultKinds <- L2tpFaultKinds,
            doc <- l2tpDoc, lock <- relayLock, run <- l2tpRun, remote <- l2tpRemote,
            host <- relayHost, faults <- l2tpFaults

TwoNodes == [o \in Op |-> <<2, 1>>]

l2tpVars == <<relay, user, l2tpDoc, relayLock, l2tpRun, l2tpRemote, relayHost, l2tpFaults>>

LiveInit ==
    /\ part \in {"topology", "l2tp", "expiry", "health"}
    /\ Init
    /\ L2tp!Init
    /\ part # "l2tp" => relay.status = "installed"
    /\ ExpiryInit
    /\ HealthInit

LiveNext ==
    \/ part = "topology" /\ Next /\ UNCHANGED <<part, l2tpVars, expiryVars, healthVars>>
    \/ part = "l2tp" /\ L2tp!Next /\ UNCHANGED <<part, vars, expiryVars, healthVars>>
    \/ part = "expiry" /\ ExpiryNext /\ UNCHANGED <<part, vars, l2tpVars, healthVars>>
    \/ part = "health" /\ HealthNext /\ UNCHANGED <<part, vars, l2tpVars, expiryVars>>

LiveSpec ==
    /\ LiveInit /\ [][LiveNext]_<<part, vars, l2tpVars, expiryVars, healthVars>>
    /\ Fairness
    /\ L2tp!Fairness
    \* ExpiryFairness, while the scheduler is the part that moves.
    /\ WF_expiryVars(part = "expiry" /\ Boot)
    /\ WF_expiryVars(part = "expiry" /\ Watchdog)
    /\ WF_expiryVars(part = "expiry" /\ FindOverdue)
    /\ WF_expiryVars(part = "expiry" /\ SweepEnds)
    /\ \A u \in Subscriber : WF_expiryVars(part = "expiry" /\ DisableUser(u))
    \* HealthFairness, likewise.
    /\ \A c \in Checker : WF_healthVars(part = "health" /\ CheckStep(c))
    /\ WF_healthVars(part = "health" /\ SyncEnds)

\* TopologyOperation's promises: every queued operation ends, and no node stays
\* locked, although the process that took the locks dies.
TopologySettles == Completion /\ LocksFreed

\* Every queued L2TP operation ends: L2tpOperation!Completion.
L2tpCompletion == L2tp!Completion
=============================================================================
