--------------------------- MODULE PanelProcess ---------------------------
(***************************************************************************)
(* The life of the panel's process around the relay-l2tp module: startup   *)
(* waits for the database, the migrations and the runtime with its two     *)
(* timed workers (the L2TP worker and the recovery of topology             *)
(* operations); shutdown takes them down again.  The process can be        *)
(* signalled or die at any point and is booted again.                      *)
(***************************************************************************)
EXTENDS Naturals

CONSTANTS
    MaxModels,     \* models whose indexes the migration ensures
    MaxBoots       \* bound on boots

ASSUME ProcessAssumption == MaxModels \in Nat \ {0} /\ MaxBoots \in Nat

VARIABLES
    durable,       \* indexes there are, and whether the migration is recorded
    proc,          \* the process
    worker,        \* worker -> its timer is set, a run of it is under way
    published,     \* the routes find the host
    boots

processVars == <<durable, proc, worker, published, boots>>

Worker  == {"l2tp", "recovery"}
Dormant == [w \in Worker |-> [scheduled |-> FALSE, inFlight |-> FALSE]]
NoProcess == [up |-> FALSE]

\* The two switches are exactly "true" or "false", or startup refuses.
Environment ==
    [execution : {"true", "false", "other"}, migrations : {"true", "false", "other"},
     topology : BOOLEAN]

Enabled(env) == env.execution = "true"

\* Recovery of topology operations wants all three switches.
TopologyEnabled(env) == Enabled(env) /\ env.migrations = "true" /\ env.topology

\* The workers as they are started.  Recovery scans at once.
WorkersFor(env) ==
    [w \in Worker |->
       IF w = "l2tp" THEN [scheduled |-> Enabled(env), inFlight |-> FALSE]
       ELSE [scheduled |-> TopologyEnabled(env), inFlight |-> TopologyEnabled(env)]]

ProcessInit ==
    /\ durable = [built |-> 0, recorded |-> FALSE]
    /\ proc = NoProcess
    /\ worker = Dormant /\ published = FALSE /\ boots = 0

Gone ==
    /\ proc' = NoProcess /\ worker' = Dormant /\ published' = FALSE
    /\ UNCHANGED <<durable, boots>>

----------------------------------------------------------------------------
(* Startup.                                                                *)

BootPanel(env) ==
    /\ ~proc.up /\ boots < MaxBoots
    /\ proc' = [up |-> TRUE, env |-> env, startup |-> "connecting", step |-> 0,
                shutdown |-> "no", early |-> FALSE, timer |-> FALSE]
    /\ boots' = boots + 1
    /\ UNCHANGED <<durable, worker, published>>

\* The database answers, and startAfterDatabase is called, whether or not the
\* process has been told to stop in the meantime.
DatabaseReady ==
    /\ proc.up /\ proc.startup = "connecting"
    /\ proc' = [proc EXCEPT !.startup = "migrating"]
    /\ UNCHANGED <<durable, worker, published, boots>>

\* The indexes of the models, one after the other; again from the first after a
\* crash, which is harmless.
EnsureIndex ==
    /\ proc.up /\ proc.startup = "migrating"
    /\ proc.env.migrations = "true" /\ ~durable.recorded /\ proc.step < MaxModels
    /\ proc' = [proc EXCEPT !.step = @ + 1]
    /\ durable' = [durable EXCEPT !.built = IF @ < proc.step + 1 THEN proc.step + 1 ELSE @]
    /\ UNCHANGED <<worker, published, boots>>

RecordApplied ==
    /\ proc.up /\ proc.startup = "migrating"
    /\ proc.env.migrations = "true" /\ ~durable.recorded /\ proc.step = MaxModels
    /\ durable' = [durable EXCEPT !.recorded = TRUE]
    /\ UNCHANGED <<proc, worker, published, boots>>

Migrated == proc.env.migrations = "false" \/ (proc.env.migrations = "true" /\ durable.recorded)

\* The host is built and started, then published.
StartRuntime ==
    /\ proc.up /\ proc.startup = "migrating" /\ Migrated
    /\ proc.env.execution # "other"
    /\ proc' = [proc EXCEPT !.startup = "started"]
    /\ published' = Enabled(proc.env)
    /\ worker' = WorkersFor(proc.env)
    /\ UNCHANGED <<durable, boots>>

Serve ==
    /\ proc.up /\ proc.startup = "started"
    /\ proc' = [proc EXCEPT !.startup = "serving"]
    /\ UNCHANGED <<durable, worker, published, boots>>

\* Whatever fails before the panel serves ends the process, workers or not; an
\* unreadable switch does so always.
StartupFails == proc.up /\ proc.startup # "serving" /\ Gone

----------------------------------------------------------------------------
(* The workers.                                                            *)

TickOf(w) ==
    /\ worker[w].scheduled /\ ~worker[w].inFlight
    /\ worker' = [worker EXCEPT ![w].inFlight = TRUE]
    /\ UNCHANGED <<durable, proc, published, boots>>

RunEnds(w) ==
    /\ worker[w].inFlight
    /\ worker' = [worker EXCEPT ![w].inFlight = FALSE]
    /\ UNCHANGED <<durable, proc, published, boots>>

----------------------------------------------------------------------------
(* Shutdown.                                                               *)

\* A signal sets the timer that ends the process in any case; an exception
\* nobody caught only begins the shutdown.
TellToStop(timer) ==
    /\ proc.up /\ (proc.shutdown = "no" \/ (timer /\ ~proc.timer))
    /\ proc' = [proc EXCEPT !.shutdown = IF @ = "no" THEN "closing" ELSE @,
                            !.timer = @ \/ timer]
    /\ UNCHANGED <<durable, worker, published, boots>>

\* The servers are closed.  A stop that comes before startAfterDatabase has
\* nothing to wait for, and is not asked again.
CloseServers ==
    /\ proc.up /\ proc.shutdown = "closing"
    /\ proc' = [proc EXCEPT !.early = proc.startup = "connecting",
                            !.shutdown = IF proc.startup = "connecting" THEN "disconnecting" ELSE "stopping"]
    /\ UNCHANGED <<durable, worker, published, boots>>

\* Once startup is through, the host is withdrawn and recovery gets no more
\* ticks; a runtime that was not enabled is stopped at once.
StopRuntime ==
    /\ proc.up /\ proc.shutdown = "stopping" /\ proc.startup \in {"started", "serving"}
    /\ published' = FALSE
    /\ worker' = [worker EXCEPT !["recovery"].scheduled = FALSE]
    /\ proc' = [proc EXCEPT !.shutdown =
                   IF Enabled(proc.env) THEN "recovery" ELSE "disconnecting"]
    /\ UNCHANGED <<durable, boots>>

\* The L2TP worker loses its timer only after the last recovery run has ended.
StopL2tpWorker ==
    /\ proc.up /\ proc.shutdown = "recovery" /\ ~worker["recovery"].inFlight
    /\ worker' = [worker EXCEPT !["l2tp"].scheduled = FALSE]
    /\ proc' = [proc EXCEPT !.shutdown = "l2tp"]
    /\ UNCHANGED <<durable, published, boots>>

\* The timer is gone, and the run under way is not waited for.
WorkersStoppedAtOnce ==
    /\ proc.up /\ proc.shutdown = "l2tp"
    /\ proc' = [proc EXCEPT !.shutdown = "disconnecting"]
    /\ UNCHANGED <<durable, worker, published, boots>>

WorkersStopped ==
    /\ proc.up /\ proc.shutdown = "l2tp" /\ ~worker["l2tp"].inFlight
    /\ proc' = [proc EXCEPT !.shutdown = "disconnecting"]
    /\ UNCHANGED <<durable, worker, published, boots>>

Leave == proc.up /\ proc.shutdown = "disconnecting" /\ Gone
ForceExit == proc.up /\ proc.timer /\ Gone
Die   == proc.up /\ Gone

ProcessNext ==
    \/ \E env \in Environment : BootPanel(env)
    \/ DatabaseReady \/ EnsureIndex \/ RecordApplied \/ StartRuntime \/ Serve \/ StartupFails
    \/ \E w \in Worker : TickOf(w) \/ RunEnds(w)
    \/ \E timer \in BOOLEAN : TellToStop(timer)
    \/ CloseServers \/ StopRuntime \/ StopL2tpWorker \/ WorkersStopped
    \/ Leave \/ ForceExit \/ Die

ProcessSpec == ProcessInit /\ [][ProcessNext]_processVars

----------------------------------------------------------------------------
\* Topology operations are recovered only over the indexes their locks rest on;
\* the routes find the host only while the L2TP worker is there to do what they
\* order; and when the database is taken away no run is under way and none can
\* begin, unless the shutdown began before there was a database.
StartsAndStopsInOrder ==
    /\ worker["recovery"].scheduled \/ worker["recovery"].inFlight => durable.built = MaxModels
    /\ published => worker["l2tp"].scheduled
    /\ proc.up =>
          (proc.shutdown = "disconnecting" /\ ~proc.early => worker = Dormant /\ ~published)

============================================================================
