--------------------------- MODULE Upkeep_proofs ----------------------------
(***************************************************************************)
(* What goes on around the panel, for every number of models, lines,       *)
(* backups, addresses, connections and sessions. The components share no   *)
(* state: each part below is about the specification of one of them, and   *)
(* cites no lemma of another.                                              *)
(***************************************************************************)
EXTENDS PanelProcess, AccessLogShipping, PanelUpdate, HysteriaAuth, SshPool, L2tpAccounts,
        Integers, SequenceTheorems, FiniteSetTheorems, WellFoundedInduction, TLAPS

-----------------------------------------------------------------------------
(***************************************************************************)
(* PanelProcess. StartsAndStopsInOrder is not inductive. That recovery     *)
(* runs only over the indexes rests on what is recorded being built, and   *)
(* that on a process never having counted more indexes than there are.     *)
(* That nothing runs when the database is taken away rests on what each    *)
(* stage of the shutdown has already stopped, and on startup being through *)
(* by then, so that it cannot start the workers again.                     *)
(***************************************************************************)

Running == [up : {TRUE}, env : Environment,
            startup : {"connecting", "migrating", "started", "serving"},
            step : 0..MaxModels,
            shutdown : {"no", "closing", "stopping", "recovery", "l2tp", "disconnecting"},
            early : BOOLEAN, timer : BOOLEAN]

ProcessTypes ==
    /\ durable \in [built : 0..MaxModels, recorded : BOOLEAN]
    /\ proc \in {NoProcess} \cup Running
    /\ worker \in [Worker -> [scheduled : BOOLEAN, inFlight : BOOLEAN]]
    /\ published \in BOOLEAN
    /\ boots \in Nat

\* What is recorded is there, and no process has counted further.
RecordedIsBuilt ==
    /\ durable.recorded => durable.built = MaxModels
    /\ proc.up => proc.step <= durable.built

\* No worker without a process that has started the runtime.
NothingRuns == worker = Dormant /\ published = FALSE
QuietBefore ==
    /\ ~proc.up => NothingRuns
    /\ proc.up /\ proc.startup \in {"connecting", "migrating"} => NothingRuns
    /\ proc.up /\ ~Enabled(proc.env) => NothingRuns

RecoveryOverIndexes ==
    worker["recovery"].scheduled \/ worker["recovery"].inFlight => durable.built = MaxModels

PublishedIsServed == published => worker["l2tp"].scheduled

\* What each stage of the shutdown has stopped.
StoppedBy ==
    proc.up =>
      /\ proc.shutdown \in {"recovery", "l2tp"} =>
            /\ published = FALSE /\ ~worker["recovery"].scheduled
            /\ proc.startup \in {"started", "serving"}
      /\ proc.shutdown = "l2tp" =>
            ~worker["l2tp"].scheduled /\ ~worker["recovery"].inFlight
      /\ proc.shutdown = "disconnecting" /\ ~proc.early =>
            NothingRuns /\ proc.startup \in {"started", "serving"}

ProcessInv == /\ ProcessTypes /\ RecordedIsBuilt /\ QuietBefore
        /\ RecoveryOverIndexes /\ PublishedIsServed /\ StoppedBy

-----------------------------------------------------------------------------
LEMMA ProcessInitInv == ProcessInit => ProcessInv
  <1> SUFFICES ASSUME ProcessInit PROVE ProcessInv
    OBVIOUS
  <1>1. ~proc.up /\ ~durable.recorded /\ NothingRuns
    BY DEF ProcessInit, NoProcess, NothingRuns
  <1>2. ProcessTypes
    <2>1. durable \in [built : 0..MaxModels, recorded : BOOLEAN]
      BY ProcessAssumption DEF ProcessInit
    <2>2. worker \in [Worker -> [scheduled : BOOLEAN, inFlight : BOOLEAN]]
      BY DEF ProcessInit, Dormant
    <2> QED BY <2>1, <2>2 DEF ProcessInit, ProcessTypes
  <1>3. RecordedIsBuilt /\ QuietBefore /\ StoppedBy
    BY <1>1 DEF RecordedIsBuilt, QuietBefore, StoppedBy
  <1>4. RecoveryOverIndexes /\ PublishedIsServed
    BY <1>1 DEF NothingRuns, Dormant, Worker, RecoveryOverIndexes, PublishedIsServed
  <1> QED BY <1>2, <1>3, <1>4 DEF ProcessInv

\* However a process ends, nothing of it is left but what it has built.
LEMMA GoneInv ==
  ASSUME ProcessInv, Gone PROVE ProcessInv'
  <1>1. ProcessTypes'
    BY DEF ProcessInv, ProcessTypes, Gone, Dormant, Worker, NoProcess
  <1>2. RecordedIsBuilt' /\ QuietBefore' /\ StoppedBy'
    BY DEF ProcessInv, RecordedIsBuilt, QuietBefore, NothingRuns, StoppedBy, Gone, NoProcess
  <1>3. RecoveryOverIndexes' /\ PublishedIsServed'
    BY DEF RecoveryOverIndexes, PublishedIsServed, Gone, Dormant, Worker
  <1> QED BY <1>1, <1>2, <1>3 DEF ProcessInv

\* A process that is up has all its fields.
LEMMA UpIsRunning == ASSUME ProcessTypes, proc.up PROVE proc \in Running
  BY DEF ProcessTypes, NoProcess

LEMMA BootInv ==
  ASSUME ProcessInv, NEW env \in Environment, BootPanel(env) PROVE ProcessInv'
  <1>1. NothingRuns /\ NothingRuns'
    BY DEF BootPanel, ProcessInv, QuietBefore, NothingRuns
  <1>2. ProcessTypes'
    BY ProcessAssumption DEF ProcessInv, ProcessTypes, BootPanel, Running
  <1>3. RecordedIsBuilt'
    BY ProcessAssumption DEF ProcessInv, ProcessTypes, RecordedIsBuilt, BootPanel
  <1>4. QuietBefore' /\ StoppedBy'
    BY <1>1 DEF QuietBefore, StoppedBy, BootPanel
  <1>5. RecoveryOverIndexes' /\ PublishedIsServed'
    BY DEF ProcessInv, RecoveryOverIndexes, PublishedIsServed, BootPanel
  <1> QED BY <1>2, <1>3, <1>4, <1>5 DEF ProcessInv

\* The steps of startup before the runtime move nothing but the process and
\* the indexes.
LEMMA MigratingInv ==
  ASSUME ProcessInv, DatabaseReady \/ EnsureIndex \/ RecordApplied PROVE ProcessInv'
  <1>1. proc \in Running /\ NothingRuns /\ NothingRuns' /\ UNCHANGED <<worker, published>>
    BY UpIsRunning DEF DatabaseReady, EnsureIndex, RecordApplied, ProcessInv, QuietBefore, NothingRuns
  <1>2. ProcessTypes' /\ RecordedIsBuilt'
    <2>1. CASE DatabaseReady
      BY <1>1, <2>1 DEF ProcessInv, ProcessTypes, RecordedIsBuilt, DatabaseReady, Running
    <2>2. CASE EnsureIndex
      <3>1. proc.step \in Nat /\ durable.built \in Nat /\ proc.step + 1 \in 0..MaxModels
        BY <1>1, <2>2, ProcessAssumption DEF EnsureIndex, ProcessInv, ProcessTypes, Running
      <3>2. proc' \in Running /\ proc'.step = proc.step + 1
        BY <1>1, <2>2, <3>1 DEF EnsureIndex, Running
      <3>3. durable' \in [built : 0..MaxModels, recorded : BOOLEAN]
            /\ durable'.recorded = FALSE /\ proc.step + 1 <= durable'.built
        BY <2>2, <3>1 DEF EnsureIndex, ProcessInv, ProcessTypes
      <3> QED BY <1>1, <2>2, <3>2, <3>3 DEF EnsureIndex, ProcessInv, ProcessTypes, RecordedIsBuilt
    <2>3. CASE RecordApplied
      <3>1. durable' = [durable EXCEPT !.recorded = TRUE] /\ UNCHANGED <<proc, worker, published, boots>>
            /\ proc.step = MaxModels
        BY <2>3 DEF RecordApplied
      <3>2. durable' \in [built : 0..MaxModels, recorded : BOOLEAN] /\ durable'.built = durable.built
        BY <3>1 DEF ProcessInv, ProcessTypes
      <3>3. durable.built = MaxModels
        <4>1. proc.up /\ durable.built \in 0..MaxModels
          BY <1>1 DEF ProcessInv, ProcessTypes, Running
        <4>2. MaxModels <= durable.built
          BY <3>1, <4>1 DEF ProcessInv, RecordedIsBuilt
        <4> QED BY <4>1, <4>2, ProcessAssumption
      <3> QED BY <1>1, <3>1, <3>2, <3>3, ProcessAssumption DEF ProcessInv, ProcessTypes, RecordedIsBuilt
    <2> QED BY <2>1, <2>2, <2>3
  <1>3. QuietBefore'
    BY <1>1 DEF QuietBefore
  <1>4. RecoveryOverIndexes' /\ PublishedIsServed'
    BY <1>1 DEF NothingRuns, Dormant, Worker, RecoveryOverIndexes, PublishedIsServed
  <1>5. proc'.shutdown = proc.shutdown /\ proc'.early = proc.early
        /\ proc.startup \notin {"started", "serving"}
    BY <1>1 DEF DatabaseReady, EnsureIndex, RecordApplied, Running
  <1>6. StoppedBy'
    <2>1. proc.up
      BY <1>1 DEF Running
    <2>2. proc.shutdown \notin {"recovery", "l2tp"}
      BY <1>5, <2>1 DEF ProcessInv, StoppedBy
    <2>3. proc.shutdown = "disconnecting" => proc.early
      BY <1>5, <2>1 DEF ProcessInv, StoppedBy
    <2> QED BY <1>5, <2>2, <2>3 DEF StoppedBy
  <1> QED BY <1>2, <1>3, <1>4, <1>6 DEF ProcessInv

\* Recovery is started only when the migration is recorded.
LEMMA StartRuntimeInv ==
  ASSUME ProcessInv, StartRuntime PROVE ProcessInv'
  <1>1. /\ proc \in Running /\ proc.env \in Environment
        /\ proc' = [proc EXCEPT !.startup = "started"]
        /\ proc' \in Running /\ proc'.env = proc.env
    BY UpIsRunning DEF StartRuntime, ProcessInv, Running
  <1>2. ProcessTypes'
    BY <1>1 DEF ProcessInv, ProcessTypes, StartRuntime, WorkersFor, Worker, Enabled, TopologyEnabled, Environment
  <1>3. RecordedIsBuilt'
    BY <1>1 DEF ProcessInv, RecordedIsBuilt, StartRuntime, Running
  <1>4. QuietBefore'
    <2>1. ASSUME ~Enabled(proc.env) PROVE NothingRuns'
      BY <2>1 DEF StartRuntime, WorkersFor, TopologyEnabled, NothingRuns, Dormant, Worker, Enabled
    <2>2. proc'.startup = "started"
      BY <1>1 DEF Running
    <2> QED BY <1>1, <2>1, <2>2 DEF QuietBefore, Running, Enabled
  <1>5. RecoveryOverIndexes'
    <2>1. ASSUME TopologyEnabled(proc.env) PROVE durable'.built = MaxModels
      BY <2>1 DEF TopologyEnabled, StartRuntime, Migrated, ProcessInv, RecordedIsBuilt
    <2>2. worker'["recovery"] = [scheduled |-> TopologyEnabled(proc.env),
                                 inFlight |-> TopologyEnabled(proc.env)]
      BY DEF StartRuntime, WorkersFor, Worker
    <2> QED BY <2>1, <2>2 DEF RecoveryOverIndexes
  <1>6. PublishedIsServed'
    BY DEF StartRuntime, WorkersFor, Worker, PublishedIsServed
  <1>7. proc'.shutdown = proc.shutdown /\ proc'.early = proc.early
        /\ proc.startup = "migrating"
    BY <1>1 DEF StartRuntime, Running
  <1>8. StoppedBy'
    BY <1>7 DEF StartRuntime, ProcessInv, StoppedBy
  <1> QED BY <1>2, <1>3, <1>4, <1>5, <1>6, <1>8 DEF ProcessInv

LEMMA ServeInv ==
  ASSUME ProcessInv, Serve PROVE ProcessInv'
  <1>1. proc \in Running /\ proc' = [proc EXCEPT !.startup = "serving"]
    BY UpIsRunning DEF Serve, ProcessInv
  <1> QED BY <1>1 DEF Serve, ProcessInv, ProcessTypes, RecordedIsBuilt, QuietBefore, NothingRuns,
          RecoveryOverIndexes, PublishedIsServed, StoppedBy, Running, Enabled

-----------------------------------------------------------------------------
\* A run begins only where a timer is set, and ends.
LEMMA WorkerInv ==
  ASSUME ProcessInv, NEW w \in Worker, TickOf(w) \/ RunEnds(w) PROVE ProcessInv'
  <1>1. /\ worker \in [Worker -> [scheduled : BOOLEAN, inFlight : BOOLEAN]]
        /\ worker' \in [Worker -> [scheduled : BOOLEAN, inFlight : BOOLEAN]]
        /\ UNCHANGED <<durable, proc, published, boots>>
    BY DEF ProcessInv, ProcessTypes, TickOf, RunEnds
  <1>2. /\ \A v \in Worker : worker'[v].scheduled = worker[v].scheduled
        /\ \A v \in Worker : worker'[v].inFlight => worker[v].inFlight \/ worker[v].scheduled
    BY <1>1 DEF TickOf, RunEnds
  <1>3. worker # Dormant
    BY DEF TickOf, RunEnds, Dormant
  <1>4. ~NothingRuns
    BY <1>3 DEF NothingRuns
  <1>5. "l2tp" \in Worker /\ "recovery" \in Worker
    BY DEF Worker
  <1>6. ProcessTypes' /\ RecordedIsBuilt'
    BY <1>1 DEF ProcessInv, ProcessTypes, RecordedIsBuilt
  <1>7. QuietBefore'
    BY <1>1, <1>4 DEF ProcessInv, QuietBefore, Enabled
  <1>8. RecoveryOverIndexes' /\ PublishedIsServed'
    BY <1>1, <1>2, <1>5 DEF ProcessInv, RecoveryOverIndexes, PublishedIsServed
  <1>9. StoppedBy'
    BY <1>1, <1>2, <1>4, <1>5 DEF ProcessInv, StoppedBy
  <1> QED BY <1>6, <1>7, <1>8, <1>9 DEF ProcessInv

-----------------------------------------------------------------------------
\* Steps of the shutdown that stop no worker.
LEMMA TellToStopInv ==
  ASSUME ProcessInv, NEW timer \in BOOLEAN, TellToStop(timer) PROVE ProcessInv'
  <1>1. proc \in Running
    BY UpIsRunning DEF TellToStop, ProcessInv
  <1>2. /\ proc' \in Running /\ proc'.env = proc.env /\ proc'.startup = proc.startup
        /\ proc'.step = proc.step /\ proc'.early = proc.early
        /\ proc'.shutdown = proc.shutdown \/ proc'.shutdown = "closing"
    BY <1>1 DEF TellToStop, Running
  <1> QED BY <1>1, <1>2 DEF TellToStop, ProcessInv, ProcessTypes, RecordedIsBuilt, QuietBefore, NothingRuns,
          RecoveryOverIndexes, PublishedIsServed, StoppedBy, Running, Enabled

LEMMA CloseServersInv ==
  ASSUME ProcessInv, CloseServers PROVE ProcessInv'
  <1>1. proc \in Running
    BY UpIsRunning DEF CloseServers, ProcessInv
  <1>2. /\ proc' \in Running /\ proc'.env = proc.env /\ proc'.startup = proc.startup
        /\ proc'.step = proc.step
        /\ proc'.shutdown = "stopping" \/ (proc'.shutdown = "disconnecting" /\ proc'.early)
    BY <1>1 DEF CloseServers, Running
  <1> QED BY <1>1, <1>2 DEF CloseServers, ProcessInv, ProcessTypes, RecordedIsBuilt, QuietBefore, NothingRuns,
          RecoveryOverIndexes, PublishedIsServed, StoppedBy, Running, Enabled

\* A worker that loses its timer stays what it was otherwise.
LEMMA Unscheduled ==
  ASSUME ProcessTypes, NEW w \in Worker, worker' = [worker EXCEPT ![w].scheduled = FALSE]
  PROVE  /\ worker' \in [Worker -> [scheduled : BOOLEAN, inFlight : BOOLEAN]]
         /\ worker'[w].scheduled = FALSE
         /\ \A v \in Worker : worker'[v].inFlight = worker[v].inFlight
         /\ \A v \in Worker \ {w} : worker'[v] = worker[v]
         /\ worker = Dormant => worker' = Dormant
  <1>1. /\ worker' \in [Worker -> [scheduled : BOOLEAN, inFlight : BOOLEAN]]
        /\ worker'[w].scheduled = FALSE
        /\ \A v \in Worker : worker'[v].inFlight = worker[v].inFlight
        /\ \A v \in Worker \ {w} : worker'[v] = worker[v]
    BY DEF ProcessTypes
  <1>2. ASSUME worker = Dormant PROVE worker' = Dormant
    <2>1. worker'[w] = [scheduled |-> FALSE, inFlight |-> FALSE]
      BY <1>2 DEF Dormant
    <2>2. \A v \in Worker : worker'[v] = [scheduled |-> FALSE, inFlight |-> FALSE]
      BY <1>1, <1>2, <2>1 DEF Dormant
    <2> QED BY <1>1, <2>2 DEF Dormant
  <1> QED BY <1>1, <1>2

LEMMA StopRuntimeInv ==
  ASSUME ProcessInv, StopRuntime PROVE ProcessInv'
  <1>1. proc \in Running
    BY UpIsRunning DEF StopRuntime, ProcessInv
  <1>2. /\ proc' \in Running /\ proc'.env = proc.env /\ proc'.startup = proc.startup
        /\ proc'.step = proc.step
        /\ proc'.shutdown = "recovery" \/ (proc'.shutdown = "disconnecting" /\ ~Enabled(proc.env))
        /\ proc.startup \in {"started", "serving"}
    BY <1>1 DEF StopRuntime, Running
  <1>3. /\ worker' \in [Worker -> [scheduled : BOOLEAN, inFlight : BOOLEAN]]
        /\ worker'["recovery"].scheduled = FALSE
        /\ worker'["recovery"].inFlight = worker["recovery"].inFlight
        /\ worker = Dormant => worker' = Dormant
    BY Unscheduled DEF StopRuntime, Worker, ProcessInv
  <1>4. ~Enabled(proc.env) => NothingRuns'
    BY <1>1, <1>3 DEF StopRuntime, ProcessInv, QuietBefore, NothingRuns, Running
  <1>5. ProcessTypes' /\ RecordedIsBuilt'
    BY <1>1, <1>2, <1>3 DEF StopRuntime, ProcessInv, ProcessTypes, RecordedIsBuilt
  <1>6. QuietBefore'
    BY <1>2, <1>4 DEF QuietBefore, Running
  <1>7. RecoveryOverIndexes' /\ PublishedIsServed'
    BY <1>3 DEF StopRuntime, ProcessInv, RecoveryOverIndexes, PublishedIsServed
  <1>8. StoppedBy'
    BY <1>2, <1>3, <1>4 DEF StopRuntime, StoppedBy
  <1> QED BY <1>5, <1>6, <1>7, <1>8 DEF ProcessInv

LEMMA StopL2tpWorkerInv ==
  ASSUME ProcessInv, StopL2tpWorker PROVE ProcessInv'
  <1>1. proc \in Running
    BY UpIsRunning DEF StopL2tpWorker, ProcessInv
  <1>2. /\ proc' \in Running /\ proc'.env = proc.env /\ proc'.startup = proc.startup
        /\ proc'.step = proc.step /\ proc'.shutdown = "l2tp"
    BY <1>1 DEF StopL2tpWorker, Running
  <1>3. /\ worker' \in [Worker -> [scheduled : BOOLEAN, inFlight : BOOLEAN]]
        /\ worker'["l2tp"].scheduled = FALSE
        /\ worker'["recovery"] = worker["recovery"]
        /\ worker = Dormant => worker' = Dormant
    BY Unscheduled DEF StopL2tpWorker, Worker, ProcessInv
  <1>4. /\ published = FALSE /\ ~worker["recovery"].scheduled
        /\ proc.startup \in {"started", "serving"}
    BY <1>1 DEF StopL2tpWorker, ProcessInv, StoppedBy
  <1>5. ProcessTypes' /\ RecordedIsBuilt'
    BY <1>1, <1>2, <1>3 DEF StopL2tpWorker, ProcessInv, ProcessTypes, RecordedIsBuilt
  <1>6. QuietBefore'
    BY <1>1, <1>2, <1>3, <1>4 DEF StopL2tpWorker, ProcessInv, QuietBefore, NothingRuns, Running
  <1>7. RecoveryOverIndexes' /\ PublishedIsServed'
    BY <1>3, <1>4 DEF StopL2tpWorker, ProcessInv, RecoveryOverIndexes, PublishedIsServed
  <1>8. StoppedBy'
    BY <1>2, <1>3, <1>4 DEF StopL2tpWorker, StoppedBy
  <1> QED BY <1>5, <1>6, <1>7, <1>8 DEF ProcessInv

\* With neither a timer nor a run left, both workers are dormant.
LEMMA WorkersStoppedInv ==
  ASSUME ProcessInv, WorkersStopped PROVE ProcessInv'
  <1>1. proc \in Running
    BY UpIsRunning DEF WorkersStopped, ProcessInv
  <1>2. /\ proc' \in Running /\ proc'.env = proc.env /\ proc'.startup = proc.startup
        /\ proc'.step = proc.step /\ proc'.shutdown = "disconnecting"
        /\ UNCHANGED <<worker, published, durable, boots>>
    BY <1>1 DEF WorkersStopped, Running
  <1>3. \A w \in Worker : ~worker[w].scheduled /\ ~worker[w].inFlight
    BY <1>1 DEF WorkersStopped, ProcessInv, StoppedBy, Worker
  <1>4. worker = Dormant
    BY <1>3 DEF ProcessInv, ProcessTypes, Dormant
  <1>5. NothingRuns' /\ proc'.startup \in {"started", "serving"}
    BY <1>1, <1>2, <1>4 DEF WorkersStopped, ProcessInv, StoppedBy, NothingRuns
  <1>6. ProcessTypes' /\ RecordedIsBuilt'
    BY <1>1, <1>2 DEF WorkersStopped, ProcessInv, ProcessTypes, RecordedIsBuilt
  <1>7. QuietBefore' /\ StoppedBy'
    BY <1>2, <1>5 DEF QuietBefore, StoppedBy, Running
  <1>8. RecoveryOverIndexes' /\ PublishedIsServed'
    BY <1>2 DEF ProcessInv, RecoveryOverIndexes, PublishedIsServed
  <1> QED BY <1>6, <1>7, <1>8 DEF ProcessInv

-----------------------------------------------------------------------------
LEMMA ProcessNextInv == ProcessInv /\ [ProcessNext]_processVars => ProcessInv'
  <1> SUFFICES ASSUME ProcessInv, [ProcessNext]_processVars PROVE ProcessInv'
    OBVIOUS
  <1>1. CASE \E env \in Environment : BootPanel(env)
    BY <1>1, BootInv
  <1>2. CASE DatabaseReady \/ EnsureIndex \/ RecordApplied
    BY <1>2, MigratingInv
  <1>3. CASE StartRuntime
    BY <1>3, StartRuntimeInv
  <1>4. CASE Serve
    BY <1>4, ServeInv
  <1>5. CASE StartupFails \/ Leave \/ ForceExit \/ Die
    <2>1. Gone
      <3>1. CASE StartupFails
        BY <3>1 DEF StartupFails
      <3>2. CASE Leave
        BY <3>2 DEF Leave
      <3>3. CASE ForceExit
        BY <3>3 DEF ForceExit
      <3>4. CASE Die
        BY <3>4 DEF Die
      <3> QED BY <1>5, <3>1, <3>2, <3>3, <3>4
    <2> QED BY <2>1, GoneInv
  <1>6. CASE \E w \in Worker : TickOf(w) \/ RunEnds(w)
    BY <1>6, WorkerInv
  <1>7. CASE \E timer \in BOOLEAN : TellToStop(timer)
    BY <1>7, TellToStopInv
  <1>8. CASE CloseServers
    BY <1>8, CloseServersInv
  <1>9. CASE StopRuntime
    BY <1>9, StopRuntimeInv
  <1>10. CASE StopL2tpWorker
    BY <1>10, StopL2tpWorkerInv
  <1>11. CASE WorkersStopped
    BY <1>11, WorkersStoppedInv
  <1>12. CASE UNCHANGED processVars
    BY <1>12 DEF processVars, ProcessInv, ProcessTypes, RecordedIsBuilt, QuietBefore, NothingRuns,
       RecoveryOverIndexes, PublishedIsServed, StoppedBy, Enabled
  <1> QED BY <1>1, <1>2, <1>3, <1>4, <1>5, <1>6, <1>7, <1>8, <1>9, <1>10, <1>11, <1>12
          DEF ProcessNext

(* Recovery runs only over its indexes, the routes find the host only while  *)
(* its worker is there, and the database is taken from no run under way: for *)
(* every number of models, whatever signals and crashes come when.           *)
THEOREM OrderHolds == ProcessSpec => []StartsAndStopsInOrder
  <1>1. ProcessInv => StartsAndStopsInOrder
    BY DEF ProcessInv, RecoveryOverIndexes, PublishedIsServed, StoppedBy, NothingRuns, StartsAndStopsInOrder
  <1> QED BY ProcessInitInv, ProcessNextInv, <1>1, PTL DEF ProcessSpec

-----------------------------------------------------------------------------
(***************************************************************************)
(* AccessLogShipping. A line is accounted for wherever its batch is: being *)
(* sealed, spooled, posted, in the panel's inbox or being inserted. What   *)
(* keeps a batch from being lost or stored twice is that an id is one      *)
(* batch's for good (IdsKept), that a batch whose token ClickHouse has     *)
(* seen is in the table or was purged (TokensKept), and that the agent is  *)
(* told of a batch only once the panel has it (AnswersKept).               *)
(***************************************************************************)

Batch == [id : Nat, lines : SUBSET Int]

ShipTypes ==
    /\ sealed \in Nat /\ logBase \in Nat /\ logEnd \in Nat
    /\ shipSpool \in Seq(Batch) /\ inbox \in Seq(Batch) /\ sealing \subseteq Batch
    /\ \A b, c \in sealing : b = c
    /\ pending \subseteq emitted /\ emitted \subseteq Int
    /\ post = NoPost \/ (post.at \in {"sent", "accepted"} /\ post.batch \in Batch
                         /\ post = [at |-> post.at, batch |-> post.batch])
    /\ drain = NoDrain \/ (drain.at \in {"parsed", "inserted", "marked"} /\ drain.batch \in Batch
                           /\ drain = [at |-> drain.at, batch |-> drain.batch])
    /\ copies \in [1 .. MaxBatches -> Nat]

\* The batches that exist anywhere.
Around ==
    sealing \cup Items(shipSpool) \cup Items(inbox)
        \cup (IF post = NoPost THEN {} ELSE {post.batch})
        \cup (IF drain = NoDrain THEN {} ELSE {drain.batch})

\* An id is one batch's, and new ids are new to everybody.
IdsKept ==
    /\ \A b \in Around : b.id \in 1 .. sealed /\ b.lines \subseteq emitted
    /\ \A b, c \in Around : b.id = c.id => b = c
    /\ tokens \subseteq 1 .. sealed

\* A batch whose token ClickHouse has seen is in the table, or was purged.
TokensKept ==
    /\ markers \subseteq tokens
    /\ \A b \in Around : b.id \in tokens => b.lines \subseteq stored \cup given
    /\ \A i \in 1 .. MaxBatches : copies[i] <= 1 /\ (i \notin tokens => copies[i] = 0)
    /\ drain # NoDrain /\ drain.at # "parsed" => drain.batch.id \in tokens

\* The agent hears of a batch only once the panel has it.
AnswersKept ==
    post # NoPost /\ post.at = "accepted" =>
        post.batch.lines \subseteq LinesOf(Items(inbox)) \cup stored \cup given

Accounted == emitted \subseteq OnTheWay \cup stored \cup given

ShipInv == ShipTypes /\ IdsKept /\ TokensKept /\ AnswersKept /\ Accounted

LEMMA ItemsFacts ==
  ASSUME NEW S, NEW s \in Seq(S)
  PROVE  /\ Items(s) \subseteq S
         /\ \A x \in S : Append(s, x) \in Seq(S) /\ Items(Append(s, x)) = Items(s) \cup {x}
         /\ s # <<>> => /\ Head(s) \in S /\ Tail(s) \in Seq(S)
                        /\ Items(s) = Items(Tail(s)) \cup {Head(s)}
  <1>1. Items(s) \subseteq S
    BY DEF Items
  <1>2. ASSUME NEW x \in S PROVE Append(s, x) \in Seq(S) /\ Items(Append(s, x)) = Items(s) \cup {x}
    <2>1. /\ Append(s, x) \in Seq(S) /\ Len(Append(s, x)) = Len(s) + 1 /\ Len(s) \in Nat
          /\ Append(s, x)[Len(s) + 1] = x /\ \A k \in 1 .. Len(s) : Append(s, x)[k] = s[k]
      OBVIOUS
    <2>2. DOMAIN s = 1 .. Len(s) /\ DOMAIN Append(s, x) = 1 .. Len(s) + 1
      BY <2>1
    <2>3. /\ Len(s) + 1 \in DOMAIN Append(s, x)
          /\ \A k \in DOMAIN Append(s, x) : k = Len(s) + 1 \/ k \in DOMAIN s
          /\ \A k \in DOMAIN s : k \in DOMAIN Append(s, x)
      BY <2>1, <2>2
    <2>4. \A e : e \in Items(Append(s, x)) <=> e \in Items(s) \cup {x}
      BY <2>1, <2>2, <2>3 DEF Items
    <2> QED BY <2>1, <2>4
  <1>3. ASSUME s # <<>>
        PROVE  Head(s) \in S /\ Tail(s) \in Seq(S) /\ Items(s) = Items(Tail(s)) \cup {Head(s)}
    <2>1. Len(s) \in Nat \ {0} /\ Head(s) = s[1] /\ Len(Tail(s)) = Len(s) - 1 /\ Tail(s) \in Seq(S)
          /\ \A k \in 1 .. Len(s) - 1 : Tail(s)[k] = s[k + 1]
      BY <1>3
    <2>2. DOMAIN s = 1 .. Len(s) /\ DOMAIN Tail(s) = 1 .. Len(s) - 1
      BY <2>1
    <2>3. \A k \in 1 .. Len(s) : k = 1 \/ (k - 1 \in 1 .. Len(s) - 1 /\ Tail(s)[k - 1] = s[k])
      BY <2>1
    <2>4. Items(s) \subseteq Items(Tail(s)) \cup {Head(s)}
      <3>1. ASSUME NEW k \in 1 .. Len(s) PROVE s[k] \in Items(Tail(s)) \cup {Head(s)}
        BY <2>1, <2>2, <2>3 DEF Items
      <3> QED BY <2>2, <3>1 DEF Items
    <2>5. Items(Tail(s)) \cup {Head(s)} \subseteq Items(s)
      BY <2>1, <2>2 DEF Items
    <2> QED BY <1>3, <2>1, <2>4, <2>5
  <1> QED BY <1>1, <1>2, <1>3

LEMMA CappedFacts ==
  ASSUME NEW S, NEW s \in Seq(S), SpoolCap \in Nat
  PROVE  Capped(s) \in Seq(S) /\ Items(Capped(s)) \subseteq Items(s)
  <1>1. CASE Len(s) <= SpoolCap
    BY <1>1 DEF Capped
  <1>2. CASE ~(Len(s) <= SpoolCap)
    <2> DEFINE m == Len(s) - SpoolCap + 1
    <2>1. Len(s) \in Nat /\ m \in 1 .. Len(s) + 1 /\ m \in Int
      BY <1>2
    <2> HIDE DEF m
    <2>2. /\ SubSeq(s, m, Len(s)) \in Seq(S)
          /\ Len(SubSeq(s, m, Len(s))) = Len(s) - m + 1
          /\ \A k \in 1 .. Len(s) - m + 1 : SubSeq(s, m, Len(s))[k] = s[m + k - 1]
      BY <2>1, SubSeqProperties
    <2>3. \A k \in 1 .. Len(s) - m + 1 : m + k - 1 \in 1 .. Len(s)
      BY <2>1
    <2>4. DOMAIN SubSeq(s, m, Len(s)) = 1 .. Len(s) - m + 1 /\ DOMAIN s = 1 .. Len(s)
      BY <2>2
    <2>5. Items(SubSeq(s, m, Len(s))) \subseteq Items(s)
      BY <2>2, <2>3, <2>4 DEF Items
    <2> QED BY <1>2, <2>2, <2>5 DEF Capped, m
  <1> QED BY <1>1, <1>2

LEMMA WithoutFacts ==
  ASSUME NEW S, NEW s \in Seq(S), NEW b
  PROVE  /\ Without(s, b) \in Seq(S) /\ Items(Without(s, b)) \subseteq Items(s)
         /\ Items(s) \subseteq Items(Without(s, b)) \cup {b}
  BY ItemsFacts DEF Without

LEMMA LinesFacts ==
  ASSUME NEW A, NEW B
  PROVE  /\ LinesOf({}) = {} /\ LinesOf(A \cup B) = LinesOf(A) \cup LinesOf(B)
         /\ A \subseteq B => LinesOf(A) \subseteq LinesOf(B)
         /\ \A x : LinesOf({x}) = x.lines
         /\ \A x \in A : x.lines \subseteq LinesOf(A)
  <1>1. \A C : LinesOf(C) = UNION {x.lines : x \in C}
    BY DEF LinesOf
  <1>2. \A C, e : e \in LinesOf(C) <=> \E x \in C : e \in x.lines
    BY <1>1
  <1>3. \A e : e \in LinesOf(A \cup B) <=> e \in LinesOf(A) \cup LinesOf(B)
    BY <1>2
  <1>4. A \subseteq B => LinesOf(A) \subseteq LinesOf(B)
    BY <1>2
  <1>5. ASSUME NEW x PROVE LinesOf({x}) = x.lines
    BY DEF LinesOf
  <1>6. \A x \in A : \A e \in x.lines : e \in LinesOf(A)
    BY <1>2
  <1>7. LinesOf({}) = {}
    BY <1>2
  <1> QED BY <1>3, <1>4, <1>5, <1>6, <1>7

LEMMA LinesWith ==
  ASSUME NEW A, NEW x
  PROVE  LinesOf(A \cup {x}) = LinesOf(A) \cup x.lines
  <1>1. LinesOf({x}) = x.lines /\ LinesOf(A \cup {x}) = LinesOf(A) \cup LinesOf({x})
    BY LinesFacts
  <1> QED BY <1>1

\* Where a line may be that is not lost.
Supply == LinesOf(Items(inbox)) \cup stored \cup given
Somewhere == OnTheWay \cup stored \cup given

LEMMA ShipInitInv == ShippingInit => ShipInv
  <1> SUFFICES ASSUME ShippingInit PROVE ShipInv
    OBVIOUS
  <1>1. Items(<<>>) = {}
    BY DEF Items
  <1>2. ShipTypes
    BY DEF ShippingInit, ShipTypes
  <1>3. Around = {}
    BY <1>1 DEF ShippingInit, Around
  <1>4. IdsKept /\ TokensKept
    BY <1>3 DEF ShippingInit, IdsKept, TokensKept
  <1>5. AnswersKept /\ Accounted
    BY DEF ShippingInit, AnswersKept, Accounted
  <1> QED BY <1>2, <1>4, <1>5 DEF ShipInv

\* A step that stores nothing and makes no batch.
LEMMA QuietStep ==
  ASSUME ShipInv, ShipTypes', AnswersKept', Around' \subseteq Around,
         UNCHANGED <<sealed, tokens, copies, emitted>>, markers' \subseteq tokens,
         stored \cup given \subseteq stored' \cup given', Somewhere \subseteq Somewhere',
         \/ drain' = drain \/ drain' = NoDrain \/ drain'.at = "parsed"
         \/ drain'.batch.id \in tokens
  PROVE  ShipInv'
  <1>1. IdsKept'
    BY DEF ShipInv, IdsKept
  <1>2. TokensKept'
    <2>1. \A b \in Around' : b.id \in tokens' => b.lines \subseteq stored' \cup given'
      BY DEF ShipInv, TokensKept
    <2>2. drain' # NoDrain /\ drain'.at # "parsed" => drain'.batch.id \in tokens'
      BY DEF ShipInv, TokensKept
    <2> QED BY <2>1, <2>2 DEF ShipInv, TokensKept
  <1>3. Accounted'
    BY DEF ShipInv, Accounted, Somewhere
  <1> QED BY <1>1, <1>2, <1>3 DEF ShipInv

\* What the agent was told stays true while nothing of it goes.
LEMMA AnswersStay ==
  ASSUME ShipInv, post' = post \/ post' = NoPost \/ post'.at = "sent", Supply \subseteq Supply'
  PROVE  AnswersKept'
  BY DEF ShipInv, AnswersKept, Supply, NoPost

-----------------------------------------------------------------------------
(* The agent.                                                              *)

LEMMA TailerSteps ==
  ASSUME ShipInv, XrayWrites \/ DecideRotation \/ Truncate
  PROVE  ShipInv'
  <1>1. UNCHANGED <<pending, sealing, shipSpool, emitted, sealed, ingestVars, post, given>>
    BY DEF XrayWrites, DecideRotation, Truncate
  <1>2. logEnd' \in Nat /\ logBase' \in Nat
    BY DEF ShipInv, ShipTypes, XrayWrites, DecideRotation, Truncate
  <1>3. ShipTypes'
    BY <1>1, <1>2 DEF ShipInv, ShipTypes, ingestVars
  <1>4. Around' = Around /\ Somewhere' = Somewhere /\ Supply' = Supply
    BY <1>1 DEF Around, Somewhere, Supply, OnTheWay, ingestVars
  <1>5. AnswersKept'
    BY <1>1, <1>4, AnswersStay
  <1> QED BY <1>1, <1>3, <1>4, <1>5, QuietStep DEF ShipInv, TokensKept, ingestVars

LEMMA ReadStep ==
  ASSUME ShipInv, Read
  PROVE  ShipInv'
  <1>1. UNCHANGED <<logBase, logEnd, sealing, shipSpool, sealed, ingestVars, post, given>>
    BY DEF Read
  <1>2. PICK new : pending' = pending \cup new /\ emitted' = emitted \cup new
    BY DEF Read
  <1>3. ShipTypes'
    <2>1. emitted' \subseteq Int
      BY DEF Read, ShipInv, ShipTypes
    <2> QED BY <1>1, <1>2, <2>1 DEF ShipInv, ShipTypes, ingestVars
  <1>4. Around' = Around
    BY <1>1 DEF Around, ingestVars
  <1>5. IdsKept' /\ TokensKept' /\ AnswersKept'
    BY <1>1, <1>2, <1>4 DEF ShipInv, IdsKept, TokensKept, AnswersKept, ingestVars
  <1>6. Accounted'
    BY <1>1, <1>2 DEF ShipInv, Accounted, OnTheWay, ingestVars
  <1> QED BY <1>3, <1>5, <1>6 DEF ShipInv

\* A new batch has an id that nobody knows.
LEMMA SealStep ==
  ASSUME ShipInv, Seal
  PROVE  ShipInv'
  <1> DEFINE new == [id |-> sealed + 1, lines |-> pending]
  <1>1. /\ sealed' = sealed + 1 /\ sealing' = {new} /\ sealing = {} /\ pending' = {}
        /\ UNCHANGED <<logBase, logEnd, shipSpool, emitted, ingestVars, post, given>>
    BY DEF Seal
  <1>2. new \in Batch /\ new.id = sealed + 1 /\ new.lines = pending
    BY DEF ShipInv, ShipTypes, Batch
  <1> HIDE DEF new
  <1>3. ShipTypes'
    BY <1>1, <1>2 DEF ShipInv, ShipTypes, ingestVars
  <1>4. Around' = Around \cup {new}
    BY <1>1 DEF Around, ingestVars
  <1>5. \A b \in Around : b.id \in 1 .. sealed
    BY DEF ShipInv, IdsKept
  <1>6. sealed \in Nat /\ \A n \in 1 .. sealed : n \in 1 .. sealed + 1 /\ n # sealed + 1
    BY DEF ShipInv, ShipTypes
  <1>7. IdsKept'
    <2>1. \A b \in Around' : b.id \in 1 .. sealed' /\ b.lines \subseteq emitted'
      BY <1>1, <1>2, <1>4, <1>6 DEF ShipInv, ShipTypes, IdsKept
    <2>2. \A b, c \in Around' : b.id = c.id => b = c
      BY <1>2, <1>4, <1>5, <1>6 DEF ShipInv, IdsKept
    <2>3. tokens' \subseteq 1 .. sealed'
      BY <1>1, <1>6 DEF ShipInv, IdsKept, ingestVars
    <2> QED BY <2>1, <2>2, <2>3 DEF IdsKept
  <1>8. TokensKept'
    <2>1. new.id \notin tokens
      BY <1>2, <1>6 DEF ShipInv, IdsKept
    <2> QED BY <1>1, <1>4, <2>1 DEF ShipInv, TokensKept, ingestVars
  <1>9. AnswersKept' /\ Accounted'
    <2>1. LinesOf({new}) = pending /\ LinesOf({}) = {}
      BY <1>2, LinesFacts
    <2>2. OnTheWay' = OnTheWay
      BY <1>1, <2>1 DEF OnTheWay, ingestVars
    <2> QED BY <1>1, <2>2 DEF ShipInv, AnswersKept, Accounted, ingestVars
  <1> QED BY <1>3, <1>7, <1>8, <1>9 DEF ShipInv

\* The spool: the batch is in it, or given up; so are those that make room.
LEMMA SpoolStep ==
  ASSUME ShipInv, Spool, SpoolCap \in Nat
  PROVE  ShipInv'
  <1>1. PICK b \in sealing :
          \/ /\ shipSpool' = Capped(Append(shipSpool, b))
             /\ given' = given \cup LinesOf(Items(Append(shipSpool, b)) \ Items(Capped(Append(shipSpool, b))))
          \/ given' = given \cup b.lines /\ shipSpool' = shipSpool
    BY DEF Spool
  <1>2. /\ sealing' = {} /\ UNCHANGED <<logBase, logEnd, pending, emitted, sealed, ingestVars, post>>
    BY DEF Spool
  <1>3. b \in Batch
    BY DEF ShipInv, ShipTypes
  <1>4. /\ shipSpool' \in Seq(Batch) /\ Items(shipSpool') \subseteq Items(shipSpool) \cup {b}
        /\ LinesOf(Items(shipSpool)) \cup b.lines \subseteq LinesOf(Items(shipSpool')) \cup given'
        /\ given \subseteq given'
    <2> DEFINE t == Append(shipSpool, b)
    <2>1. /\ t \in Seq(Batch) /\ Items(t) = Items(shipSpool) \cup {b}
      BY <1>3, ItemsFacts DEF ShipInv, ShipTypes
    <2> HIDE DEF t
    <2>2. Capped(t) \in Seq(Batch) /\ Items(Capped(t)) \subseteq Items(t)
      BY <2>1, CappedFacts
    <2>3. LinesOf(Items(t)) = LinesOf(Items(shipSpool)) \cup b.lines
      BY <2>1, LinesWith
    <2>4. Items(t) = Items(Capped(t)) \cup (Items(t) \ Items(Capped(t)))
      BY <2>2
    <2>5. LinesOf(Items(t)) = LinesOf(Items(Capped(t))) \cup LinesOf(Items(t) \ Items(Capped(t)))
      BY <2>4, LinesFacts
    <2>6. CASE given' = given \cup b.lines /\ shipSpool' = shipSpool
      BY <2>6 DEF ShipInv, ShipTypes
    <2>7. CASE shipSpool' = Capped(t) /\ given' = given \cup LinesOf(Items(t) \ Items(Capped(t)))
      BY <2>1, <2>2, <2>3, <2>5, <2>7
    <2> QED BY <1>1, <2>6, <2>7 DEF t
  <1>5. ShipTypes'
    BY <1>2, <1>4 DEF ShipInv, ShipTypes, ingestVars
  <1>6. Around' \subseteq Around
    BY <1>2, <1>4 DEF Around, ingestVars
  <1>7. LinesOf(sealing) = b.lines
    <2>1. sealing = {b}
      BY DEF ShipInv, ShipTypes
    <2> QED BY <2>1, LinesFacts
  <1>8. Somewhere \subseteq Somewhere' /\ Supply \subseteq Supply'
    BY <1>2, <1>4, <1>7 DEF Somewhere, Supply, OnTheWay, ingestVars
  <1>9. AnswersKept'
    BY <1>2, <1>8, AnswersStay
  <1> QED BY <1>2, <1>4, <1>5, <1>6, <1>8, <1>9, QuietStep DEF ShipInv, TokensKept, ingestVars

\* An answer that says the batch is settled takes it from the spool.
LEMMA SettleSteps ==
  ASSUME ShipInv, Delivered \/ Quarantine
  PROVE  ShipInv'
  <1> DEFINE b == post.batch
  <1>1. /\ shipSpool' = Without(shipSpool, b) /\ post' = NoPost /\ post # NoPost
        /\ UNCHANGED <<logBase, logEnd, pending, sealing, emitted, sealed, ingestVars>>
        /\ given \subseteq given'
    BY DEF Delivered, Quarantine, NoPost
  <1>2. /\ shipSpool' \in Seq(Batch) /\ Items(shipSpool') \subseteq Items(shipSpool)
        /\ Items(shipSpool) \subseteq Items(shipSpool') \cup {b}
    BY <1>1, WithoutFacts DEF ShipInv, ShipTypes
  <1>3. ShipTypes'
    BY <1>1, <1>2 DEF ShipInv, ShipTypes, ingestVars
  <1>4. Around' \subseteq Around
    BY <1>1, <1>2 DEF Around, ingestVars
  <1>5. LinesOf(Items(shipSpool)) \subseteq LinesOf(Items(shipSpool')) \cup b.lines
    <2>1. /\ LinesOf(Items(shipSpool') \cup {b}) = LinesOf(Items(shipSpool')) \cup b.lines
          /\ LinesOf(Items(shipSpool)) \subseteq LinesOf(Items(shipSpool') \cup {b})
      <3> HIDE DEF b
      <3> QED BY <1>2, LinesFacts, LinesWith
    <2> QED BY <2>1
  <1>6. b.lines \subseteq LinesOf(Items(inbox)) \cup stored \cup given'
    <2>1. CASE Delivered
      BY <1>1, <2>1 DEF Delivered, ShipInv, AnswersKept
    <2>2. CASE Quarantine
      BY <2>2 DEF Quarantine
    <2> QED BY <2>1, <2>2
  <1>7. Somewhere \subseteq Somewhere' /\ Supply \subseteq Supply'
    <2> HIDE DEF b
    <2> QED BY <1>1, <1>5, <1>6 DEF Somewhere, Supply, OnTheWay, ingestVars
  <1>8. AnswersKept'
    BY <1>1, <1>7, AnswersStay
  <1> QED BY <1>1, <1>3, <1>4, <1>7, <1>8, QuietStep DEF ShipInv, TokensKept, ingestVars

LEMMA PostSteps ==
  ASSUME ShipInv, Post \/ Retryable
  PROVE  ShipInv'
  <1>1. UNCHANGED <<agentVars, ingestVars, given>>
    BY DEF Post, Retryable
  <1>2. \/ post' = NoPost
        \/ /\ shipSpool # <<>> /\ post' = [at |-> "sent", batch |-> Head(shipSpool)]
           /\ Head(shipSpool) \in Batch /\ Head(shipSpool) \in Items(shipSpool)
    BY ItemsFacts DEF Post, Retryable, ShipInv, ShipTypes
  <1>3. ShipTypes'
    BY <1>1, <1>2 DEF ShipInv, ShipTypes, agentVars, ingestVars
  <1>4. Around' \subseteq Around
    BY <1>1, <1>2 DEF Around, agentVars, ingestVars
  <1>5. Somewhere' = Somewhere /\ Supply' = Supply
    BY <1>1 DEF Somewhere, Supply, OnTheWay, agentVars, ingestVars
  <1>6. AnswersKept'
    BY <1>2, <1>5, AnswersStay
  <1> QED BY <1>1, <1>3, <1>4, <1>5, <1>6, QuietStep DEF ShipInv, TokensKept, agentVars, ingestVars

LEMMA StopAgentStep ==
  ASSUME ShipInv, StopAgent
  PROVE  ShipInv'
  <1>1. /\ UNCHANGED <<logBase, logEnd, shipSpool, emitted, sealed, ingestVars>> /\ post' = NoPost
        /\ pending' = {} /\ sealing' = {} /\ given' = given \cup pending \cup LinesOf(sealing)
    BY DEF StopAgent
  <1>2. ShipTypes'
    BY <1>1 DEF ShipInv, ShipTypes, ingestVars
  <1>3. Around' \subseteq Around
    BY <1>1 DEF Around, ingestVars
  <1>4. Somewhere \subseteq Somewhere' /\ Supply \subseteq Supply'
    BY <1>1 DEF Somewhere, Supply, OnTheWay, ingestVars
  <1>5. AnswersKept'
    BY <1>1, <1>4, AnswersStay
  <1> QED BY <1>1, <1>2, <1>3, <1>4, <1>5, QuietStep DEF ShipInv, TokensKept, ingestVars

-----------------------------------------------------------------------------
(* The panel.                                                              *)

\* The batch is acknowledged because it is in the table, or in the spool.
LEMMA IngestSteps ==
  ASSUME ShipInv, Duplicate \/ Persist
  PROVE  ShipInv'
  <1> DEFINE b == post.batch
  <1>1. /\ post # NoPost /\ post.at = "sent" /\ post' = [post EXCEPT !.at = "accepted"]
        /\ UNCHANGED <<agentVars, drain, markers, tokens, copies, stored, given>>
    BY DEF Duplicate, Persist, NoPost, ingestVars
  <1>2. /\ post' = [at |-> "accepted", batch |-> b] /\ b \in Batch /\ post' # NoPost
        /\ post'.batch = b /\ post'.at = "accepted"
    BY <1>1 DEF ShipInv, ShipTypes, NoPost
  <1>3. b \in Around
    BY <1>1 DEF Around
  <1>4. /\ inbox' \in Seq(Batch) /\ Items(inbox) \subseteq Items(inbox')
        /\ Items(inbox') \subseteq Items(inbox) \cup {b}
        /\ b.lines \subseteq LinesOf(Items(inbox')) \cup stored \cup given
    <2>1. CASE Duplicate
      BY <1>3, <2>1 DEF Duplicate, ShipInv, ShipTypes, TokensKept, ingestVars
    <2>2. CASE Persist
      <3>1. inbox' = Append(inbox, b)
        BY <2>2 DEF Persist
      <3>2. inbox' \in Seq(Batch) /\ Items(inbox') = Items(inbox) \cup {b}
        BY <1>2, <3>1, ItemsFacts DEF ShipInv, ShipTypes
      <3> QED BY <3>2, LinesFacts
    <2> QED BY <2>1, <2>2
  <1>5. ShipTypes'
    BY <1>1, <1>2, <1>4 DEF ShipInv, ShipTypes, agentVars
  <1>6. Around' \subseteq Around
    BY <1>1, <1>2, <1>3, <1>4 DEF Around, agentVars
  <1>7. Somewhere \subseteq Somewhere'
    BY <1>1, <1>4, LinesFacts DEF Somewhere, OnTheWay, agentVars
  <1>8. AnswersKept'
    BY <1>1, <1>2, <1>4 DEF AnswersKept
  <1> QED BY <1>1, <1>5, <1>6, <1>7, <1>8, QuietStep DEF ShipInv, TokensKept, agentVars

\* A file goes from the panel's spool only when ClickHouse has its batch.
LEMMA InboxSteps ==
  ASSUME ShipInv, TakeFile \/ RemoveFile
  PROVE  ShipInv'
  <1>1. UNCHANGED <<agentVars, markers, tokens, copies, stored, post, given>>
    BY DEF TakeFile, RemoveFile
  <1>2. /\ inbox' \in Seq(Batch) /\ Items(inbox') \subseteq Items(inbox)
        /\ LinesOf(Items(inbox)) \subseteq LinesOf(Items(inbox')) \cup stored \cup given
    <2>1. CASE inbox' = inbox
      BY <2>1 DEF ShipInv, ShipTypes
    <2>2. CASE inbox # <<>> /\ inbox' = Tail(inbox) /\ Head(inbox).id \in tokens
      <3> DEFINE h == Head(inbox)
      <3>1. inbox' \in Seq(Batch) /\ Items(inbox) = Items(inbox') \cup {h}
        BY <2>2, ItemsFacts DEF ShipInv, ShipTypes
      <3>2. h.lines \subseteq stored \cup given
        BY <2>2, <3>1 DEF Around, ShipInv, TokensKept
      <3>3. LinesOf(Items(inbox)) = LinesOf(Items(inbox')) \cup h.lines
        BY <3>1, LinesWith
      <3> QED BY <3>1, <3>2, <3>3
    <2>3. inbox' = inbox \/ (inbox # <<>> /\ inbox' = Tail(inbox) /\ Head(inbox).id \in tokens)
      BY DEF TakeFile, RemoveFile, NoDrain, ShipInv, TokensKept
    <2> QED BY <2>1, <2>2, <2>3
  <1>3. \/ drain' = drain \/ drain' = NoDrain
        \/ /\ drain' = [at |-> "parsed", batch |-> Head(inbox)] /\ Head(inbox) \in Batch
           /\ Head(inbox) \in Items(inbox)
    BY ItemsFacts DEF TakeFile, RemoveFile, ShipInv, ShipTypes
  <1>4. ShipTypes'
    BY <1>1, <1>2, <1>3 DEF ShipInv, ShipTypes, agentVars
  <1>5. Around' \subseteq Around
    BY <1>1, <1>2, <1>3 DEF Around, agentVars
  <1>6. Somewhere \subseteq Somewhere' /\ Supply \subseteq Supply'
    BY <1>1, <1>2 DEF Somewhere, Supply, OnTheWay, agentVars
  <1>7. AnswersKept'
    BY <1>1, <1>6, AnswersStay
  <1> QED BY <1>1, <1>3, <1>4, <1>5, <1>6, <1>7, QuietStep DEF ShipInv, TokensKept, agentVars

\* The insert, whether the processor hears of it or not.
LEMMA StoreStep ==
  ASSUME ShipInv, drain # NoDrain, Stored(drain.batch), UNCHANGED <<agentVars, inbox, markers, post, given>>,
         drain' \in {NoDrain, [drain EXCEPT !.at = "inserted"]}
  PROVE  ShipInv'
  <1> DEFINE b == drain.batch
  <1>1. /\ tokens' = tokens \cup {b.id} /\ b \in Batch /\ b \in Around
        /\ IF b.id \in tokens THEN UNCHANGED <<copies, stored>>
           ELSE copies' = [copies EXCEPT ![b.id] = @ + 1] /\ stored' = stored \cup b.lines
    BY DEF Stored, ShipInv, ShipTypes, Around
  <1>2. b.lines \subseteq stored' \cup given /\ stored \subseteq stored'
    BY <1>1 DEF ShipInv, TokensKept
  <1>3. /\ copies' \in [1 .. MaxBatches -> Nat]
        /\ \A i \in 1 .. MaxBatches : copies'[i] <= 1 /\ (i \notin tokens' => copies'[i] = 0)
    <2> HIDE DEF b
    <2>1. copies \in [1 .. MaxBatches -> Nat]
          /\ \A i \in 1 .. MaxBatches : copies[i] <= 1 /\ (i \notin tokens => copies[i] = 0)
      BY DEF ShipInv, ShipTypes, TokensKept
    <2>2. CASE b.id \in tokens
      BY <1>1, <2>1, <2>2
    <2>3. CASE b.id \notin tokens
      <3>1. copies' = [copies EXCEPT ![b.id] = copies[b.id] + 1]
        BY <1>1, <2>3
      <3>3. \A i \in 1 .. MaxBatches : copies'[i] = IF i = b.id THEN 1 ELSE copies[i]
        BY <2>1, <2>3, <3>1
      <3>4. copies' = [i \in 1 .. MaxBatches |-> copies'[i]]
        BY <2>1, <3>1
      <3>5. \A i \in 1 .. MaxBatches : copies'[i] \in Nat
        BY <2>1, <3>3
      <3>2. copies' \in [1 .. MaxBatches -> Nat]
        BY <3>4, <3>5
      <3> QED BY <1>1, <2>1, <3>2, <3>3
    <2> QED BY <2>2, <2>3
  <1>4. drain' # NoDrain => /\ drain' = [at |-> "inserted", batch |-> b] /\ drain'.batch = b
                            /\ drain'.at = "inserted"
    BY DEF ShipInv, ShipTypes
  <1> HIDE DEF b
  <1>5. ShipTypes'
    BY <1>1, <1>3, <1>4 DEF ShipInv, ShipTypes, agentVars
  <1>6. Around' \subseteq Around
    BY <1>1, <1>4 DEF Around, agentVars
  <1>7. IdsKept'
    BY <1>1, <1>6 DEF ShipInv, IdsKept, agentVars
  <1>8. TokensKept'
    <2>1. ASSUME NEW c \in Around', c.id \in tokens' PROVE c.lines \subseteq stored' \cup given'
      <3>1. CASE c.id = b.id
        BY <1>1, <1>2, <1>6, <3>1 DEF ShipInv, IdsKept
      <3>2. CASE c.id \in tokens
        BY <1>2, <1>6, <3>2 DEF ShipInv, TokensKept
      <3> QED BY <1>1, <2>1, <3>1, <3>2
    <2>2. drain' # NoDrain /\ drain'.at # "parsed" => drain'.batch.id \in tokens'
      BY <1>1, <1>4
    <2> QED BY <1>1, <1>3, <2>1, <2>2 DEF ShipInv, TokensKept
  <1>9. AnswersKept' /\ Accounted'
    BY <1>2 DEF ShipInv, AnswersKept, Accounted, OnTheWay, agentVars
  <1> QED BY <1>5, <1>7, <1>8, <1>9 DEF ShipInv

LEMMA ProcessorSteps ==
  ASSUME ShipInv, Insert \/ InsertFails \/ MarkProcessed \/ StopPanel \/ PruneMarkers
  PROVE  ShipInv'
  <1>1. CASE Insert
    BY <1>1, StoreStep DEF Insert, NoDrain
  <1>2. CASE InsertFails /\ Stored(drain.batch)
    BY <1>2, StoreStep DEF InsertFails, NoDrain
  <1>3. CASE \/ InsertFails /\ UNCHANGED <<tokens, copies, stored>>
             \/ MarkProcessed \/ StopPanel \/ PruneMarkers
    <2>1. /\ UNCHANGED <<agentVars, inbox, tokens, copies, stored, given>>
          /\ post' = post \/ post' = NoPost
      BY <1>3 DEF InsertFails, MarkProcessed, StopPanel, PruneMarkers
    <2>2. markers' \subseteq tokens
      BY <1>3 DEF InsertFails, MarkProcessed, StopPanel, PruneMarkers, ShipInv, TokensKept, NoDrain
    <2>3. \/ drain' = drain \/ drain' = NoDrain
          \/ /\ drain # NoDrain /\ drain' = [at |-> "marked", batch |-> drain.batch]
             /\ drain.batch.id \in tokens
      BY <1>3 DEF InsertFails, MarkProcessed, StopPanel, PruneMarkers, ShipInv, ShipTypes, TokensKept, NoDrain
    <2>4. ShipTypes'
      BY <2>1, <2>3 DEF ShipInv, ShipTypes, agentVars
    <2>5. Around' \subseteq Around
      BY <2>1, <2>3 DEF Around, agentVars
    <2>6. Somewhere' = Somewhere /\ Supply' = Supply
      BY <2>1 DEF Somewhere, Supply, OnTheWay, agentVars
    <2>7. AnswersKept'
      BY <2>1, <2>6, AnswersStay
    <2> QED BY <2>1, <2>2, <2>3, <2>4, <2>5, <2>6, <2>7, QuietStep DEF agentVars
  <1> QED BY <1>1, <1>2, <1>3 DEF InsertFails

\* A purge gives up on all there is.
LEMMA PurgeStep ==
  ASSUME ShipInv, Purge
  PROVE  ShipInv'
  <1>1. /\ inbox' = <<>> /\ markers' = {} /\ copies' = [i \in 1 .. MaxBatches |-> 0] /\ stored' = {}
        /\ given' = given \cup emitted /\ UNCHANGED <<agentVars, drain, tokens, post>>
    BY DEF Purge
  <1>2. Items(inbox') = {}
    BY <1>1 DEF Items
  <1>3. ShipTypes'
    BY <1>1 DEF ShipInv, ShipTypes, agentVars
  <1>4. Around' \subseteq Around
    BY <1>1, <1>2 DEF Around, agentVars
  <1>5. IdsKept'
    BY <1>1, <1>4 DEF ShipInv, IdsKept, agentVars
  <1>6. TokensKept'
    BY <1>1, <1>4 DEF ShipInv, IdsKept, TokensKept, agentVars
  <1>7. AnswersKept'
    BY <1>1 DEF ShipInv, IdsKept, AnswersKept, Around
  <1>8. Accounted'
    BY <1>1 DEF Accounted, agentVars
  <1> QED BY <1>3, <1>5, <1>6, <1>7, <1>8 DEF ShipInv

LEMMA ShipStep == ShipInv /\ [ShippingNext]_shipVars => ShipInv'
  <1> SUFFICES ASSUME ShipInv, [ShippingNext]_shipVars PROVE ShipInv'
    OBVIOUS
  <1>1. CASE UNCHANGED shipVars
    BY <1>1 DEF shipVars, agentVars, ingestVars, ShipInv, ShipTypes, IdsKept, TokensKept, AnswersKept,
                Accounted, OnTheWay, Around
  <1>2. CASE ShippingNext
    BY <1>2, ShippingBounds, TailerSteps, ReadStep, SealStep, SpoolStep, SettleSteps, PostSteps,
       StopAgentStep, IngestSteps, InboxSteps, ProcessorSteps, PurgeStep DEF ShippingNext
  <1> QED BY <1>1, <1>2

\* However the agent, the panel and ClickHouse fail and retry: a line that was
\* read is on its way, in the table, or was given up on for a reason the code
\* names, and no batch is in the table twice.
THEOREM LinesConservedHolds == ShippingSpec => []LinesConserved
  <1>1. ShipInv => LinesConserved
    BY DEF ShipInv, Accounted, TokensKept, LinesConserved
  <1> QED BY ShipInitInv, ShipStep, <1>1, PTL DEF ShippingSpec

-----------------------------------------------------------------------------
(***************************************************************************)
(* PanelUpdate. The updater is called over an archive only if the archive  *)
(* of the flow's own backup outlives the backups of others: between its    *)
(* opening and the trigger at most MaxOverlap others end, and the rotation *)
(* keeps more archives than that (FlowArchived). A backup that is not      *)
(* archived yet has an id nobody has seen (BackupIds).                     *)
(***************************************************************************)

Archive == [id : Nat, whole : BOOLEAN]
BackupJob == [id : Nat, owner : {"flow", "other"}, at : {"dump", "archive", "upload"}]
RunningFlow == [state : {"running"}, version : Version, backup : BOOLEAN,
                step : {"backup", "trigger"}, before : SUBSET Nat]
EndedFlow == {NoFlow, [state |-> "error"], [state |-> "done"]}

UpdateTypes ==
    /\ archives \in Seq(Archive)
    /\ IsFiniteSet(backups) /\ backups \subseteq BackupJob /\ Cardinality(backups) <= MaxOverlap
    /\ nextBackup \in Nat /\ updateFaults \in Nat /\ updateFaults <= MaxUpdateFaults
    /\ flow \in RunningFlow \cup EndedFlow
    /\ flow \in RunningFlow /\ flow.step = "backup" => flow.backup

Unarchived(b) == b.at \in {"dump", "archive"}

\* No two backups share an id, and what is not archived yet is new to the flow.
BackupIds ==
    /\ \A b \in backups : b.id < nextBackup
    /\ \A b, c \in backups : b.id = c.id => b = c
    /\ \A x \in Archived : x < nextBackup
    /\ \A b \in backups : Unarchived(b) => b.id \notin Archived
    /\ flow \in RunningFlow =>
          /\ \A x \in flow.before : x < nextBackup
          /\ \A b \in backups : Unarchived(b) => b.id \notin flow.before

\* The flow has one backup, while it waits for it.
FlowsBackup ==
    /\ \A b \in backups : b.owner = "flow" => flow \in RunningFlow /\ flow.step = "backup"
    /\ \A b, c \in backups : b.owner = "flow" /\ c.owner = "flow" => b = c

\* There is a whole new archive, and only failures left anything after it.
NewArchive(s, before, n) ==
    \E i \in DOMAIN s : s[i].whole /\ s[i].id \notin before /\ Len(s) - i <= n

FlowArchived ==
    flow \in RunningFlow /\ flow.backup
    /\ (flow.step = "trigger" \/ \E b \in backups : b.owner = "flow" /\ b.at = "upload")
        => NewArchive(archives, flow.before, updateFaults)

\* How far the updater is, and which version a restart would run.
UpdaterKnows ==
    /\ updater = NoUpdate \/ updater = [step |-> updater.step, version |-> updater.version,
                                        previous |-> updater.previous]
    /\ updater.step \in {"idle", "write-tag", "fetch", "checkout", "pull", "build", "recreate"}
    /\ ~spoilt =>
          /\ updater.step \in {"idle", "write-tag", "fetch", "checkout"} => tag = panelRuns
          /\ updater.step \in {"write-tag", "fetch", "checkout", "pull", "build"} =>
                updater.previous = panelRuns

BackupInv == UpdateTypes /\ BackupIds /\ FlowsBackup /\ FlowArchived

LEMMA UpdaterSteps == UpdaterKnows /\ [UpdateNext]_updateVars => UpdaterKnows'
  <1> SUFFICES ASSUME UpdaterKnows, [UpdateNext]_updateVars PROVE UpdaterKnows'
    OBVIOUS
  <1>1. CASE UNCHANGED <<updater, tag, panelRuns, spoilt>>
    BY <1>1 DEF UpdaterKnows
  <1>2. CASE Trigger
    <2>1. CASE UNCHANGED updater
      BY <1>2, <2>1 DEF Trigger, UpdaterKnows
    <2>2. CASE updater.step = "idle" /\ updater' = Begun
      BY <1>2, <2>2 DEF Trigger, UpdaterKnows, Begun
    <2> QED BY <1>2, <2>1, <2>2 DEF Trigger
  <1>3. CASE WriteTag \/ Fetch \/ Checkout \/ Fetched
    <2>1. PICK from, to : updater.step = from /\ updater' = [updater EXCEPT !.step = to]
                          /\ UNCHANGED <<panelRuns, spoilt>>
                          /\ \/ from = "write-tag" /\ to = "pull"
                             \/ from = "fetch" /\ to = "checkout" /\ tag' = tag
                             \/ from = "checkout" /\ to = "build"
                             \/ from \in {"pull", "build"} /\ to = "recreate"
      BY <1>3 DEF WriteTag, Fetch, Checkout, Fetched, UpdaterStep
    <2>2. updater = [step |-> updater.step, version |-> updater.version, previous |-> updater.previous]
      BY <2>1 DEF UpdaterKnows, NoUpdate
    <2>3. updater' = [step |-> to, version |-> updater.version, previous |-> updater.previous]
      BY <2>1, <2>2
    <2> QED BY <2>1, <2>3 DEF UpdaterKnows
  <1>4. CASE UpdateFails
    BY <1>4 DEF UpdateFails, UpdaterKnows, NoUpdate, TagAfterFailure
  <1>5. CASE Recreate \/ RecreateFails \/ UpdaterDies
    BY <1>5 DEF Recreate, RecreateFails, UpdaterDies, UpdaterKnows, NoUpdate
  <1>6. UNCHANGED updateVars => UNCHANGED <<updater, tag, panelRuns, spoilt>>
    BY DEF updateVars
  <1>7. StartBackup \/ PanelDies => UNCHANGED <<updater, tag, panelRuns, spoilt>>
    BY DEF StartBackup, PanelDies
  <1>8. ASSUME NEW b \in backups, OpenArchive(b) \/ CloseArchive(b) \/ FinishBackup(b) \/ BackupFails(b)
        PROVE  UNCHANGED <<updater, tag, panelRuns, spoilt>>
    BY <1>8 DEF OpenArchive, CloseArchive, FinishBackup, BackupFails
  <1>9. ASSUME NEW v \in Version, NEW backup \in BOOLEAN, StartUpdate(v, backup)
        PROVE  UNCHANGED <<updater, tag, panelRuns, spoilt>>
    BY <1>9 DEF StartUpdate
  <1> QED BY <1>1, <1>2, <1>3, <1>4, <1>5, <1>6, <1>7, <1>8, <1>9 DEF UpdateNext

-----------------------------------------------------------------------------
(* The archives on disk.                                                   *)

LEMMA Appended ==
  ASSUME NEW s \in Seq(Archive), NEW x \in Archive
  PROVE  /\ Append(s, x) \in Seq(Archive) /\ Len(Append(s, x)) = Len(s) + 1 /\ Len(s) \in Nat
         /\ DOMAIN s = 1 .. Len(s) /\ DOMAIN Append(s, x) = 1 .. Len(s) + 1
         /\ \A i \in DOMAIN s : Append(s, x)[i] = s[i]
         /\ Append(s, x)[Len(s) + 1] = x
  OBVIOUS

\* A failure leaves at most one broken archive after the others.
LEMMA NewAndBroken ==
  ASSUME NEW s \in Seq(Archive), NEW x \in Archive, NEW before, NEW n \in Nat, NewArchive(s, before, n)
  PROVE  NewArchive(Append(s, x), before, n + 1)
  <1>1. PICK i \in DOMAIN s : s[i].whole /\ s[i].id \notin before /\ Len(s) - i <= n
    BY DEF NewArchive
  <1>2. i \in DOMAIN Append(s, x) /\ Append(s, x)[i] = s[i]
    BY Appended
  <1>3. Len(Append(s, x)) - i <= n + 1
    BY <1>1, Appended
  <1> QED BY <1>1, <1>2, <1>3 DEF NewArchive

LEMMA NewAndWhole ==
  ASSUME NEW s \in Seq(Archive), NEW x \in Archive, NEW before, NEW n \in Nat, x.whole, x.id \notin before
  PROVE  NewArchive(Append(s, x), before, n)
  <1>1. Len(Append(s, x)) \in DOMAIN Append(s, x) /\ Append(s, x)[Len(Append(s, x))] = x
    BY Appended
  <1>2. Len(Append(s, x)) - Len(Append(s, x)) <= n
    BY Appended
  <1> QED BY <1>1, <1>2 DEF NewArchive

LEMMA NewForLonger ==
  ASSUME NEW s \in Seq(Archive), NEW before, NEW n \in Nat, NEW m \in Nat, n <= m, NewArchive(s, before, n)
  PROVE  NewArchive(s, before, m)
  BY DEF NewArchive

LEMMA Cut ==
  ASSUME NEW s \in Seq(Archive), NEW k \in Nat
  PROVE  LET t == SubSeq(s, k + 1, Len(s))
         IN  /\ t \in Seq(Archive) /\ Len(t) = (IF k <= Len(s) THEN Len(s) - k ELSE 0)
             /\ DOMAIN t = 1 .. Len(t)
             /\ \A i \in DOMAIN t : i + k \in DOMAIN s /\ t[i] = s[i + k]
  <1> DEFINE t == SubSeq(s, k + 1, Len(s))
             m == k + 1
  <1>1. Len(s) \in Nat /\ m \in Int /\ \A i \in m .. Len(s) : s[i] \in Archive
    OBVIOUS
  <1>2. /\ SubSeq(s, m, Len(s)) \in Seq(Archive)
        /\ Len(SubSeq(s, m, Len(s))) = IF m <= Len(s) THEN Len(s) - m + 1 ELSE 0
        /\ \A i \in 1 .. Len(s) - m + 1 : SubSeq(s, m, Len(s))[i] = s[m + i - 1]
    <2> HIDE DEF m
    <2> QED BY <1>1, SubSeqProperties
  <1>3. t \in Seq(Archive) /\ Len(t) = (IF k <= Len(s) THEN Len(s) - k ELSE 0)
        /\ \A i \in 1 .. Len(s) - k : t[i] = s[m + i - 1]
    BY <1>1, <1>2
  <1>4. DOMAIN t = 1 .. Len(t) /\ \A i \in 1 .. Len(t) : i \in 1 .. Len(s) - k
    <2> HIDE DEF t
    <2> QED BY <1>1, <1>3
  <1>5. \A i \in 1 .. Len(s) - k : i + k \in 1 .. Len(s) /\ m + i - 1 = i + k
    BY <1>1
  <1> QED BY <1>3, <1>4, <1>5

\* Rotation keeps the newest; archives being written count as kept.
LEMMA RotationKeeps ==
  ASSUME archives \in Seq(Archive), Cardinality(Writing) \in Nat, NEW before, NEW n \in Nat,
         Cardinality(Writing) + n < KeepLast, KeepLast \in Nat
  PROVE  /\ Rotated \in Seq(Archive)
         /\ \A i \in DOMAIN Rotated : \E j \in DOMAIN archives : Rotated[i] = archives[j]
         /\ NewArchive(archives, before, n) => NewArchive(Rotated, before, n)
  <1> DEFINE excess == Len(archives) + Cardinality(Writing) - KeepLast
             t == SubSeq(archives, excess + 1, Len(archives))
  <1>1. Len(archives) \in Nat /\ DOMAIN archives = 1 .. Len(archives)
    OBVIOUS
  <1>2. CASE excess <= 0
    BY <1>2 DEF Rotated
  <1>3. CASE ~(excess <= 0)
    <2>1. excess \in Nat /\ excess <= Len(archives)
      BY <1>1, <1>3
    <2>2. Rotated = t
      BY <1>3 DEF Rotated
    <2>3. \A k \in Nat : k = excess => excess + n < Len(archives)
      BY <1>1, <1>3
    <2> HIDE DEF excess
    <2>4. /\ t \in Seq(Archive) /\ Len(t) = Len(archives) - excess /\ DOMAIN t = 1 .. Len(t)
          /\ \A i \in DOMAIN t : i + excess \in DOMAIN archives /\ t[i] = archives[i + excess]
      BY <2>1, Cut
    <2> HIDE DEF t
    <2>5. ASSUME NewArchive(archives, before, n) PROVE NewArchive(t, before, n)
      <3>1. PICK i \in DOMAIN archives : /\ archives[i].whole /\ archives[i].id \notin before
                                         /\ Len(archives) - i <= n
        BY <2>5 DEF NewArchive
      <3>2. i - excess \in 1 .. Len(t) /\ i - excess + excess = i /\ Len(t) - (i - excess) <= n
        BY <1>1, <2>1, <2>3, <2>4, <3>1
      <3>3. t[i - excess] = archives[i]
        BY <2>4, <3>2
      <3> QED BY <2>4, <3>1, <3>2, <3>3 DEF NewArchive
    <2> QED BY <2>2, <2>4, <2>5
  <1> QED BY <1>2, <1>3

-----------------------------------------------------------------------------
(* The backups.                                                            *)

LEMMA Caps ==
  /\ KeepLast \in Nat /\ MaxOverlap \in Nat /\ MaxUpdateFaults \in Nat
  /\ KeepLast > MaxOverlap - 1 + MaxUpdateFaults
  BY UpdateAssumption

LEMMA FlowKinds ==
  /\ \A f \in EndedFlow : f \notin RunningFlow
  /\ \A f \in RunningFlow : f.state = "running"
  /\ \A f \in EndedFlow : f.state # "running"
  <1>1. \A f \in EndedFlow : f.state # "running"
    BY DEF EndedFlow, NoFlow
  <1> QED BY <1>1 DEF RunningFlow

\* The flow ends, and its backup with it, or has none.
LEMMA FlowOver ==
  ASSUME BackupInv, UpdateTypes', flow' \in EndedFlow, backups' \subseteq backups,
         \A b \in backups' : b.owner # "flow", nextBackup' = nextBackup,
         \A x \in Archived' : x < nextBackup, \A b \in backups' : Unarchived(b) => b.id \notin Archived'
  PROVE  BackupInv'
  <1>1. flow' \notin RunningFlow
    BY FlowKinds
  <1>2. BackupIds'
    BY <1>1 DEF BackupInv, BackupIds
  <1>3. FlowsBackup' /\ FlowArchived'
    BY <1>1 DEF FlowsBackup, FlowArchived
  <1> QED BY <1>2, <1>3 DEF BackupInv

LEMMA InitBackups == UpdateInit => BackupInv
  <1> SUFFICES ASSUME UpdateInit PROVE BackupInv
    OBVIOUS
  <1>1. UpdateTypes
    BY FS_EmptySet, Caps, FlowKinds DEF UpdateInit, UpdateTypes, EndedFlow
  <1>2. flow \notin RunningFlow
    BY FlowKinds DEF UpdateInit, EndedFlow
  <1>3. BackupIds /\ FlowsBackup /\ FlowArchived
    BY <1>2 DEF UpdateInit, BackupIds, FlowsBackup, FlowArchived, Archived
  <1> QED BY <1>1, <1>3 DEF BackupInv

LEMMA ArchivedNat ==
  ASSUME BackupInv
  PROVE  \A x \in Archived : x \in Nat
  <1>1. archives \in Seq(Archive)
    BY DEF BackupInv, UpdateTypes
  <1>2. \A i \in DOMAIN archives : archives[i] \in Archive
    BY <1>1
  <1> QED BY <1>2 DEF Archived, Archive

LEMMA StartBackupStep ==
  ASSUME BackupInv, StartBackup
  PROVE  BackupInv'
  <1> DEFINE new == BackupOf("other")
  <1>1. /\ Cardinality(backups) < MaxOverlap /\ backups' = backups \cup {new}
        /\ nextBackup' = nextBackup + 1 /\ UNCHANGED <<flow, archives, updateFaults>>
    BY DEF StartBackup
  <1>2. new \in BackupJob /\ new.id = nextBackup /\ new.owner = "other" /\ new.at = "dump"
    BY DEF BackupOf, BackupJob, BackupInv, UpdateTypes
  <1> HIDE DEF new
  <1>3. UpdateTypes'
    <2>1. IsFiniteSet(backups') /\ Cardinality(backups') <= MaxOverlap
      <3>1. IsFiniteSet(backups)
        BY DEF BackupInv, UpdateTypes
      <3>2. /\ IsFiniteSet(backups \cup {new})
            /\ Cardinality(backups \cup {new}) \in {Cardinality(backups), Cardinality(backups) + 1}
        BY <3>1, FS_AddElement
      <3>3. Cardinality(backups) \in Nat
        BY <3>1, FS_CardinalityType
      <3> QED BY <1>1, <3>2, <3>3, Caps
    <2> QED BY <1>1, <1>2, <2>1 DEF BackupInv, UpdateTypes
  <1>4. nextBackup \in Nat /\ \A b \in backups : b.id \in Nat
    BY DEF BackupInv, UpdateTypes, BackupJob
  <1>5. /\ \A b \in backups : b.id < nextBackup /\ b.id # nextBackup
        /\ Archived' = Archived /\ \A x \in Archived : x \in Nat /\ x < nextBackup /\ x # nextBackup
    <2>1. Archived' = Archived
      BY <1>1 DEF Archived
    <2>2. \A x \in Archived : x \in Nat
      BY ArchivedNat
    <2> QED BY <1>4, <2>1, <2>2 DEF BackupInv, BackupIds
  <1>6. flow \in RunningFlow => \A x \in flow.before : x \in Nat /\ x < nextBackup /\ x # nextBackup
    BY <1>4 DEF BackupInv, BackupIds, RunningFlow
  <1>7. BackupIds'
    BY <1>1, <1>2, <1>4, <1>5, <1>6 DEF BackupInv, BackupIds
  <1>8. FlowsBackup' /\ FlowArchived'
    BY <1>1, <1>2 DEF BackupInv, FlowsBackup, FlowArchived
  <1> QED BY <1>3, <1>7, <1>8 DEF BackupInv

\* A backup moves on, and its archive may be on disk then.
LEMMA Moved ==
  ASSUME BackupInv, NEW b \in backups, NEW at \in {"archive", "upload"}, backups' = MovesTo(b, at),
         UNCHANGED <<flow, nextBackup, updateFaults>>
  PROVE  /\ IsFiniteSet(backups') /\ backups' \subseteq BackupJob /\ Cardinality(backups') <= MaxOverlap
         /\ \E new \in backups' :
               /\ new.id = b.id /\ new.owner = b.owner /\ new.at = at
               /\ backups' = (backups \ {b}) \cup {new}
  <1> DEFINE new == [b EXCEPT !.at = at]
  <1>1. /\ new \in BackupJob /\ new.id = b.id /\ new.owner = b.owner /\ new.at = at
        /\ backups' = (backups \ {b}) \cup {new}
    BY DEF MovesTo, BackupInv, UpdateTypes, BackupJob
  <1> HIDE DEF new
  <1>2. IsFiniteSet(backups \ {b}) /\ Cardinality(backups \ {b}) = Cardinality(backups) - 1
    BY FS_RemoveElement DEF BackupInv, UpdateTypes
  <1>3. /\ IsFiniteSet(backups')
        /\ Cardinality(backups') \in {Cardinality(backups) - 1, Cardinality(backups)}
    <2>1. Cardinality(backups) \in Nat
      BY FS_CardinalityType DEF BackupInv, UpdateTypes
    <2>2. /\ IsFiniteSet((backups \ {b}) \cup {new})
          /\ Cardinality((backups \ {b}) \cup {new}) \in
                {Cardinality(backups \ {b}), Cardinality(backups \ {b}) + 1}
      BY <1>2, FS_AddElement
    <2> QED BY <1>1, <1>2, <2>1, <2>2
  <1>4. Cardinality(backups) \in Nat /\ Cardinality(backups) <= MaxOverlap /\ MaxOverlap \in Nat
    BY FS_CardinalityType, Caps DEF BackupInv, UpdateTypes
  <1> QED BY <1>1, <1>3, <1>4 DEF BackupInv, UpdateTypes

LEMMA OpenStep ==
  ASSUME BackupInv, NEW b \in backups, OpenArchive(b)
  PROVE  BackupInv'
  <1>1. b.at = "dump" /\ backups' = MovesTo(b, "archive")
        /\ UNCHANGED <<flow, archives, nextBackup, updateFaults>>
    BY DEF OpenArchive
  <1>2. PICK new \in backups' : new.id = b.id /\ new.owner = b.owner /\ new.at = "archive"
                                /\ backups' = (backups \ {b}) \cup {new}
    BY <1>1, Moved
  <1>3. UpdateTypes'
    BY <1>1, Moved DEF BackupInv, UpdateTypes
  <1>4. Archived' = Archived
    BY <1>1 DEF Archived
  <1>5. BackupIds'
    BY <1>1, <1>2, <1>4 DEF BackupInv, BackupIds, Unarchived
  <1>6. FlowsBackup'
    BY <1>1, <1>2 DEF BackupInv, FlowsBackup
  <1>7. FlowArchived'
    BY <1>1, <1>2 DEF BackupInv, FlowArchived
  <1> QED BY <1>3, <1>5, <1>6, <1>7 DEF BackupInv

LEMMA CloseBackupStep ==
  ASSUME BackupInv, NEW b \in backups, CloseArchive(b)
  PROVE  BackupInv'
  <1> DEFINE x == [id |-> b.id, whole |-> TRUE]
  <1>1. b.at = "archive" /\ backups' = MovesTo(b, "upload") /\ archives' = Append(archives, x)
        /\ UNCHANGED <<flow, nextBackup, updateFaults>>
    BY DEF CloseArchive
  <1>2. PICK new \in backups' : new.id = b.id /\ new.owner = b.owner /\ new.at = "upload"
                                /\ backups' = (backups \ {b}) \cup {new}
    BY <1>1, Moved
  <1>3. x \in Archive /\ x.id = b.id /\ x.whole
    BY DEF Archive, BackupInv, UpdateTypes, BackupJob
  <1> HIDE DEF x
  <1>4. archives' \in Seq(Archive) /\ Archived' = Archived \cup {b.id}
    <2>1. archives \in Seq(Archive)
      BY DEF BackupInv, UpdateTypes
    <2>2. /\ archives' \in Seq(Archive) /\ DOMAIN archives = 1 .. Len(archives) /\ Len(archives) \in Nat
          /\ DOMAIN archives' = 1 .. Len(archives) + 1
          /\ \A i \in DOMAIN archives : archives'[i] = archives[i]
          /\ archives'[Len(archives) + 1] = x
      BY <1>1, <1>3, <2>1, Appended
    <2>3. /\ \A i \in DOMAIN archives' : i \in DOMAIN archives \/ i = Len(archives) + 1
          /\ \A i \in DOMAIN archives : i \in DOMAIN archives'
          /\ Len(archives) + 1 \in DOMAIN archives'
      BY <2>2
    <2>4. \A e : e \in Archived' <=> e \in Archived \cup {b.id}
      BY <1>3, <2>2, <2>3 DEF Archived
    <2> QED BY <2>2, <2>4
  <1>5. UpdateTypes'
    BY <1>1, <1>4, Moved DEF BackupInv, UpdateTypes
  <1>6. BackupIds'
    BY <1>1, <1>2, <1>4 DEF BackupInv, BackupIds, Unarchived
  <1>7. FlowsBackup'
    BY <1>1, <1>2 DEF BackupInv, FlowsBackup
  <1>8. flow \in RunningFlow => NewArchive(archives', flow.before, updateFaults)
    <2>1. flow \in RunningFlow => b.id \notin flow.before
      BY <1>1 DEF BackupInv, BackupIds, Unarchived
    <2>2. archives \in Seq(Archive) /\ updateFaults \in Nat
      BY DEF BackupInv, UpdateTypes
    <2> QED BY <1>1, <1>3, <2>1, <2>2, NewAndWhole
  <1>9. FlowArchived'
    BY <1>1, <1>8 DEF FlowArchived
  <1> QED BY <1>5, <1>6, <1>7, <1>9 DEF BackupInv

\* Who is done with its backup: the rotation keeps an archive of the flow's.
LEMMA RotatedInv ==
  ASSUME BackupInv, NEW b \in backups, b.at = "upload", archives' = Rotated
  PROVE  /\ archives' \in Seq(Archive) /\ Archived' \subseteq Archived
         /\ \A before : NewArchive(archives, before, updateFaults) =>
                          NewArchive(archives', before, updateFaults)
  <1>1. /\ IsFiniteSet(backups) /\ Cardinality(backups) \in Nat /\ Cardinality(backups) <= MaxOverlap
        /\ updateFaults \in Nat /\ updateFaults <= MaxUpdateFaults /\ archives \in Seq(Archive)
    BY FS_CardinalityType DEF BackupInv, UpdateTypes
  <1>2. IsFiniteSet(backups \ {b}) /\ Cardinality(backups \ {b}) = Cardinality(backups) - 1
    BY <1>1, FS_RemoveElement
  <1>3. Writing \subseteq backups \ {b}
    BY DEF Writing
  <1>4. Cardinality(Writing) <= Cardinality(backups \ {b}) /\ IsFiniteSet(Writing)
    BY <1>2, <1>3, FS_Subset
  <1>5. Cardinality(Writing) \in Nat
    BY <1>4, FS_CardinalityType
  <1>6. Cardinality(Writing) + updateFaults < KeepLast /\ KeepLast \in Nat
    BY <1>1, <1>2, <1>4, <1>5, Caps
  <1>7. /\ Rotated \in Seq(Archive)
        /\ \A i \in DOMAIN Rotated : \E j \in DOMAIN archives : Rotated[i] = archives[j]
        /\ \A before : NewArchive(archives, before, updateFaults) =>
                          NewArchive(Rotated, before, updateFaults)
    BY <1>1, <1>5, <1>6, RotationKeeps
  <1>8. Archived' \subseteq Archived
    BY <1>7 DEF Archived
  <1> QED BY <1>7, <1>8

LEMMA FinishStep ==
  ASSUME BackupInv, NEW b \in backups, FinishBackup(b)
  PROVE  BackupInv'
  <1>1. /\ b.at = "upload" /\ archives' = Rotated /\ backups' = backups \ {b}
        /\ flow' = FlowAfter(b, TRUE) /\ UNCHANGED <<nextBackup, updateFaults>>
    BY DEF FinishBackup
  <1>2. /\ archives' \in Seq(Archive) /\ Archived' \subseteq Archived
        /\ \A before : NewArchive(archives, before, updateFaults) =>
                         NewArchive(archives', before, updateFaults)
    BY <1>1, RotatedInv
  <1>3. IsFiniteSet(backups') /\ backups' \subseteq BackupJob /\ Cardinality(backups') <= MaxOverlap
    <2>1. IsFiniteSet(backups) /\ Cardinality(backups) <= MaxOverlap /\ backups \subseteq BackupJob
      BY DEF BackupInv, UpdateTypes
    <2>2. IsFiniteSet(backups \ {b}) /\ Cardinality(backups \ {b}) = Cardinality(backups) - 1
          /\ Cardinality(backups) \in Nat
      BY <2>1, FS_RemoveElement, FS_CardinalityType
    <2> QED BY <1>1, <2>1, <2>2, Caps
  <1>4. CASE b.owner # "flow"
    <2>1. flow' = flow
      BY <1>1, <1>4 DEF FlowAfter
    <2>2. UpdateTypes'
      BY <1>1, <1>2, <1>3, <2>1 DEF BackupInv, UpdateTypes
    <2>3. BackupIds'
      BY <1>1, <1>2, <2>1 DEF BackupInv, BackupIds
    <2>4. FlowsBackup'
      BY <1>1, <2>1 DEF BackupInv, FlowsBackup
    <2>5. FlowArchived'
      BY <1>1, <1>2, <2>1 DEF BackupInv, FlowArchived
    <2> QED BY <2>2, <2>3, <2>4, <2>5 DEF BackupInv
  <1>5. CASE b.owner = "flow"
    <2>1. flow \in RunningFlow /\ flow.step = "backup" /\ flow.backup
      BY <1>5 DEF BackupInv, FlowsBackup, UpdateTypes
    <2>2. flow' = [flow EXCEPT !.step = "trigger"]
      BY <1>1, <1>5 DEF FlowAfter
    <2>3. flow' \in RunningFlow /\ flow'.step = "trigger" /\ flow'.before = flow.before
      BY <2>1, <2>2 DEF RunningFlow
    <2>4. \A c \in backups' : c.owner # "flow"
      BY <1>1, <1>5 DEF BackupInv, FlowsBackup
    <2>5. UpdateTypes'
      BY <1>1, <1>2, <1>3, <2>3 DEF BackupInv, UpdateTypes
    <2>6. BackupIds'
      BY <1>1, <1>2, <2>1, <2>3 DEF BackupInv, BackupIds
    <2>7. FlowsBackup'
      BY <2>4 DEF FlowsBackup
    <2>8. NewArchive(archives, flow.before, updateFaults)
      BY <1>1, <1>5, <2>1 DEF BackupInv, FlowArchived
    <2>9. FlowArchived'
      BY <1>1, <1>2, <2>3, <2>8 DEF FlowArchived
    <2> QED BY <2>5, <2>6, <2>7, <2>9 DEF BackupInv
  <1> QED BY <1>4, <1>5

LEMMA FailStep ==
  ASSUME BackupInv, NEW b \in backups, BackupFails(b)
  PROVE  BackupInv'
  <1> DEFINE x == [id |-> b.id, whole |-> FALSE]
  <1>1. /\ updateFaults < MaxUpdateFaults /\ updateFaults' = updateFaults + 1
        /\ \/ b.at = "archive" /\ archives' = Append(archives, x)
           \/ archives' = archives
        /\ backups' = backups \ {b} /\ flow' = FlowAfter(b, FALSE) /\ nextBackup' = nextBackup
    BY DEF BackupFails, UpdateFault
  <1>2. x \in Archive /\ x.id = b.id
    BY DEF Archive, BackupInv, UpdateTypes, BackupJob
  <1> HIDE DEF x
  <1>3. /\ archives \in Seq(Archive) /\ updateFaults \in Nat /\ updateFaults' \in Nat
        /\ updateFaults <= updateFaults' /\ updateFaults' <= MaxUpdateFaults
    BY <1>1, Caps DEF BackupInv, UpdateTypes
  <1>4. /\ archives' \in Seq(Archive) /\ Archived' \subseteq Archived \cup {b.id}
        /\ \A before : NewArchive(archives, before, updateFaults) =>
                         NewArchive(archives', before, updateFaults')
    <2>1. CASE archives' = archives
      BY <1>3, <2>1, NewForLonger DEF Archived
    <2>2. CASE archives' = Append(archives, x)
      <3>1. /\ archives' \in Seq(Archive) /\ DOMAIN archives = 1 .. Len(archives) /\ Len(archives) \in Nat
            /\ DOMAIN archives' = 1 .. Len(archives) + 1
            /\ \A i \in DOMAIN archives : archives'[i] = archives[i]
            /\ archives'[Len(archives) + 1] = x
        BY <1>2, <1>3, <2>2, Appended
      <3>2. \A i \in DOMAIN archives' : i \in DOMAIN archives \/ i = Len(archives) + 1
        BY <3>1
      <3>3. Archived' \subseteq Archived \cup {b.id}
        BY <1>2, <3>1, <3>2 DEF Archived
      <3>4. \A before : NewArchive(archives, before, updateFaults) =>
                          NewArchive(archives', before, updateFaults')
        BY <1>1, <1>2, <1>3, <2>2, NewAndBroken
      <3> QED BY <3>1, <3>3, <3>4
    <2> QED BY <1>1, <2>1, <2>2
  <1>5. IsFiniteSet(backups') /\ backups' \subseteq BackupJob /\ Cardinality(backups') <= MaxOverlap
    <2>1. IsFiniteSet(backups) /\ Cardinality(backups) <= MaxOverlap /\ backups \subseteq BackupJob
      BY DEF BackupInv, UpdateTypes
    <2>2. IsFiniteSet(backups \ {b}) /\ Cardinality(backups \ {b}) = Cardinality(backups) - 1
          /\ Cardinality(backups) \in Nat
      BY <2>1, FS_RemoveElement, FS_CardinalityType
    <2> QED BY <1>1, <2>1, <2>2, Caps
  <1>6. /\ \A y \in Archived' : y < nextBackup
        /\ \A c \in backups' : Unarchived(c) => c.id \notin Archived'
    BY <1>1, <1>4 DEF BackupInv, BackupIds
  <1>7. CASE b.owner = "flow"
    <2>1. flow' = [state |-> "error"] /\ \A c \in backups' : c.owner # "flow"
      BY <1>1, <1>7 DEF FlowAfter, BackupInv, FlowsBackup
    <2>2. flow' \in EndedFlow
      BY <2>1 DEF EndedFlow
    <2>3. UpdateTypes'
      BY <1>1, <1>3, <1>4, <1>5, <2>2, FlowKinds DEF BackupInv, UpdateTypes
    <2> QED BY <1>1, <1>6, <2>1, <2>2, <2>3, FlowOver
  <1>8. CASE b.owner # "flow"
    <2>1. flow' = flow
      BY <1>1, <1>8 DEF FlowAfter
    <2>2. UpdateTypes'
      BY <1>1, <1>3, <1>4, <1>5, <2>1 DEF BackupInv, UpdateTypes
    <2>3. BackupIds'
      BY <1>1, <1>6, <2>1 DEF BackupInv, BackupIds
    <2>4. FlowsBackup'
      BY <1>1, <2>1 DEF BackupInv, FlowsBackup
    <2>5. FlowArchived'
      BY <1>1, <1>4, <2>1 DEF BackupInv, FlowArchived
    <2> QED BY <2>2, <2>3, <2>4, <2>5 DEF BackupInv
  <1> QED BY <1>7, <1>8

LEMMA StartUpdateStep ==
  ASSUME BackupInv, NEW v \in Version, NEW backup \in BOOLEAN, StartUpdate(v, backup)
  PROVE  BackupInv'
  <1>1. /\ flow.state # "running" /\ UNCHANGED <<archives, updateFaults>>
        /\ flow' = [state |-> "running", version |-> v, backup |-> backup,
                    step |-> IF backup THEN "backup" ELSE "trigger", before |-> Archived]
        /\ \/ /\ backup /\ Cardinality(backups) < MaxOverlap /\ backups' = backups \cup {BackupOf("flow")}
              /\ nextBackup' = nextBackup + 1
           \/ ~backup /\ UNCHANGED <<backups, nextBackup>>
    BY DEF StartUpdate
  <1>2. flow \notin RunningFlow /\ \A b \in backups : b.owner # "flow"
    BY <1>1 DEF RunningFlow, BackupInv, FlowsBackup
  <1>3. \A y \in Archived : y \in Nat
    BY ArchivedNat
  <1>4. /\ flow' \in RunningFlow /\ flow'.before = Archived /\ flow'.backup = backup
        /\ flow'.step = IF backup THEN "backup" ELSE "trigger"
    BY <1>1, <1>3 DEF RunningFlow
  <1>5. Archived' = Archived
    BY <1>1 DEF Archived
  <1>6. CASE ~backup
    <2>1. UNCHANGED <<backups, nextBackup>> /\ ~flow'.backup /\ flow'.step = "trigger"
      BY <1>1, <1>4, <1>6
    <2>2. UpdateTypes'
      BY <1>1, <1>4, <2>1 DEF BackupInv, UpdateTypes
    <2>3. BackupIds'
      BY <1>4, <1>5, <2>1 DEF BackupInv, BackupIds
    <2>4. FlowsBackup' /\ FlowArchived'
      BY <1>2, <2>1 DEF FlowsBackup, FlowArchived
    <2> QED BY <2>2, <2>3, <2>4 DEF BackupInv
  <1>7. CASE backup
    <2> DEFINE new == BackupOf("flow")
    <2>1. /\ Cardinality(backups) < MaxOverlap /\ backups' = backups \cup {new}
          /\ nextBackup' = nextBackup + 1 /\ flow'.step = "backup" /\ flow'.backup
      BY <1>1, <1>4, <1>7
    <2>2. new \in BackupJob /\ new.id = nextBackup /\ new.owner = "flow" /\ new.at = "dump"
      BY DEF BackupOf, BackupJob, BackupInv, UpdateTypes
    <2> HIDE DEF new
    <2>3. UpdateTypes'
      <3>1. IsFiniteSet(backups)
        BY DEF BackupInv, UpdateTypes
      <3>2. /\ IsFiniteSet(backups \cup {new})
            /\ Cardinality(backups \cup {new}) \in {Cardinality(backups), Cardinality(backups) + 1}
        BY <3>1, FS_AddElement
      <3>3. Cardinality(backups) \in Nat
        BY <3>1, FS_CardinalityType
      <3>4. Cardinality(backups') <= MaxOverlap
        BY <2>1, <3>2, <3>3, Caps
      <3> QED BY <1>1, <1>4, <2>1, <2>2, <3>2, <3>4 DEF BackupInv, UpdateTypes
    <2>4. nextBackup \in Nat /\ \A b \in backups : b.id \in Nat
      BY DEF BackupInv, UpdateTypes, BackupJob
    <2>5. /\ \A b \in backups : b.id < nextBackup /\ b.id # nextBackup
          /\ \A x \in Archived : x < nextBackup /\ x # nextBackup
      BY <1>3, <2>4 DEF BackupInv, BackupIds
    <2>6. BackupIds'
      BY <1>3, <1>4, <1>5, <2>1, <2>2, <2>4, <2>5 DEF BackupInv, BackupIds
    <2>7. FlowsBackup'
      BY <1>2, <1>4, <2>1, <2>2 DEF FlowsBackup
    <2>8. FlowArchived'
      BY <1>2, <2>1, <2>2 DEF FlowArchived
    <2> QED BY <2>3, <2>6, <2>7, <2>8 DEF BackupInv
  <1> QED BY <1>6, <1>7

LEMMA TriggerStep ==
  ASSUME BackupInv, Trigger
  PROVE  BackupInv'
  <1>1. /\ flow.state = "running" /\ flow.step = "trigger" /\ UNCHANGED <<backups, archives, nextBackup>>
        /\ flow' \in {[state |-> "done"], [state |-> "error"]}
        /\ updateFaults' = updateFaults \/ (updateFaults < MaxUpdateFaults /\ updateFaults' = updateFaults + 1)
    BY DEF Trigger, UpdateFault
  <1>2. flow' \in EndedFlow
    BY <1>1 DEF EndedFlow
  <1>3. UpdateTypes'
    BY <1>1, <1>2, FlowKinds, Caps DEF BackupInv, UpdateTypes
  <1>4. \A b \in backups : b.owner # "flow"
    BY <1>1 DEF BackupInv, FlowsBackup
  <1>5. Archived' = Archived
    BY <1>1 DEF Archived
  <1> QED BY <1>1, <1>2, <1>3, <1>4, <1>5, FlowOver DEF BackupInv, BackupIds

\* The panel stops: what was being written stays, broken.
LEMMA PanelStoppedStep ==
  ASSUME BackupInv, PanelStopped, nextBackup' = nextBackup,
         updateFaults' = updateFaults \/ (updateFaults < MaxUpdateFaults /\ updateFaults' = updateFaults + 1)
  PROVE  BackupInv'
  <1> DEFINE broken == {[id |-> b.id, whole |-> FALSE] : b \in Writing}
             n == Cardinality(broken)
  <1>1. archives' = archives \o SetToSeq(broken) /\ backups' = {} /\ flow' = NoFlow
    BY DEF PanelStopped
  <1>2. IsFiniteSet(broken) /\ broken \subseteq Archive /\ \A x \in broken : x.id < nextBackup
    <2>1. IsFiniteSet(Writing) /\ Writing \subseteq backups
      BY FS_Subset DEF BackupInv, UpdateTypes, Writing
    <2>2. IsFiniteSet(broken)
      <3> DEFINE f == [b \in Writing |-> [id |-> b.id, whole |-> FALSE]]
      <3>1. f \in Surjection(Writing, broken)
        BY DEF Surjection
      <3> HIDE DEF f, broken
      <3> QED BY <2>1, <3>1, FS_Surjection
    <2>3. ASSUME NEW x \in broken PROVE x \in Archive /\ x.id < nextBackup
      <3>1. PICK b \in Writing : x = [id |-> b.id, whole |-> FALSE]
        OBVIOUS
      <3>2. b \in BackupJob /\ b.id < nextBackup
        BY <2>1 DEF BackupInv, UpdateTypes, BackupIds
      <3> QED BY <3>1, <3>2 DEF BackupJob, Archive
    <2> QED BY <2>2, <2>3
  <1>3. n \in Nat /\ SetToSeq(broken) \in [1 .. n -> broken]
    <2>1. n \in Nat /\ ExistsBijection(1 .. n, broken)
      BY <1>2, FS_CardinalityType
    <2>2. \E f \in [1 .. n -> broken] : IsInjective(f)
      BY <2>1 DEF ExistsBijection, Bijection, Injection
    <2> QED BY <2>1, <2>2 DEF SetToSeq
  <1> DEFINE t == SetToSeq(broken)
  <1> HIDE DEF n, broken, t
  <1>4. archives \in Seq(Archive) /\ t \in Seq(Archive) /\ archives' = archives \o t
        /\ Len(t) = n /\ \A i \in 1 .. Len(t) : t[i] \in broken
    BY <1>1, <1>2, <1>3 DEF BackupInv, UpdateTypes, t
  <1>5. /\ archives' \in Seq(Archive) /\ Len(archives) \in Nat /\ Len(t) \in Nat
        /\ DOMAIN archives' = 1 .. Len(archives) + Len(t) /\ DOMAIN archives = 1 .. Len(archives)
        /\ \A i \in 1 .. Len(archives) + Len(t) :
              archives'[i] = IF i <= Len(archives) THEN archives[i] ELSE t[i - Len(archives)]
    BY <1>4
  <1>6. \A i \in DOMAIN archives' : archives'[i].id < nextBackup
    <2>1. ASSUME NEW i \in DOMAIN archives' PROVE archives'[i].id < nextBackup
      <3>1. CASE i <= Len(archives)
        <4>1. i \in DOMAIN archives /\ archives'[i] = archives[i]
          BY <1>5, <3>1
        <4> QED BY <4>1 DEF BackupInv, BackupIds, Archived
      <3>2. CASE ~(i <= Len(archives))
        <4>1. i - Len(archives) \in 1 .. Len(t) /\ archives'[i] = t[i - Len(archives)]
          BY <1>5, <3>2
        <4> QED BY <1>2, <1>4, <4>1
      <3> QED BY <3>1, <3>2
    <2> QED BY <2>1
  <1>7. UpdateTypes'
    BY <1>1, <1>5, FS_EmptySet, FlowKinds, Caps DEF BackupInv, UpdateTypes, EndedFlow
  <1>8. \A x \in Archived' : x < nextBackup
    BY <1>6 DEF Archived
  <1>9. flow' \in EndedFlow
    BY <1>1 DEF EndedFlow
  <1> QED BY <1>1, <1>7, <1>8, <1>9, FlowOver

LEMMA BackupSteps == BackupInv /\ [UpdateNext]_updateVars => BackupInv'
  <1> SUFFICES ASSUME BackupInv, [UpdateNext]_updateVars PROVE BackupInv'
    OBVIOUS
  <1>1. ASSUME UNCHANGED <<flow, backups, archives, nextBackup>>,
               updateFaults' = updateFaults \/ (updateFaults < MaxUpdateFaults /\ updateFaults' = updateFaults + 1)
        PROVE  BackupInv'
    <2>1. Archived' = Archived
      BY <1>1 DEF Archived
    <2>2. UpdateTypes' /\ updateFaults \in Nat /\ updateFaults' \in Nat /\ updateFaults <= updateFaults'
      BY <1>1, Caps DEF BackupInv, UpdateTypes
    <2>3. archives \in Seq(Archive)
      BY DEF BackupInv, UpdateTypes
    <2>4. \A before : NewArchive(archives, before, updateFaults) => NewArchive(archives, before, updateFaults')
      BY <2>2, <2>3, NewForLonger
    <2>5. BackupIds' /\ FlowsBackup' /\ FlowArchived'
      BY <1>1, <2>1, <2>4 DEF BackupInv, BackupIds, FlowsBackup, FlowArchived
    <2> QED BY <2>2, <2>5 DEF BackupInv
  <1>2. WriteTag \/ Fetch \/ Checkout \/ Fetched \/ UpdateFails \/ UpdaterDies =>
            /\ UNCHANGED <<flow, backups, archives, nextBackup>>
            /\ updateFaults' = updateFaults \/ (updateFaults < MaxUpdateFaults /\ updateFaults' = updateFaults + 1)
    BY DEF WriteTag, Fetch, Checkout, Fetched, UpdateFails, UpdaterDies, UpdaterStep, UpdateFault
  <1>3. CASE Recreate \/ RecreateFails \/ PanelDies
    <2>1. /\ PanelStopped \/ UNCHANGED <<flow, backups, archives>>
          /\ nextBackup' = nextBackup
          /\ updateFaults' = updateFaults \/ (updateFaults < MaxUpdateFaults /\ updateFaults' = updateFaults + 1)
      BY <1>3 DEF Recreate, RecreateFails, PanelDies, UpdateFault
    <2> QED BY <1>1, <2>1, PanelStoppedStep
  <1>4. CASE UNCHANGED updateVars
    BY <1>1, <1>4 DEF updateVars
  <1> QED BY <1>1, <1>2, <1>3, <1>4, StartBackupStep, OpenStep, CloseBackupStep, FinishStep, FailStep,
             StartUpdateStep, TriggerStep DEF UpdateNext

\* Whatever backups, updates and crashes overlap: an update that was to be
\* backed up has its archive when the updater is called, and no failed update
\* leaves behind a tag that some later start would run.
THEOREM UpdateIsSafeHolds == UpdateSpec => []UpdateIsSafe
  <1>1. UpdateInit => UpdaterKnows
    BY DEF UpdateInit, UpdaterKnows, NoUpdate
  <1>2. BackupInv => BackedUpFirst
    <2> SUFFICES ASSUME BackupInv, flow.state = "running", flow.step = "trigger", flow.backup
                 PROVE  \E i \in DOMAIN archives : archives[i].whole /\ archives[i].id \notin flow.before
      BY DEF BackedUpFirst
    <2>1. flow \in RunningFlow
      BY FlowKinds DEF BackupInv, UpdateTypes
    <2> QED BY <2>1 DEF BackupInv, FlowArchived, NewArchive
  <1>3. UpdaterKnows => TagMatchesPanel
    BY DEF UpdaterKnows, TagMatchesPanel
  <1> QED BY InitBackups, BackupSteps, UpdaterSteps, <1>1, <1>2, <1>3, PTL DEF UpdateSpec, UpdateIsSafe

-----------------------------------------------------------------------------
(***************************************************************************)
(* HysteriaAuth. How old a word may be is told by where it is: in the      *)
(* copy, in a request that has read the document, or in one that has read  *)
(* the copy (WordsAge). The addresses recorded and those about to be never *)
(* exceed the limit by more than the requests that counted at once         *)
(* (AddressesBounded).                                                     *)
(***************************************************************************)

AuthRecord == [at : {"none", "find", "store", "count", "record"}, ip : Ip \cup {"none"},
               grants : BOOLEAN, age : 0 .. MaxAnswer]

AuthTypes ==
    /\ auth \in [AuthReq -> AuthRecord]
    /\ copy \in [grants : BOOLEAN, left : 0 .. CopyTtl]
    /\ account \in [enabled : BOOLEAN, over : BOOLEAN]
    /\ unentitled \in Nat
    /\ IsFiniteSet(recent)
    /\ tally \in [edits : Nat, outages : Nat]

\* How old the word is that somebody may be let in on.
WordsAge ==
    /\ Grants(account) => unentitled = 0
    /\ copy.grants /\ copy.left > 0 => unentitled <= MaxAnswer + (CopyTtl - copy.left)
    /\ \A r \in AuthReq :
          /\ auth[r].at = "store" /\ auth[r].grants => unentitled <= auth[r].age
          /\ auth[r].at \in {"count", "record"} =>
                unentitled <= MaxAnswer + (CopyTtl - 1) + auth[r].age

\* The addresses recorded, and those about to be.
LetIn == {r \in AuthReq : auth[r].at = "record"}
Coming == {auth[r].ip : r \in LetIn}

AddressesBounded ==
    tally.outages = 0 =>
        redisUp /\ Cardinality(recent \cup Coming) <= DeviceCap + Cardinality(AuthReq) - 1

AuthInv == AuthTypes /\ WordsAge /\ AddressesBounded

LEMMA AuthCaps ==
    /\ DeviceCap \in Nat /\ DeviceCap > 0 /\ CopyTtl \in Nat /\ CopyTtl > 0
    /\ MaxAnswer \in Nat /\ IsFiniteSet(AuthReq) /\ Cardinality(AuthReq) \in Nat
  BY AuthAssumption, FS_CardinalityType

LEMMA Blanks ==
  /\ NoCopy \in [grants : BOOLEAN, left : 0 .. CopyTtl] /\ ~NoCopy.grants /\ NoCopy.left = 0
  /\ NoAuth \in AuthRecord /\ NoAuth.at = "none" /\ NoAuth.age = 0
  <1>1. 0 \in 0 .. CopyTtl /\ 0 \in 0 .. MaxAnswer
    BY AuthCaps
  <1> QED BY <1>1 DEF NoCopy, NoAuth, AuthRecord

LEMMA ComingFinite ==
  ASSUME NEW R \in SUBSET AuthReq, NEW a
  PROVE  /\ IsFiniteSet({a[r].ip : r \in R})
         /\ Cardinality({a[r].ip : r \in R}) \in Nat
         /\ Cardinality({a[r].ip : r \in R}) <= Cardinality(R)
  <1> DEFINE T == {a[r].ip : r \in R}
             f == [r \in R |-> a[r].ip]
  <1>1. IsFiniteSet(R)
    BY AuthCaps, FS_Subset
  <1>2. f \in Surjection(R, T)
    BY DEF Surjection
  <1> HIDE DEF f, T
  <1>3. IsFiniteSet(T) /\ Cardinality(T) <= Cardinality(R)
    BY <1>1, <1>2, FS_Surjection
  <1>4. Cardinality(T) \in Nat
    BY <1>3, FS_CardinalityType
  <1> QED BY <1>3, <1>4 DEF T

\* Fewer addresses stay within the bound.
LEMMA FewerAddresses ==
  ASSUME AuthInv, AuthTypes', tally'.outages = 0 => tally.outages = 0 /\ redisUp',
         recent' \cup Coming' \subseteq recent \cup Coming
  PROVE  AddressesBounded'
  <1> SUFFICES ASSUME tally'.outages = 0 PROVE AddressesBounded'
    BY DEF AddressesBounded
  <1> DEFINE old == recent \cup Coming
             new == recent' \cup Coming'
  <1>1. IsFiniteSet(Coming)
    <2>1. LetIn \in SUBSET AuthReq
      BY DEF LetIn
    <2> QED BY <2>1, ComingFinite DEF Coming
  <1>2. IsFiniteSet(old)
    BY <1>1, FS_Union DEF AuthInv, AuthTypes
  <1>3. new \subseteq old
    OBVIOUS
  <1>4. Cardinality(old) <= DeviceCap + Cardinality(AuthReq) - 1 /\ redisUp'
    BY DEF AuthInv, AddressesBounded
  <1> HIDE DEF old, new
  <1>5. IsFiniteSet(new) /\ Cardinality(new) <= Cardinality(old)
    BY <1>2, <1>3, FS_Subset
  <1>6. Cardinality(new) \in Nat /\ Cardinality(old) \in Nat
    BY <1>2, <1>5, FS_CardinalityType
  <1>7. Cardinality(new) <= DeviceCap + Cardinality(AuthReq) - 1
    BY <1>4, <1>5, <1>6, AuthCaps
  <1> QED BY <1>4, <1>7 DEF AddressesBounded, new

LEMMA AuthInitInv == AuthInit => AuthInv
  <1> SUFFICES ASSUME AuthInit PROVE AuthInv
    OBVIOUS
  <1>1. NoAuth \in AuthRecord
    BY AuthCaps DEF NoAuth, AuthRecord
  <1>2. AuthTypes
    BY <1>1, AuthCaps, FS_EmptySet DEF AuthInit, AuthTypes, NoCopy
  <1>3. WordsAge
    BY AuthCaps DEF AuthInit, WordsAge, NoCopy, NoAuth, Grants
  <1>4. recent \cup Coming = {}
    BY DEF AuthInit, Coming, LetIn, NoAuth
  <1>5. AddressesBounded
    <2>1. Cardinality({}) = 0
      BY FS_EmptySet
    <2>2. Cardinality(recent \cup Coming) = 0 /\ redisUp
      BY <1>4, <2>1 DEF AuthInit
    <2> QED BY <2>2, AuthCaps DEF AddressesBounded
  <1> QED BY <1>2, <1>3, <1>5 DEF AuthInv

\* A request moves on and is not let in yet.
LEMMA RequestMoves ==
  ASSUME AuthInv, NEW r \in AuthReq, NEW new \in AuthRecord,
         auth' = [auth EXCEPT ![r] = new], new.at # "record",
         copy' \in [grants : BOOLEAN, left : 0 .. CopyTtl],
         copy'.grants /\ copy'.left > 0 => unentitled <= MaxAnswer + (CopyTtl - copy'.left),
         UNCHANGED <<account, recent, redisUp, unentitled, tally>>,
         new.at = "store" /\ new.grants => unentitled <= new.age,
         new.at = "count" => unentitled <= MaxAnswer + (CopyTtl - 1) + new.age
  PROVE  AuthInv'
  <1>1. AuthTypes'
    BY DEF AuthInv, AuthTypes
  <1>2. /\ auth'[r] = new
        /\ \A q \in AuthReq : q # r => auth'[q] = auth[q]
    BY DEF AuthInv, AuthTypes
  <1>3. WordsAge'
    BY <1>2 DEF AuthInv, WordsAge, Grants
  <1>4. LetIn' \subseteq LetIn /\ \A q \in LetIn' : auth'[q] = auth[q]
    BY <1>2 DEF LetIn
  <1>5. Coming' \subseteq Coming
    BY <1>4 DEF Coming
  <1>6. AddressesBounded'
    BY <1>1, <1>5, FewerAddresses DEF AuthInv, AddressesBounded
  <1> QED BY <1>1, <1>3, <1>6 DEF AuthInv

LEMMA AskPanelStep ==
  ASSUME AuthInv, NEW r \in AuthReq, AskPanel(r)
  PROVE  AuthInv'
  <1>1. PICK ip \in Ip, at \in {"find", "count"} :
           /\ auth' = [auth EXCEPT ![r] = [NoAuth EXCEPT !.at = at, !.ip = ip]]
           /\ at = "count" => redisUp /\ copy.left # 0 /\ copy.grants
    BY DEF AskPanel
  <1> DEFINE new == [[NoAuth EXCEPT !.at = at] EXCEPT !.ip = ip]
  <1> HIDE DEF NoAuth
  <1>2. auth' = [auth EXCEPT ![r] = new] /\ new \in AuthRecord /\ new.at = at /\ new.age = 0
    BY <1>1, Blanks DEF AuthRecord
  <1>3. new.at = "count" => unentitled <= MaxAnswer + (CopyTtl - 1) + new.age
    BY <1>1, <1>2, AuthCaps DEF AuthInv, AuthTypes, WordsAge
  <1>4. new.at # "record" /\ new.at # "store" /\ UNCHANGED <<copy, account, recent, redisUp, unentitled, tally>>
    BY <1>2 DEF AskPanel
  <1> HIDE DEF new
  <1> QED BY <1>2, <1>3, <1>4, RequestMoves DEF AuthInv, AuthTypes, WordsAge

LEMMA FindAccountStep ==
  ASSUME AuthInv, NEW r \in AuthReq, FindAccount(r)
  PROVE  AuthInv'
  <1> DEFINE new == [[auth[r] EXCEPT !.at = "store"] EXCEPT !.grants = Grants(account)]
  <1>1. auth' = [auth EXCEPT ![r] = new]
    BY DEF FindAccount, AuthInv, AuthTypes
  <1>2. Grants(account) \in BOOLEAN /\ auth[r] \in AuthRecord
    BY DEF Grants, AuthInv, AuthTypes
  <1>3. new \in AuthRecord /\ new.at = "store" /\ new.grants = Grants(account) /\ new.age = auth[r].age
    BY <1>2 DEF AuthRecord
  <1>4. new.grants => unentitled <= new.age
    BY <1>2, <1>3 DEF AuthInv, WordsAge, AuthRecord
  <1>5. UNCHANGED <<copy, account, recent, redisUp, unentitled, tally>>
    BY DEF FindAccount
  <1> HIDE DEF new
  <1> QED BY <1>1, <1>3, <1>4, <1>5, RequestMoves DEF AuthInv, AuthTypes, WordsAge

LEMMA StoreCopyStep ==
  ASSUME AuthInv, NEW r \in AuthReq, StoreCopy(r)
  PROVE  AuthInv'
  <1> DEFINE new == IF auth[r].grants THEN [auth[r] EXCEPT !.at = "count"] ELSE NoAuth
  <1>1. auth' = [auth EXCEPT ![r] = new]
    BY DEF StoreCopy, Decide
  <1>2. auth[r] \in AuthRecord /\ auth[r].at = "store" /\ UNCHANGED <<account, recent, redisUp, unentitled, tally>>
    BY DEF StoreCopy, AuthInv, AuthTypes
  <1>3. /\ new \in AuthRecord /\ new.at \in {"count", "none"}
        /\ new.at = "count" => auth[r].grants /\ new.age = auth[r].age
    BY <1>2, AuthCaps DEF AuthRecord, NoAuth
  <1>4. auth[r].grants => unentitled <= auth[r].age /\ unentitled \in Nat /\ auth[r].age \in 0 .. MaxAnswer
    BY <1>2 DEF AuthInv, AuthTypes, WordsAge, AuthRecord
  <1>5. new.at = "count" => unentitled <= MaxAnswer + (CopyTtl - 1) + new.age
    BY <1>3, <1>4, AuthCaps
  <1>6. copy' = copy \/ copy' = [grants |-> auth[r].grants, left |-> CopyTtl]
    BY DEF StoreCopy
  <1>7. auth[r].grants \in BOOLEAN
    BY <1>2 DEF AuthRecord
  <1>8. copy' \in [grants : BOOLEAN, left : 0 .. CopyTtl]
    BY <1>6, <1>7, AuthCaps DEF AuthInv, AuthTypes
  <1>9. copy'.grants /\ copy'.left > 0 => unentitled <= MaxAnswer + (CopyTtl - copy'.left)
    <2>1. CASE copy' = copy
      BY <2>1 DEF AuthInv, WordsAge
    <2>2. CASE copy' = [grants |-> auth[r].grants, left |-> CopyTtl]
      BY <2>2, <1>4, AuthCaps
    <2> QED BY <1>6, <2>1, <2>2
  <1> HIDE DEF new
  <1> QED BY <1>1, <1>2, <1>3, <1>5, <1>8, <1>9, RequestMoves

\* The addresses are counted and the one that asks is among them: whatever the
\* other requests bring is at most one address each.
LEMMA CountIpsStep ==
  ASSUME AuthInv, NEW r \in AuthReq, CountIps(r)
  PROVE  AuthInv'
  <1> DEFINE fits == Cardinality({auth[r].ip} \cup Recent) <= DeviceCap
  <1>1. /\ auth[r] \in AuthRecord /\ auth[r].at = "count"
        /\ UNCHANGED <<account, copy, recent, redisUp, wiping, unentitled, tally>>
        /\ auth' = [auth EXCEPT ![r] = IF fits THEN [auth[r] EXCEPT !.at = "record"] ELSE NoAuth]
    BY DEF CountIps, AuthInv, AuthTypes
  <1> HIDE DEF fits
  <1>2. CASE ~fits
    <2>1. NoAuth \in AuthRecord /\ NoAuth.at = "none"
      BY AuthCaps DEF NoAuth, AuthRecord
    <2>2. auth' = [auth EXCEPT ![r] = NoAuth]
      BY <1>1, <1>2
    <2> HIDE DEF NoAuth
    <2> QED BY <1>1, <2>1, <2>2, RequestMoves DEF AuthInv, AuthTypes, WordsAge
  <1>3. CASE fits
    <2> DEFINE new == [auth[r] EXCEPT !.at = "record"]
    <2>1. auth' = [auth EXCEPT ![r] = new]
      BY <1>1, <1>3
    <2>2. new \in AuthRecord /\ new.at = "record" /\ new.ip = auth[r].ip /\ new.age = auth[r].age
      BY <1>1 DEF AuthRecord
    <2> HIDE DEF new
    <2>3. /\ auth'[r] = new
          /\ \A q \in AuthReq : q # r => auth'[q] = auth[q]
      BY <2>1 DEF AuthInv, AuthTypes
    <2>4. AuthTypes'
      BY <1>1, <2>1, <2>2 DEF AuthInv, AuthTypes
    <2>5. WordsAge'
      BY <1>1, <2>2, <2>3 DEF AuthInv, WordsAge, Grants
    <2>6. AddressesBounded'
      <3> SUFFICES ASSUME tally.outages = 0 PROVE AddressesBounded'
        BY <1>1 DEF AddressesBounded
      <3> DEFINE R == LetIn' \ {r}
                 others == {auth'[q].ip : q \in R}
                 mine == {auth[r].ip} \cup recent
      <3>1. redisUp /\ redisUp' /\ Recent = recent
        BY <1>1 DEF AuthInv, AddressesBounded, Recent
      <3>2. recent' \cup Coming' = mine \cup others
        BY <1>1, <2>2, <2>3 DEF Coming, LetIn
      <3>3. R \subseteq AuthReq \ {r}
        BY DEF LetIn
      <3>4. IsFiniteSet(others) /\ Cardinality(others) \in Nat /\ Cardinality(others) <= Cardinality(R)
        BY <3>3, ComingFinite
      <3>5. Cardinality(mine) <= DeviceCap /\ IsFiniteSet(mine)
        <4>1. IsFiniteSet(recent)
          BY DEF AuthInv, AuthTypes
        <4>2. IsFiniteSet(recent \cup {auth[r].ip})
          BY <4>1, FS_AddElement
        <4>3. recent \cup {auth[r].ip} = mine
          OBVIOUS
        <4> QED BY <1>3, <3>1, <4>2, <4>3 DEF fits
      <3>6. Cardinality(R) <= Cardinality(AuthReq) - 1 /\ Cardinality(R) \in Nat
        <4>1. IsFiniteSet(AuthReq \ {r}) /\ Cardinality(AuthReq \ {r}) = Cardinality(AuthReq) - 1
          BY AuthCaps, FS_RemoveElement
        <4>2. IsFiniteSet(R) /\ Cardinality(R) <= Cardinality(AuthReq \ {r})
          BY <3>3, <4>1, FS_Subset
        <4>3. Cardinality(R) \in Nat
          BY <4>2, FS_CardinalityType
        <4> QED BY <4>1, <4>2, <4>3, AuthCaps
      <3> HIDE DEF R, others, mine
      <3>7. /\ IsFiniteSet(mine \cup others)
            /\ Cardinality(mine \cup others) =
                  Cardinality(mine) + Cardinality(others) - Cardinality(mine \cap others)
        BY <3>4, <3>5, FS_Union
      <3>8. IsFiniteSet(mine \cap others)
        BY <3>5, FS_Intersection
      <3>9. Cardinality(mine \cap others) \in Nat /\ Cardinality(mine) \in Nat
        BY <3>5, <3>8, FS_CardinalityType
      <3>10. Cardinality(mine \cup others) <= DeviceCap + Cardinality(AuthReq) - 1
        BY <3>4, <3>5, <3>6, <3>7, <3>9, AuthCaps
      <3> QED BY <3>1, <3>2, <3>10 DEF AddressesBounded
    <2> QED BY <2>4, <2>5, <2>6 DEF AuthInv
  <1> QED BY <1>2, <1>3

LEMMA RecordIpStep ==
  ASSUME AuthInv, NEW r \in AuthReq, RecordIp(r)
  PROVE  AuthInv'
  <1>1. /\ auth[r].at = "record" /\ auth' = [auth EXCEPT ![r] = NoAuth]
        /\ recent' = recent \/ recent' = recent \cup {auth[r].ip}
        /\ UNCHANGED <<account, copy, redisUp, unentitled, tally>>
    BY DEF RecordIp
  <1>2. NoAuth \in AuthRecord /\ NoAuth.at = "none"
    BY AuthCaps DEF NoAuth, AuthRecord
  <1>3. /\ auth'[r] = NoAuth
        /\ \A q \in AuthReq : q # r => auth'[q] = auth[q]
    BY <1>1 DEF AuthInv, AuthTypes
  <1>4. AuthTypes'
    <2>1. IsFiniteSet(recent')
      BY <1>1, FS_AddElement DEF AuthInv, AuthTypes
    <2> QED BY <1>1, <1>2, <2>1 DEF AuthInv, AuthTypes
  <1>5. WordsAge'
    BY <1>1, <1>2, <1>3 DEF AuthInv, WordsAge, Grants
  <1>6. LetIn' \subseteq LetIn /\ r \in LetIn /\ \A q \in LetIn' : auth'[q] = auth[q]
    BY <1>1, <1>2, <1>3 DEF LetIn
  <1>7. Coming' \subseteq Coming /\ auth[r].ip \in Coming
    BY <1>6 DEF Coming
  <1>8. AddressesBounded'
    BY <1>1, <1>4, <1>7, FewerAddresses DEF AuthInv, AddressesBounded
  <1> QED BY <1>4, <1>5, <1>8 DEF AuthInv

\* What leaves the requests alone, and drops addresses at most.
LEMMA RequestsStay ==
  ASSUME AuthInv, UNCHANGED auth, recent' \subseteq recent,
         copy' = copy \/ copy' = NoCopy,
         account' \in [enabled : BOOLEAN, over : BOOLEAN],
         unentitled' = unentitled \/ unentitled' = 0, Grants(account') => unentitled' = 0,
         tally' \in [edits : Nat, outages : Nat],
         tally'.outages = 0 => tally.outages = 0 /\ redisUp'
  PROVE  AuthInv'
  <1>1. AuthTypes'
    <2>1. IsFiniteSet(recent')
      BY FS_Subset DEF AuthInv, AuthTypes
    <2>2. copy' \in [grants : BOOLEAN, left : 0 .. CopyTtl]
      BY Blanks DEF AuthInv, AuthTypes
    <2>3. unentitled' \in Nat
      BY DEF AuthInv, AuthTypes
    <2> QED BY <2>1, <2>2, <2>3 DEF AuthInv, AuthTypes
  <1>2. \A r \in AuthReq : auth[r].age \in 0 .. MaxAnswer
    BY DEF AuthInv, AuthTypes, AuthRecord
  <1>3. copy.left \in 0 .. CopyTtl /\ unentitled \in Nat
    BY DEF AuthInv, AuthTypes
  <1>4. \A r \in AuthReq :
          /\ auth[r].at = "store" /\ auth[r].grants => unentitled' <= auth[r].age
          /\ auth[r].at \in {"count", "record"} =>
                unentitled' <= MaxAnswer + (CopyTtl - 1) + auth[r].age
    BY <1>2, <1>3, AuthCaps DEF AuthInv, WordsAge
  <1>5. copy'.grants /\ copy'.left > 0 => unentitled' <= MaxAnswer + (CopyTtl - copy'.left)
    BY <1>3, AuthCaps DEF AuthInv, WordsAge, NoCopy
  <1>6. WordsAge'
    BY <1>4, <1>5 DEF WordsAge, Grants
  <1>7. Coming' = Coming
    BY DEF Coming, LetIn
  <1>8. AddressesBounded'
    BY <1>1, <1>7, FewerAddresses
  <1> QED BY <1>1, <1>6, <1>8 DEF AuthInv

LEMMA AuthTickStep ==
  ASSUME AuthInv, AuthTick
  PROVE  AuthInv'
  <1>1. \A r \in AuthReq : auth[r] \in AuthRecord /\ auth'[r] =
          IF auth[r].at = "none" THEN NoAuth ELSE [auth[r] EXCEPT !.age = @ + 1]
    BY DEF AuthTick, AuthInv, AuthTypes
  <1>2. ASSUME NEW r \in AuthReq
        PROVE  /\ auth'[r] \in AuthRecord /\ auth'[r].at = auth[r].at
               /\ auth[r].at # "none" => /\ auth'[r].grants = auth[r].grants /\ auth'[r].ip = auth[r].ip
                                         /\ auth'[r].age = auth[r].age + 1 /\ auth[r].age \in Nat
    <2>1. auth[r].at # "none" => auth[r].age < MaxAnswer
      BY DEF AuthTick
    <2>2. CASE auth[r].at = "none"
      BY <1>1, <2>2, Blanks
    <2>3. CASE auth[r].at # "none"
      <3>1. auth'[r] = [auth[r] EXCEPT !.age = auth[r].age + 1] /\ auth[r] \in AuthRecord
        BY <1>1, <2>3
      <3>2. auth[r].age + 1 \in 0 .. MaxAnswer /\ auth[r].age \in Nat
        BY <2>1, <2>3, <3>1, AuthCaps DEF AuthRecord
      <3> QED BY <3>1, <3>2 DEF AuthRecord
    <2> QED BY <2>2, <2>3
  <1>3. /\ unentitled \in Nat /\ unentitled' \in Nat
        /\ unentitled' <= unentitled + 1 /\ (Grants(account') => unentitled' = 0)
    BY DEF AuthTick, AuthInv, AuthTypes
  <1>4. /\ copy' \in [grants : BOOLEAN, left : 0 .. CopyTtl]
        /\ copy'.left > 0 => /\ copy'.grants = copy.grants /\ copy'.left = copy.left - 1
                              /\ copy.left \in 1 .. CopyTtl
    <2>1. copy \in [grants : BOOLEAN, left : 0 .. CopyTtl]
      BY DEF AuthInv, AuthTypes
    <2>2. CASE copy.left <= 1
      BY <2>2, AuthCaps DEF AuthTick, NoCopy
    <2>3. CASE ~(copy.left <= 1)
      <3>1. copy' = [copy EXCEPT !.left = copy.left - 1]
        BY <2>3 DEF AuthTick
      <3>2. copy.left - 1 \in 0 .. CopyTtl /\ copy.left \in 1 .. CopyTtl
        BY <2>1, <2>3, AuthCaps
      <3> QED BY <2>1, <3>1, <3>2
    <2> QED BY <2>2, <2>3
  <1>5. UNCHANGED <<account, recent, redisUp, tally>> /\ auth' = [r \in AuthReq |-> auth'[r]]
    BY DEF AuthTick
  <1>6. AuthTypes'
    BY <1>2, <1>3, <1>4, <1>5 DEF AuthInv, AuthTypes
  <1>7. copy'.grants /\ copy'.left > 0 => unentitled' <= MaxAnswer + (CopyTtl - copy'.left)
    <2> SUFFICES ASSUME copy'.grants, copy'.left > 0
                 PROVE  unentitled' <= MaxAnswer + (CopyTtl - copy'.left)
      OBVIOUS
    <2>1. copy.left > 0 /\ copy'.left = copy.left - 1 /\ copy.left \in 1 .. CopyTtl
      BY <1>4, AuthCaps
    <2>2. copy.grants
      BY <1>4, Zenon
    <2>3. unentitled <= MaxAnswer + (CopyTtl - copy.left)
      BY <2>1, <2>2 DEF AuthInv, WordsAge
    <2> QED BY <1>3, <2>1, <2>3, AuthCaps
  <1>8. \A r \in AuthReq :
          /\ auth'[r].at = "store" /\ auth'[r].grants => unentitled' <= auth'[r].age
          /\ auth'[r].at \in {"count", "record"} =>
                unentitled' <= MaxAnswer + (CopyTtl - 1) + auth'[r].age
    BY <1>2, <1>3, AuthCaps DEF AuthInv, WordsAge
  <1>9. WordsAge'
    BY <1>3, <1>7, <1>8 DEF WordsAge, Grants
  <1>10. LetIn' = LetIn /\ \A r \in LetIn : auth'[r].ip = auth[r].ip
    BY <1>2 DEF LetIn
  <1>11. Coming' = Coming
    BY <1>10 DEF Coming
  <1>12. AddressesBounded'
    BY <1>5, <1>6, <1>11, FewerAddresses DEF AuthInv, AddressesBounded
  <1> QED BY <1>6, <1>9, <1>12 DEF AuthInv

LEMMA AuthStep == AuthInv /\ [AuthNext]_authVars => AuthInv'
  <1> SUFFICES ASSUME AuthInv, [AuthNext]_authVars PROVE AuthInv'
    OBVIOUS
  <1>1. CASE \E r \in AuthReq : AskPanel(r) \/ FindAccount(r) \/ StoreCopy(r) \/ CountIps(r) \/ RecordIp(r)
    BY <1>1, AskPanelStep, FindAccountStep, StoreCopyStep, CountIpsStep, RecordIpStep
  <1>2. CASE EditAccount
    <2>1. account' \in [enabled : BOOLEAN, over : BOOLEAN]
      <3>1. \/ account' = [account EXCEPT !.enabled = FALSE]
            \/ account' = [enabled |-> TRUE, over |-> FALSE]
        BY <1>2 DEF EditAccount
      <3>2. account \in [enabled : BOOLEAN, over : BOOLEAN]
        BY DEF AuthInv, AuthTypes
      <3>3. [account EXCEPT !.enabled = FALSE] \in [enabled : BOOLEAN, over : BOOLEAN]
        BY <3>2
      <3>4. [enabled |-> TRUE, over |-> FALSE] \in [enabled : BOOLEAN, over : BOOLEAN]
        OBVIOUS
      <3> QED BY <3>1, <3>3, <3>4
    <2>2. tally' \in [edits : Nat, outages : Nat] /\ tally'.outages = tally.outages
      BY <1>2 DEF EditAccount, AuthInv, AuthTypes
    <2>3. UNCHANGED <<copy, recent, redisUp, auth>>
          /\ unentitled' = IF Grants(account') THEN 0 ELSE unentitled
      BY <1>2 DEF EditAccount
    <2> QED BY <2>1, <2>2, <2>3, RequestsStay DEF AuthInv, AddressesBounded
  <1>3. CASE ExceedTraffic
    <2>1. /\ account' \in [enabled : BOOLEAN, over : BOOLEAN] /\ ~Grants(account')
          /\ UNCHANGED <<copy, recent, redisUp, auth, unentitled, tally>>
      BY <1>3 DEF ExceedTraffic, AuthInv, AuthTypes, Grants
    <2> QED BY <2>1, RequestsStay DEF AuthInv, AuthTypes, AddressesBounded
  <1>4. CASE WipeCopy \/ WipeRecent \/ RedisReturns \/ \E ip \in Ip : GraceEnds(ip)
    <2>1. /\ recent' \subseteq recent /\ (copy' = copy \/ copy' = NoCopy)
          /\ UNCHANGED <<account, auth, unentitled, tally>> /\ (redisUp => redisUp')
      BY <1>4 DEF WipeCopy, WipeRecent, RedisReturns, GraceEnds
    <2> QED BY <2>1, RequestsStay DEF AuthInv, AuthTypes, AddressesBounded, WordsAge
  <1>5. CASE RedisFails
    <2>1. /\ recent' \subseteq recent /\ (copy' = copy \/ copy' = NoCopy)
          /\ UNCHANGED <<account, auth, unentitled>>
      BY <1>5 DEF RedisFails
    <2>2. tally' \in [edits : Nat, outages : Nat] /\ tally'.outages # 0
      BY <1>5 DEF RedisFails, AuthInv, AuthTypes
    <2> QED BY <2>1, <2>2, RequestsStay DEF AuthInv, AuthTypes, WordsAge
  <1>6. CASE AuthTick
    BY <1>6, AuthTickStep
  <1>7. CASE UNCHANGED authVars
    BY <1>7, RequestsStay DEF authVars, AuthInv, AuthTypes, AddressesBounded, WordsAge
  <1> QED BY <1>1, <1>2, <1>3, <1>4, <1>5, <1>6, <1>7 DEF AuthNext

\* Who is let in was let in by a document no older than a copy lives and two
\* requests take, and the addresses of the grace period exceed the limit at
\* most by the requests counted at once: routes/auth.js.
THEOREM AdmissionsAreSoundHolds == AuthSpec => AdmissionsAreSound
  <1>1. AuthInit => AuthInv
    BY AuthInitInv
  <1>2. AuthInv /\ [AuthNext]_authVars => AuthInv'
    BY AuthStep
  <1>3. ASSUME AuthInv, AuthInv', NEW r \in AuthReq, RecordIp(r)
        PROVE  /\ unentitled <= Latest
               /\ tally.outages = 0 => Cardinality(recent') <= DeviceCap + Cardinality(AuthReq) - 1
    <2>1. auth[r] \in AuthRecord /\ auth[r].at = "record" /\ tally' = tally
      BY <1>3 DEF RecordIp, AuthInv, AuthTypes
    <2>2. unentitled <= MaxAnswer + (CopyTtl - 1) + auth[r].age /\ unentitled \in Nat
          /\ auth[r].age \in 0 .. MaxAnswer
      BY <1>3, <2>1 DEF AuthInv, AuthTypes, WordsAge, AuthRecord
    <2>3. unentitled <= Latest
      BY <2>2, AuthCaps DEF Latest
    <2> SUFFICES ASSUME tally.outages = 0
                 PROVE  Cardinality(recent') <= DeviceCap + Cardinality(AuthReq) - 1
      BY <2>3
    <2> DEFINE all == recent' \cup Coming'
    <2>4. Cardinality(all) <= DeviceCap + Cardinality(AuthReq) - 1
      BY <1>3, <2>1 DEF AuthInv, AddressesBounded
    <2>5. IsFiniteSet(Coming')
      BY ComingFinite DEF Coming, LetIn
    <2>6. IsFiniteSet(recent')
      BY <1>3 DEF AuthInv, AuthTypes
    <2>7. IsFiniteSet(all)
      BY <2>5, <2>6, FS_Union
    <2>8. Cardinality(recent') <= Cardinality(all)
      BY <2>7, FS_Subset
    <2>9. Cardinality(recent') \in Nat /\ Cardinality(all) \in Nat
      BY <2>6, <2>7, FS_CardinalityType
    <2> QED BY <2>4, <2>8, <2>9, AuthCaps
  <1>4. AuthInv /\ [AuthNext]_authVars =>
          [\A r \in AuthReq : RecordIp(r) =>
              /\ unentitled <= Latest
              /\ tally.outages = 0 =>
                    Cardinality(recent') <= DeviceCap + Cardinality(AuthReq) - 1]_authVars
    BY <1>2, <1>3 DEF RecordIp
  <1> QED BY <1>1, <1>2, <1>4, PTL DEF AuthSpec, AdmissionsAreSound

-----------------------------------------------------------------------------
(***************************************************************************)
(* SshPool. A client that is up is the pool's, or another took its place   *)
(* (Held), and an attempt that neither answered nor will has been retried  *)
(* by a later one (Lasting), so the last attempt of a line of retries      *)
(* answers whoever waits. Where retries lead is a set closed under         *)
(* retrying; that it has a last member is well-foundedness of the          *)
(* naturals, no recursion.                                                 *)
(***************************************************************************)

AttemptRecord ==
    [client : {"connecting", "ready", "closing", "closed"}, timer : BOOLEAN, outcome : Int, tries : Nat,
     erred : BOOLEAN, backoff : BOOLEAN, retry : Nat, overtaken : BOOLEAN]

Up(x) == x.client \in {"connecting", "ready"}

\* An attempt that neither answers nor will has been retried, by a later one.
Answering(x) == x.outcome # Pending \/ x.timer \/ x.backoff
Lasting(all, n) ==
    \A a \in 1 .. Len(all) : /\ Answering(all[a]) \/ all[a].retry # 0
                             /\ all[a].retry # 0 => a < all[a].retry /\ all[a].retry <= n

\* A client that is up, or may yet be, is the pool's or another's took its place.
Held(all, e) == \A a \in 1 .. Len(all) : Up(all[a]) => e.id = a \/ all[a].overtaken

LineInv ==
    /\ attempt \in Seq(AttemptRecord)
    /\ entry \in [id : Nat, ready : BOOLEAN] /\ entry.id <= Len(attempt)
    /\ Lasting(attempt, Len(attempt))
    /\ Held(attempt, entry)

Dialling == {s \in Session : session[s].at \in {"dials", "hangs"}}

SessionInv ==
    /\ session = [s \in Session |-> session[s]]
    /\ \A s \in Session :
          /\ session[s].at = "dials" => session[s] = [at |-> "dials", tries |-> session[s].tries]
          /\ session[s].at \in {"connect", "command"} => session[s].on \in Attempts
    /\ slotQueue \in Seq(Session)
    /\ \A i \in 1 .. Len(slotQueue) : session[slotQueue[i]].at = "queued"
    /\ \A i, j \in 1 .. Len(slotQueue) : slotQueue[i] = slotQueue[j] => i = j
    /\ slotsUsed \in Nat /\ SlotsAccounted

SshInv == LineInv /\ SessionInv

LEMMA PoolCaps ==
    /\ MaxRetries \in Nat /\ MaxDirect \in Nat /\ MaxDirect > 0 /\ IsFiniteSet(Session)
  BY PoolAssumption

LEMMA PoolInitInv == PoolInit => SshInv
  <1> SUFFICES ASSUME PoolInit PROVE SshInv
    OBVIOUS
  <1>1. attempt = <<>> /\ attempt \in Seq(AttemptRecord) /\ Len(attempt) = 0
    BY EmptySeq DEF PoolInit
  <1>2. LineInv
    BY <1>1 DEF PoolInit, NoEntry, LineInv, Lasting, Held
  <1>3. \A s \in Session : session[s].at = "idle"
    BY DEF PoolInit
  <1>4. slotQueue = <<>> /\ slotQueue \in Seq(Session) /\ Len(slotQueue) = 0 /\ slotsUsed = 0
    BY EmptySeq DEF PoolInit
  <1>5. {s \in Session : session[s].at \in {"dials", "hangs"}} = {} /\ Cardinality({}) = 0
    BY <1>3, FS_EmptySet
  <1>6. SlotsAccounted
    <2>1. Cardinality({s \in Session : session[s].at \in {"dials", "hangs"}}) = slotsUsed
      BY <1>4, <1>5
    <2> QED BY <1>4, <2>1, PoolCaps DEF SlotsAccounted
  <1>7. session = [s \in Session |-> session[s]]
    BY DEF PoolInit
  <1> QED BY <1>2, <1>3, <1>4, <1>6, <1>7 DEF SshInv, SessionInv

-----------------------------------------------------------------------------
(* The attempts and the entry.                                             *)

\* One attempt changes, and the entry is no other's than it was.
LEMMA OneChanges ==
  ASSUME LineInv, NEW a \in Attempts, NEW new \in AttemptRecord,
         attempt' = [attempt EXCEPT ![a] = new],
         Answering(new) \/ new.retry # 0, new.retry = attempt[a].retry,
         new.overtaken = attempt[a].overtaken,
         entry' \in [id : Nat, ready : BOOLEAN],
         \/ entry' = entry /\ (Up(new) => Up(attempt[a]))
         \/ entry'.id = a /\ entry.id \in {0, a}
         \/ entry'.id = 0 /\ entry.id = a /\ ~Up(new)
  PROVE  LineInv' /\ Len(attempt') = Len(attempt)
  <1>1. attempt \in Seq(AttemptRecord) /\ a \in 1 .. Len(attempt) /\ Len(attempt) \in Nat
    BY DEF LineInv, Attempts
  <1>2. /\ attempt' \in Seq(AttemptRecord) /\ Len(attempt') = Len(attempt)
        /\ \A b \in 1 .. Len(attempt) : attempt'[b] = IF b = a THEN new ELSE attempt[b]
    BY <1>1, ExceptSeq
  <1>3. Lasting(attempt', Len(attempt'))
    BY <1>1, <1>2 DEF LineInv, Lasting
  <1>4. Held(attempt', entry')
    BY <1>1, <1>2 DEF LineInv, Held
  <1>5. entry'.id <= Len(attempt')
    BY <1>1, <1>2 DEF LineInv
  <1> QED BY <1>2, <1>3, <1>4, <1>5 DEF LineInv

\* A new attempt takes the entry, or comes to nothing at once.
LEMMA OneCreated ==
  ASSUME LineInv, NEW all \in Seq(AttemptRecord), NEW n \in Nat,
         Len(all) = Len(attempt), Lasting(all, Len(attempt) + 1),
         \A a \in 1 .. Len(attempt) : all[a].client = attempt[a].client /\ all[a].overtaken = attempt[a].overtaken,
         CreateFrom(all, n)
  PROVE  LineInv' /\ Len(attempt') = Len(attempt) + 1
  <1> DEFINE taken(a) == all[a].overtaken \/ (entry.id = a /\ all[a].client \in {"connecting", "ready"})
             passed == [a \in DOMAIN all |-> [all[a] EXCEPT !.overtaken = taken(a)]]
             made == Created(all, n)
             m == Len(attempt) + 1
  <1>1. Len(attempt) \in Nat /\ m \in Nat /\ DOMAIN all = 1 .. Len(attempt)
    BY DEF LineInv
  <1>2. \A a \in 1 .. Len(attempt) : /\ passed[a] = [all[a] EXCEPT !.overtaken = taken(a)]
                                     /\ all[a] \in AttemptRecord /\ taken(a) \in BOOLEAN
    <2>1. \A a \in 1 .. Len(attempt) : passed[a] = [all[a] EXCEPT !.overtaken = taken(a)]
      BY <1>1
    <2>2. \A a \in 1 .. Len(attempt) : all[a] \in AttemptRecord
      OBVIOUS
    <2>3. \A a \in 1 .. Len(attempt) : taken(a) \in BOOLEAN
      OBVIOUS
    <2> QED BY <2>1, <2>2, <2>3
  <1>3. ASSUME NEW a \in 1 .. Len(attempt)
        PROVE  /\ passed[a] \in AttemptRecord /\ passed[a].client = all[a].client
               /\ passed[a].overtaken = taken(a) /\ passed[a].outcome = all[a].outcome
               /\ passed[a].timer = all[a].timer /\ passed[a].backoff = all[a].backoff
               /\ passed[a].retry = all[a].retry
    <2> HIDE DEF passed, taken
    <2> QED BY <1>2 DEF AttemptRecord
  <1>4. passed \in Seq(AttemptRecord) /\ Len(passed) = Len(attempt)
    <2>1. passed = [a \in 1 .. Len(attempt) |-> passed[a]]
      BY <1>1
    <2> HIDE DEF passed
    <2> QED BY <1>1, <1>3, <2>1
  <1>5. NewAttempt(n) \in AttemptRecord /\ Answering(NewAttempt(n)) /\ NewAttempt(n).retry = 0
    BY DEF NewAttempt, AttemptRecord, Answering, Pending
  <1>6. made = Append(passed, NewAttempt(n))
    BY DEF Created
  <1> HIDE DEF passed, made, taken
  <1>7. /\ made \in Seq(AttemptRecord) /\ Len(made) = m /\ made[m] = NewAttempt(n)
        /\ \A a \in 1 .. Len(attempt) : made[a] = passed[a]
    BY <1>1, <1>4, <1>5, <1>6
  <1>8. /\ \A a \in 1 .. Len(attempt) : Up(made[a]) => made[a].overtaken
        /\ Lasting(made, m)
    <2>1. \A a \in 1 .. Len(attempt) : Up(made[a]) => made[a].overtaken
      BY <1>3, <1>7 DEF LineInv, Held, Up, taken
    <2>2. \A a \in 1 .. Len(attempt) : Answering(made[a]) <=> Answering(all[a])
      BY <1>3, <1>7 DEF Answering
    <2>3. \A a \in 1 .. Len(attempt) : made[a].retry = all[a].retry
      BY <1>3, <1>7
    <2> QED BY <1>1, <1>5, <1>7, <2>1, <2>2, <2>3 DEF Lasting
  <1>9. CASE attempt' = made /\ entry' = Placeholder
    <2>1. entry'.id = m /\ entry' \in [id : Nat, ready : BOOLEAN]
      BY <1>1, <1>9 DEF Placeholder
    <2>2. Held(made, entry')
      BY <1>1, <1>7, <1>8, <2>1 DEF Held
    <2> QED BY <1>1, <1>7, <1>8, <1>9, <2>1, <2>2 DEF LineInv
  <1>10. CASE attempt' = Throws(made) /\ entry' = NoEntry
    <2> DEFINE thrown == [made[m] EXCEPT !.client = "closed", !.timer = FALSE, !.outcome = Failed]
    <2>1. attempt' = [made EXCEPT ![m] = thrown]
      BY <1>7, <1>10 DEF Throws
    <2>2. thrown \in AttemptRecord /\ ~Up(thrown) /\ Answering(thrown) /\ thrown.retry = 0
      <3>1. made[m] \in AttemptRecord /\ made[m].retry = 0 /\ Failed \in Int /\ Failed # Pending
        BY <1>5, <1>7 DEF Failed, Pending
      <3> QED BY <3>1 DEF AttemptRecord, Up, Answering
    <2> HIDE DEF thrown
    <2>3. /\ attempt' \in Seq(AttemptRecord) /\ Len(attempt') = m /\ attempt'[m] = thrown
          /\ \A a \in 1 .. Len(attempt) : attempt'[a] = made[a]
      BY <1>1, <1>7, <2>1, <2>2
    <2>4. Held(attempt', NoEntry)
      BY <1>1, <1>8, <2>2, <2>3 DEF Held
    <2>5. Lasting(attempt', m)
      BY <1>1, <1>7, <1>8, <2>2, <2>3 DEF Lasting
    <2>6. NoEntry \in [id : Nat, ready : BOOLEAN] /\ NoEntry.id = 0
      BY DEF NoEntry
    <2> HIDE DEF NoEntry
    <2> QED BY <1>1, <1>10, <2>3, <2>4, <2>5, <2>6 DEF LineInv
  <1> QED BY <1>9, <1>10 DEF CreateFrom, made

LEMMA AttemptIs ==
  ASSUME LineInv, NEW a \in Attempts
  PROVE  /\ attempt[a] \in AttemptRecord /\ a \in 1 .. Len(attempt) /\ a \in Nat /\ a # 0
         /\ Len(attempt) \in Nat
         /\ Answering(attempt[a]) \/ attempt[a].retry # 0
  BY DEF LineInv, Attempts, Lasting

LEMMA RetryNat ==
  ASSUME LineInv
  PROVE  \A b \in 1 .. Len(attempt) : attempt[b].retry \in Nat
  <1>1. \A b \in 1 .. Len(attempt) : attempt[b] \in AttemptRecord
    BY DEF LineInv
  <1> QED BY <1>1 DEF AttemptRecord

LEMMA ReadyStep ==
  ASSUME LineInv, NEW a \in Attempts, Ready(a)
  PROVE  LineInv' /\ Len(attempt') = Len(attempt)
  <1> DEFINE new == [attempt[a] EXCEPT !.client = "ready", !.timer = FALSE, !.outcome = a]
  <1>1. attempt' = [attempt EXCEPT ![a] = new] /\ attempt[a].client = "connecting"
        /\ entry' = IF entry.id \in {0, a} THEN [id |-> a, ready |-> TRUE] ELSE entry
    BY DEF Ready
  <1>2. /\ new \in AttemptRecord /\ new.outcome # Pending /\ Up(attempt[a])
        /\ new.retry = attempt[a].retry /\ new.overtaken = attempt[a].overtaken
    <2>1. attempt[a] \in AttemptRecord /\ a \in Int /\ a # Pending
      BY AttemptIs DEF Pending
    <2> QED BY <1>1, <2>1 DEF AttemptRecord, Up
  <1> HIDE DEF new
  <1>3. entry' \in [id : Nat, ready : BOOLEAN]
    BY <1>1, AttemptIs DEF LineInv
  <1> QED BY <1>1, <1>2, <1>3, OneChanges DEF Answering

LEMMA TimesOutStep ==
  ASSUME LineInv, NEW a \in Attempts, TimesOut(a)
  PROVE  LineInv' /\ Len(attempt') = Len(attempt)
  <1> DEFINE timed == [[attempt[a] EXCEPT !.timer = FALSE] EXCEPT !.outcome = Failed]
             new == IF Up(timed) THEN [timed EXCEPT !.client = "closing"] ELSE timed
             all == [[attempt EXCEPT ![a].timer = FALSE] EXCEPT ![a].outcome = Failed]
  <1>1. attempt' = EndedIn(all, a) /\ UNCHANGED entry
    BY DEF TimesOut
  <1>2. all = [attempt EXCEPT ![a] = timed] /\ all[a] = timed
    BY DEF Attempts
  <1>3. attempt' = [attempt EXCEPT ![a] = new]
    <2> HIDE DEF timed, all
    <2>1. CASE Up(timed)
      BY <1>1, <1>2, <2>1, AttemptIs DEF EndedIn, Up
    <2>2. CASE ~Up(timed)
      BY <1>1, <1>2, <2>2 DEF EndedIn, Up
    <2> QED BY <2>1, <2>2
  <1>4. /\ timed \in AttemptRecord /\ timed.outcome # Pending /\ timed.client = attempt[a].client
        /\ timed.retry = attempt[a].retry /\ timed.overtaken = attempt[a].overtaken
    <2>1. attempt[a] \in AttemptRecord /\ Failed \in Int /\ Failed # Pending
      BY AttemptIs DEF Failed, Pending
    <2> QED BY <2>1 DEF AttemptRecord
  <1> HIDE DEF timed
  <1>5. /\ new \in AttemptRecord /\ new.outcome # Pending /\ ~Up(new)
        /\ new.retry = attempt[a].retry /\ new.overtaken = attempt[a].overtaken
    BY <1>4 DEF AttemptRecord, Up
  <1> HIDE DEF new
  <1> QED BY <1>1, <1>3, <1>5, OneChanges DEF Answering, LineInv

LEMMA EntryGoes ==
  ASSUME LineInv, NEW a \in Attempts
  PROVE  /\ EntryWithout(a) \in [id : Nat, ready : BOOLEAN]
         /\ EntryWithout(a) = entry \/ (EntryWithout(a).id = 0 /\ entry.id = a)
  BY DEF EntryWithout, NoEntry, LineInv

LEMMA ErrorOnStep ==
  ASSUME LineInv, NEW a \in Attempts, ErrorOn(a)
  PROVE  LineInv' /\ Len(attempt') = Len(attempt)
  <1> DEFINE again == attempt[a].tries < MaxRetries
             out == IF attempt[a].outcome = Pending /\ ~again THEN Failed ELSE attempt[a].outcome
             new == [attempt[a] EXCEPT !.client = "closing", !.erred = TRUE, !.timer = FALSE,
                                       !.backoff = again, !.outcome = out]
  <1>1. attempt' = [attempt EXCEPT ![a] = new] /\ entry' = EntryWithout(a)
    BY DEF ErrorOn
  <1>2. attempt[a] \in AttemptRecord
    BY AttemptIs
  <1>3. out \in Int /\ again \in BOOLEAN /\ (again \/ out # Pending)
    BY <1>2 DEF AttemptRecord, Failed, Pending
  <1> HIDE DEF again, out
  <1>4. /\ new \in AttemptRecord /\ new.backoff = again /\ new.outcome = out /\ ~Up(new)
        /\ new.retry = attempt[a].retry /\ new.overtaken = attempt[a].overtaken
    BY <1>2, <1>3 DEF AttemptRecord, Up
  <1> HIDE DEF new
  <1>5. Answering(new)
    BY <1>3, <1>4 DEF Answering
  <1> QED BY <1>1, <1>4, <1>5, EntryGoes, OneChanges

LEMMA RetryStep ==
  ASSUME LineInv, NEW a \in Attempts, Retry(a)
  PROVE  LineInv' /\ Len(attempt') = Len(attempt) + 1
  <1> DEFINE new == [[attempt[a] EXCEPT !.backoff = FALSE] EXCEPT !.retry = Len(attempt) + 1]
             all == [attempt EXCEPT ![a] = new]
  <1>1. CreateFrom(all, attempt[a].tries + 1)
    <2>1. [attempt EXCEPT ![a].backoff = FALSE, ![a].retry = Len(attempt) + 1] = all
      BY DEF Attempts
    <2> QED BY <2>1 DEF Retry
  <1>2. /\ new \in AttemptRecord /\ new.retry = Len(attempt) + 1 /\ new.client = attempt[a].client
        /\ new.overtaken = attempt[a].overtaken /\ attempt[a].tries + 1 \in Nat
    <2>1. attempt[a] \in AttemptRecord /\ Len(attempt) + 1 \in Nat
      BY AttemptIs
    <2>2. attempt[a].tries \in Nat
      BY <2>1 DEF AttemptRecord
    <2>3. attempt[a].tries + 1 \in Nat
      BY <2>2
    <2> QED BY <2>1, <2>3 DEF AttemptRecord
  <1> HIDE DEF new
  <1>3. /\ all \in Seq(AttemptRecord) /\ Len(all) = Len(attempt)
        /\ \A b \in 1 .. Len(attempt) : all[b] = IF b = a THEN new ELSE attempt[b]
    BY <1>2, AttemptIs, ExceptSeq DEF LineInv
  <1> HIDE DEF all
  <1>4. Lasting(all, Len(attempt) + 1)
    <2>1. a \in 1 .. Len(attempt) /\ Len(attempt) \in Nat
      BY AttemptIs
    <2>2. Lasting(attempt, Len(attempt)) /\ \A b \in 1 .. Len(attempt) : attempt[b].retry \in Nat
      BY RetryNat DEF LineInv
    <2> QED BY <1>2, <1>3, <2>1, <2>2 DEF Lasting
  <1> QED BY <1>1, <1>2, <1>3, <1>4, OneCreated

LEMMA CloseClientStep ==
  ASSUME LineInv, NEW a \in Attempts, Close(a)
  PROVE  LineInv' /\ Len(attempt') = Len(attempt)
  <1> DEFINE new == [attempt[a] EXCEPT !.client = "closed"]
  <1>1. attempt' = [attempt EXCEPT ![a] = new] /\ entry' = EntryWithout(a)
    BY DEF Close
  <1>2. /\ new \in AttemptRecord /\ ~Up(new) /\ new.outcome = attempt[a].outcome
        /\ new.timer = attempt[a].timer /\ new.backoff = attempt[a].backoff
        /\ new.retry = attempt[a].retry /\ new.overtaken = attempt[a].overtaken
    BY AttemptIs DEF AttemptRecord, Up
  <1> HIDE DEF new
  <1>3. Answering(new) \/ new.retry # 0
    BY <1>2, AttemptIs DEF Answering
  <1> QED BY <1>1, <1>2, <1>3, EntryGoes, OneChanges

\* The entry is given up, and its client with it.
LEMMA EntryEnds ==
  ASSUME LineInv, attempt' = EndedIn(attempt, entry.id), entry' = NoEntry
  PROVE  LineInv' /\ Len(attempt') = Len(attempt)
  <1> DEFINE a == entry.id
             new == [attempt[a] EXCEPT !.client = "closing"]
  <1>1. CASE a # 0 /\ Up(attempt[a])
    <2>1. a \in Attempts
      BY <1>1 DEF LineInv, Attempts
    <2>2. attempt' = [attempt EXCEPT ![a] = new]
      BY <1>1 DEF EndedIn, Up
    <2>3. /\ new \in AttemptRecord /\ ~Up(new) /\ new.outcome = attempt[a].outcome
          /\ new.timer = attempt[a].timer /\ new.backoff = attempt[a].backoff
          /\ new.retry = attempt[a].retry /\ new.overtaken = attempt[a].overtaken
      BY <2>1, AttemptIs DEF AttemptRecord, Up
    <2> HIDE DEF new
    <2>4. Answering(new) \/ new.retry # 0
      BY <2>1, <2>3, AttemptIs DEF Answering
    <2>5. entry' \in [id : Nat, ready : BOOLEAN] /\ entry'.id = 0
      BY DEF NoEntry
    <2> QED BY <2>1, <2>2, <2>3, <2>4, <2>5, OneChanges
  <1>2. CASE ~(a # 0 /\ Up(attempt[a]))
    <2>1. attempt' = attempt
      BY <1>2 DEF EndedIn, Up
    <2>2. Held(attempt, NoEntry)
      BY <1>2 DEF LineInv, Held
    <2> QED BY <2>1, <2>2 DEF LineInv, NoEntry
  <1> QED BY <1>1, <1>2

-----------------------------------------------------------------------------
(* The sessions and the slots.                                             *)

\* The queue and the slots stay, and so does who dials.
LEMMA SlotsStay ==
  ASSUME SessionInv, UNCHANGED <<slotsUsed, slotQueue>>,
         Len(attempt) \in Nat, Len(attempt') \in Nat, Len(attempt') >= Len(attempt),
         attempt \in Seq(AttemptRecord), attempt' \in Seq(AttemptRecord),
         session' = [t \in Session |-> session'[t]],
         \A t \in Session :
            \/ session'[t] = session[t]
            \/ /\ session[t].at # "queued"
               /\ session[t].at \in {"dials", "hangs"} <=> session'[t].at \in {"dials", "hangs"}
               /\ session'[t].at = "dials" => session'[t] = [at |-> "dials", tries |-> session'[t].tries]
               /\ session'[t].at \in {"connect", "command"} => session'[t].on \in Attempts'
  PROVE  SessionInv'
  <1>1. Attempts \subseteq Attempts'
    BY DEF Attempts
  <1>2. \A t \in Session :
          /\ session'[t].at = "dials" => session'[t] = [at |-> "dials", tries |-> session'[t].tries]
          /\ session'[t].at \in {"connect", "command"} => session'[t].on \in Attempts'
    BY <1>1 DEF SessionInv
  <1>3. \A i \in 1 .. Len(slotQueue) : session'[slotQueue[i]].at = "queued"
    BY DEF SessionInv
  <1>4. {t \in Session : session'[t].at \in {"dials", "hangs"}} =
        {t \in Session : session[t].at \in {"dials", "hangs"}}
    OBVIOUS
  <1>5. SlotsAccounted'
    BY <1>4 DEF SessionInv, SlotsAccounted
  <1> QED BY <1>2, <1>3, <1>5 DEF SessionInv

LEMMA Becomes ==
  ASSUME SessionInv, NEW s \in Session, NEW new, session' = [session EXCEPT ![s] = new]
  PROVE  /\ session' = [t \in Session |-> session'[t]]
         /\ session'[s] = new
         /\ \A t \in Session : t # s => session'[t] = session[t]
  BY DEF SessionInv

\* The sessions stay.
LEMMA SessionsStay ==
  ASSUME SessionInv, UNCHANGED <<session, slotsUsed, slotQueue>>,
         attempt \in Seq(AttemptRecord), attempt' \in Seq(AttemptRecord),
         Len(attempt') >= Len(attempt)
  PROVE  SessionInv'
  <1>1. Attempts \subseteq Attempts'
    BY DEF Attempts
  <1> QED BY <1>1 DEF SessionInv, SlotsAccounted

\* A session asks for the connection.
LEMMA GetConnectionStep ==
  ASSUME SshInv, NEW s \in Session, NEW at \in {"connect", "command"}, GetConnection(s, at),
         session[s].at \in {"idle", "pooled"}, UNCHANGED <<slotsUsed, slotQueue>>
  PROVE  SshInv'
  <1>1. attempt \in Seq(AttemptRecord) /\ Len(attempt) \in Nat
    BY DEF SshInv, LineInv
  <1>2. CASE /\ entry.id # 0 /\ session' = [session EXCEPT ![s] = [at |-> at, on |-> entry.id]]
             /\ UNCHANGED <<attempt, entry>>
    <2>1. LineInv'
      BY <1>2 DEF SshInv, LineInv, Lasting, Held, Up, Answering
    <2>2. entry.id \in Attempts'
      BY <1>1, <1>2 DEF SshInv, LineInv, Attempts
    <2> DEFINE new == [at |-> at, on |-> entry.id]
    <2>3. new.at \in {"connect", "command"} /\ new.on \in Attempts' /\ session' = [session EXCEPT ![s] = new]
      BY <1>2, <2>2
    <2> HIDE DEF new
    <2>4. /\ session' = [t \in Session |-> session'[t]] /\ session'[s] = new
          /\ \A t \in Session : t # s => session'[t] = session[t]
      BY <2>3, Becomes DEF SshInv
    <2>5. attempt' \in Seq(AttemptRecord) /\ Len(attempt') \in Nat /\ Len(attempt') >= Len(attempt)
      BY <1>1, <1>2
    <2>6. SessionInv'
      BY <1>1, <2>3, <2>4, <2>5, SlotsStay DEF SshInv
    <2> QED BY <2>1, <2>6 DEF SshInv
  <1>3. CASE CreateFrom(attempt, 0) /\ session' = [session EXCEPT ![s] = [at |-> at, on |-> Len(attempt) + 1]]
    <2>1. Lasting(attempt, Len(attempt) + 1)
      <3>1. Lasting(attempt, Len(attempt)) /\ \A b \in 1 .. Len(attempt) : attempt[b].retry \in Nat
        BY RetryNat DEF SshInv, LineInv
      <3> QED BY <1>1, <3>1 DEF Lasting
    <2>2. LineInv' /\ Len(attempt') = Len(attempt) + 1
      BY <1>1, <1>3, <2>1, OneCreated DEF SshInv
    <2>3. attempt' \in Seq(AttemptRecord) /\ Len(attempt') \in Nat
      BY <2>2 DEF LineInv
    <2> DEFINE new == [at |-> at, on |-> Len(attempt) + 1]
    <2>4. new.at \in {"connect", "command"} /\ new.on \in Attempts' /\ session' = [session EXCEPT ![s] = new]
      BY <1>1, <1>3, <2>2, <2>3 DEF Attempts
    <2> HIDE DEF new
    <2>5. /\ session' = [t \in Session |-> session'[t]] /\ session'[s] = new
          /\ \A t \in Session : t # s => session'[t] = session[t]
      BY <2>4, Becomes DEF SshInv
    <2>6. Len(attempt') >= Len(attempt)
      BY <1>1, <2>2
    <2>7. SessionInv'
      BY <1>1, <2>3, <2>4, <2>5, <2>6, SlotsStay DEF SshInv
    <2> QED BY <2>2, <2>7 DEF SshInv
  <1> QED BY <1>2, <1>3 DEF GetConnection

\* A session moves on without a handshake, the attempts stay.
LEMMA SessionMoves ==
  ASSUME SshInv, UNCHANGED <<attempt, entry, slotsUsed, slotQueue>>,
         NEW s \in Session, NEW new, session' = [session EXCEPT ![s] = new],
         session[s].at # "queued",
         session[s].at \in {"dials", "hangs"} <=> new.at \in {"dials", "hangs"},
         new.at = "dials" => new = [at |-> "dials", tries |-> new.tries],
         new.at \notin {"connect", "command"}
  PROVE  SshInv'
  <1>1. attempt \in Seq(AttemptRecord) /\ Len(attempt) \in Nat /\ attempt' = attempt
    BY DEF SshInv, LineInv
  <1>2. LineInv'
    BY DEF SshInv, LineInv, Lasting, Held, Up, Answering
  <1>3. /\ session' = [t \in Session |-> session'[t]] /\ session'[s] = new
        /\ \A t \in Session : t # s => session'[t] = session[t]
    BY Becomes DEF SshInv
  <1>4. SessionInv'
    BY <1>1, <1>3, SlotsStay DEF SshInv
  <1> QED BY <1>2, <1>4 DEF SshInv

LEMMA AcquireSlotStep ==
  ASSUME SshInv, NEW s \in Session, AcquireSlot(s)
  PROVE  SshInv'
  <1>1. LineInv' /\ Attempts' = Attempts /\ session[s].at = "fallback"
    BY DEF AcquireSlot, SshInv, LineInv, Lasting, Held, Up, Answering, Attempts
  <1>2. slotsUsed \in Nat /\ IsFiniteSet(Dialling) /\ Cardinality(Dialling) = slotsUsed
        /\ s \notin Dialling /\ (slotQueue # <<>> => slotsUsed = MaxDirect) /\ slotsUsed <= MaxDirect
    BY <1>1, PoolCaps, FS_Subset DEF SshInv, SessionInv, SlotsAccounted, Dialling
  <1>3. CASE slotsUsed < MaxDirect
    <2> DEFINE new == [at |-> "dials", tries |-> 0]
    <2>1. slotsUsed' = slotsUsed + 1 /\ UNCHANGED slotQueue /\ session' = [session EXCEPT ![s] = new]
      BY <1>3 DEF AcquireSlot
    <2>2. /\ session' = [t \in Session |-> session'[t]]
          /\ session'[s] = new
          /\ \A t \in Session : t # s => session'[t] = session[t]
      BY <2>1 DEF SshInv, SessionInv
    <2>3. slotQueue = <<>> /\ slotQueue \in Seq(Session)
      BY <1>2, <1>3, PoolCaps DEF SshInv, SessionInv
    <2>4. Dialling' = Dialling \cup {s}
      BY <2>2 DEF Dialling
    <2>5. Cardinality(Dialling') = slotsUsed'
      BY <1>2, <2>1, <2>4, FS_AddElement
    <2>6. SlotsAccounted'
      BY <1>2, <1>3, <2>1, <2>3, <2>5, PoolCaps DEF SlotsAccounted, Dialling
    <2> QED BY <1>1, <1>2, <2>1, <2>2, <2>3, <2>6 DEF SshInv, SessionInv
  <1>4. CASE ~(slotsUsed < MaxDirect)
    <2> DEFINE new == [at |-> "queued"]
    <2>1. UNCHANGED slotsUsed /\ slotQueue' = Append(slotQueue, s) /\ session' = [session EXCEPT ![s] = new]
      BY <1>4 DEF AcquireSlot
    <2>2. /\ session' = [t \in Session |-> session'[t]]
          /\ session'[s] = new
          /\ \A t \in Session : t # s => session'[t] = session[t]
      BY <2>1 DEF SshInv, SessionInv
    <2>3. /\ slotQueue \in Seq(Session) /\ slotQueue' \in Seq(Session) /\ Len(slotQueue) \in Nat
          /\ Len(slotQueue') = Len(slotQueue) + 1 /\ slotQueue'[Len(slotQueue) + 1] = s
          /\ \A i \in 1 .. Len(slotQueue) : slotQueue'[i] = slotQueue[i] /\ slotQueue[i] # s
      BY <1>1, <2>1 DEF SshInv, SessionInv
    <2>4. Dialling' = Dialling
      BY <1>1, <2>2 DEF Dialling
    <2>5. SlotsAccounted'
      <3>1. Cardinality(Dialling') = slotsUsed' /\ slotsUsed' = MaxDirect
        BY <1>2, <1>4, <2>1, <2>4, PoolCaps
      <3> QED BY <3>1, PoolCaps DEF SlotsAccounted, Dialling
    <2>6. /\ \A i \in 1 .. Len(slotQueue') : session'[slotQueue'[i]].at = "queued"
          /\ \A i, j \in 1 .. Len(slotQueue') : slotQueue'[i] = slotQueue'[j] => i = j
      <3>1. \A i \in 1 .. Len(slotQueue) + 1 :
              IF i \in 1 .. Len(slotQueue) THEN slotQueue'[i] = slotQueue[i] /\ slotQueue[i] # s
                                                /\ slotQueue[i] \in Session
              ELSE i = Len(slotQueue) + 1 /\ slotQueue'[i] = s
        BY <2>3
      <3>2. /\ \A i \in 1 .. Len(slotQueue) : session[slotQueue[i]].at = "queued"
            /\ \A i, j \in 1 .. Len(slotQueue) : slotQueue[i] = slotQueue[j] => i = j
        BY DEF SshInv, SessionInv
      <3>3. \A i, j \in 1 .. Len(slotQueue') : slotQueue'[i] = slotQueue'[j] => i = j
        BY <2>3, <3>1, <3>2
      <3>4. \A i \in 1 .. Len(slotQueue') : session'[slotQueue'[i]].at = "queued"
        BY <2>2, <2>3, <3>1, <3>2
      <3> QED BY <3>3, <3>4
    <2> QED BY <1>1, <1>2, <2>1, <2>2, <2>3, <2>5, <2>6 DEF SshInv, SessionInv
  <1> QED BY <1>3, <1>4

\* A slot comes free and goes to the first that waits.
LEMMA ReleaseSlotStep ==
  ASSUME SshInv, NEW s \in Session, NEW at \in {"direct", "idle"}, ReleaseSlot(s, at)
  PROVE  SshInv'
  <1>1. LineInv' /\ Attempts' = Attempts /\ session[s].at = "dials"
    BY DEF ReleaseSlot, SshInv, LineInv, Lasting, Held, Up, Answering, Attempts
  <1>2. slotsUsed \in Nat /\ IsFiniteSet(Dialling) /\ Cardinality(Dialling) = slotsUsed
        /\ s \in Dialling /\ (slotQueue # <<>> => slotsUsed = MaxDirect) /\ slotsUsed <= MaxDirect
    BY <1>1, PoolCaps, FS_Subset DEF SshInv, SessionInv, SlotsAccounted, Dialling
  <1>3. /\ IsFiniteSet(Dialling \ {s}) /\ Cardinality(Dialling \ {s}) = slotsUsed - 1
        /\ Cardinality(Dialling \ {s}) \in Nat
    BY <1>2, FS_RemoveElement, FS_CardinalityType
  <1>4. CASE slotQueue = <<>>
    <2>1. /\ slotsUsed' = slotsUsed - 1 /\ slotQueue' = slotQueue
          /\ session' = [t \in Session |-> IF t = s THEN [at |-> at] ELSE session[t]]
      BY <1>4 DEF ReleaseSlot, SlotsLeft
    <2>2. /\ session' = [t \in Session |-> session'[t]]
          /\ session'[s] = [at |-> at]
          /\ \A t \in Session : t # s => session'[t] = session[t]
      BY <2>1
    <2>3. Dialling' = Dialling \ {s}
      BY <2>2 DEF Dialling
    <2>4. SlotsAccounted'
      <3>1. Cardinality(Dialling') = slotsUsed' /\ slotsUsed' <= MaxDirect /\ slotQueue' = <<>>
        BY <1>2, <1>3, <1>4, <2>1, <2>3, PoolCaps
      <3> QED BY <3>1 DEF SlotsAccounted, Dialling
    <2>5. slotQueue' = <<>> /\ slotQueue' \in Seq(Session) /\ Len(slotQueue') = 0 /\ slotsUsed' \in Nat
      BY <1>2, <1>3, <1>4, <2>1, EmptySeq
    <2> QED BY <1>1, <2>2, <2>4, <2>5 DEF SshInv, SessionInv
  <1>5. CASE slotQueue # <<>>
    <2> DEFINE first == slotQueue[1]
    <2>1. /\ slotQueue \in Seq(Session) /\ Len(slotQueue) \in Nat /\ 1 \in 1 .. Len(slotQueue)
          /\ first \in Session /\ session[first].at = "queued" /\ first # s
      BY <1>1, <1>5 DEF SshInv, SessionInv
    <2>2. /\ slotsUsed' = slotsUsed /\ slotQueue' = Tail(slotQueue)
          /\ session' = [t \in Session |-> IF t = s THEN [at |-> at]
                                           ELSE IF t = first THEN [at |-> "dials", tries |-> 0]
                                           ELSE session[t]]
      BY <1>5 DEF ReleaseSlot, SlotsLeft
    <2> HIDE DEF first
    <2>3. /\ session' = [t \in Session |-> session'[t]]
          /\ session'[s] = [at |-> at] /\ session'[first] = [at |-> "dials", tries |-> 0]
          /\ \A t \in Session : t # s /\ t # first => session'[t] = session[t]
      BY <2>1, <2>2
    <2>4. /\ slotQueue' \in Seq(Session) /\ Len(slotQueue') = Len(slotQueue) - 1
          /\ \A i \in 1 .. Len(slotQueue') : i + 1 \in 1 .. Len(slotQueue) /\ slotQueue'[i] = slotQueue[i + 1]
      BY <1>5, <2>1, <2>2
    <2>5. \A i \in 1 .. Len(slotQueue') : slotQueue'[i] # first /\ slotQueue'[i] # s
                                          /\ slotQueue'[i] \in Session
                                          /\ session[slotQueue'[i]].at = "queued"
      BY <1>1, <2>1, <2>4 DEF SshInv, SessionInv, first
    <2>6. Dialling' = (Dialling \ {s}) \cup {first} /\ first \notin Dialling
      BY <2>1, <2>3 DEF Dialling
    <2>7. Cardinality(Dialling') = slotsUsed
      <3> DEFINE others == Dialling \ {s}
      <3>1. IsFiniteSet(others) /\ Cardinality(others) + 1 = slotsUsed /\ slotsUsed \in Nat
        BY <1>2, <1>3
      <3>2. Dialling' = others \cup {first} /\ first \notin others
        BY <2>6
      <3> HIDE DEF others
      <3>3. Cardinality(others \cup {first}) = Cardinality(others) + 1
        BY <3>1, <3>2, FS_AddElement
      <3>4. Cardinality(others) \in Nat
        BY <3>1, FS_CardinalityType
      <3> QED BY <3>1, <3>2, <3>3, <3>4
    <2>8. SlotsAccounted'
      BY <1>2, <1>5, <2>2, <2>7, PoolCaps DEF SlotsAccounted, Dialling
    <2>9. \A i, j \in 1 .. Len(slotQueue') : slotQueue'[i] = slotQueue'[j] => i = j
      BY <2>1, <2>4 DEF SshInv, SessionInv
    <2> QED BY <1>1, <1>2, <2>2, <2>3, <2>4, <2>5, <2>8, <2>9 DEF SshInv, SessionInv
  <1> QED BY <1>4, <1>5

LEMMA SessionStep ==
  ASSUME SshInv, NEW s \in Session,
         \/ Connect(s) \/ Connected(s) \/ Command(s) \/ CommandRuns(s) \/ CommandEnds(s)
         \/ ChannelFails(s) \/ AcquireSlot(s) \/ DialFails(s) \/ DialHangs(s)
         \/ Dialled(s) \/ DialGivesUp(s) \/ Disconnect(s)
  PROVE  SshInv'
  <1>1. CASE Connect(s)
    <2>1. session[s].at = "idle" /\ UNCHANGED <<slotsUsed, slotQueue>>
      BY <1>1 DEF Connect
    <2>2. CASE GetConnection(s, "connect")
      BY <2>1, <2>2, GetConnectionStep
    <2>3. CASE session' = [session EXCEPT ![s] = [at |-> "fallback"]] /\ UNCHANGED <<attempt, entry>>
      BY <2>1, <2>3, SessionMoves
    <2> QED BY <1>1, <2>2, <2>3 DEF Connect
  <1>2. CASE Connected(s)
    <2> DEFINE new == [at |-> IF Outcome[session[s].on] = Failed THEN "fallback" ELSE "pooled"]
    <2>1. session[s].at = "connect" /\ session' = [session EXCEPT ![s] = new]
          /\ UNCHANGED <<attempt, entry, slotsUsed, slotQueue>>
      BY <1>2 DEF Connected
    <2>2. new.at \in {"fallback", "pooled"}
      OBVIOUS
    <2> HIDE DEF new
    <2> QED BY <2>1, <2>2, SessionMoves
  <1>3. CASE Command(s)
    BY <1>3, GetConnectionStep DEF Command
  <1>4. CASE CommandRuns(s)
    <2> DEFINE new == IF Outcome[session[s].on] = Failed THEN [at |-> "pooled"]
                      ELSE [at |-> "runs", on |-> Outcome[session[s].on]]
    <2>1. session[s].at = "command" /\ session' = [session EXCEPT ![s] = new]
          /\ UNCHANGED <<attempt, entry, slotsUsed, slotQueue>>
      BY <1>4 DEF CommandRuns
    <2>2. new.at \in {"pooled", "runs"}
      OBVIOUS
    <2> HIDE DEF new
    <2> QED BY <2>1, <2>2, SessionMoves
  <1>5. CASE CommandEnds(s)
    <2>1. PICK at \in {"pooled", "idle"} : session' = [session EXCEPT ![s] = [at |-> at]]
      BY <1>5 DEF CommandEnds
    <2>2. session[s].at = "runs" /\ UNCHANGED <<attempt, entry, slotsUsed, slotQueue>>
      BY <1>5 DEF CommandEnds
    <2> QED BY <2>1, <2>2, SessionMoves
  <1>6. CASE ChannelFails(s)
    <2>1. /\ session[s].at = "runs" /\ session' = [session EXCEPT ![s] = [at |-> "pooled"]]
          /\ UNCHANGED <<slotsUsed, slotQueue>>
          /\ attempt' = EndedIn(attempt, entry.id) /\ entry' = NoEntry
      BY <1>6 DEF ChannelFails
    <2>2. LineInv' /\ Len(attempt') = Len(attempt)
      BY <2>1, EntryEnds DEF SshInv
    <2>3. attempt \in Seq(AttemptRecord) /\ attempt' \in Seq(AttemptRecord) /\ Len(attempt) \in Nat
      BY <2>2 DEF SshInv, LineInv
    <2>4. /\ session' = [t \in Session |-> session'[t]] /\ session'[s] = [at |-> "pooled"]
          /\ \A t \in Session : t # s => session'[t] = session[t]
      BY <2>1, Becomes DEF SshInv
    <2>5. SessionInv'
      BY <2>1, <2>2, <2>3, <2>4, SlotsStay DEF SshInv
    <2> QED BY <2>2, <2>5 DEF SshInv
  <1>7. CASE AcquireSlot(s)
    BY <1>7, AcquireSlotStep
  <1>8. CASE DialFails(s)
    <2> DEFINE new == [session[s] EXCEPT !.tries = session[s].tries + 1]
    <2>1. session[s].at = "dials" /\ session' = [session EXCEPT ![s] = new]
          /\ UNCHANGED <<attempt, entry, slotsUsed, slotQueue>>
      BY <1>8 DEF DialFails
    <2>2. session[s] = [at |-> "dials", tries |-> session[s].tries]
      BY <2>1 DEF SshInv, SessionInv
    <2>3. new = [at |-> "dials", tries |-> session[s].tries + 1]
      BY <2>2
    <2>4. new.at = "dials" /\ new = [at |-> "dials", tries |-> new.tries]
      BY <2>3
    <2> HIDE DEF new
    <2> QED BY <2>1, <2>4, SessionMoves
  <1>9. CASE DialHangs(s)
    BY <1>9, SessionMoves DEF DialHangs
  <1>10. CASE Dialled(s) \/ DialGivesUp(s)
    BY <1>10, ReleaseSlotStep DEF Dialled, DialGivesUp
  <1>11. CASE Disconnect(s)
    BY <1>11, SessionMoves DEF Disconnect
  <1> QED BY <1>1, <1>2, <1>3, <1>4, <1>5, <1>6, <1>7, <1>8, <1>9, <1>10, <1>11

LEMMA SshStep == SshInv /\ [PoolNext]_poolVars => SshInv'
  <1> SUFFICES ASSUME SshInv, [PoolNext]_poolVars PROVE SshInv'
    OBVIOUS
  <1>1. CASE \E a \in Attempts : Ready(a) \/ TimesOut(a) \/ ErrorOn(a) \/ Retry(a) \/ Close(a)
    <2>1. LineInv' /\ (Len(attempt') = Len(attempt) \/ Len(attempt') = Len(attempt) + 1)
      BY <1>1, ReadyStep, TimesOutStep, ErrorOnStep, RetryStep, CloseClientStep DEF SshInv
    <2>2. UNCHANGED <<session, slotsUsed, slotQueue>>
      BY <1>1 DEF Ready, TimesOut, ErrorOn, Retry, Close
    <2>3. attempt \in Seq(AttemptRecord) /\ attempt' \in Seq(AttemptRecord)
      BY <2>1 DEF SshInv, LineInv
    <2>4. Len(attempt') >= Len(attempt)
      BY <2>1, <2>3
    <2> QED BY <2>1, <2>2, <2>3, <2>4, SessionsStay DEF SshInv
  <1>2. CASE RemoveConnection
    <2>1. /\ attempt' = EndedIn(attempt, entry.id) /\ entry' = NoEntry
          /\ UNCHANGED <<session, slotsUsed, slotQueue>>
      BY <1>2 DEF RemoveConnection
    <2>2. LineInv' /\ Len(attempt') = Len(attempt)
      BY <2>1, EntryEnds DEF SshInv
    <2>3. attempt \in Seq(AttemptRecord) /\ attempt' \in Seq(AttemptRecord) /\ Len(attempt) \in Nat
      BY <2>2 DEF SshInv, LineInv
    <2> QED BY <2>1, <2>2, <2>3, SessionsStay DEF SshInv
  <1>3. CASE \E s \in Session :
          \/ Connect(s) \/ Connected(s) \/ Command(s) \/ CommandRuns(s) \/ CommandEnds(s)
          \/ ChannelFails(s) \/ AcquireSlot(s) \/ DialFails(s) \/ DialHangs(s)
          \/ Dialled(s) \/ DialGivesUp(s) \/ Disconnect(s)
    BY <1>3, SessionStep
  <1>4. CASE UNCHANGED poolVars
    BY <1>4 DEF poolVars, SshInv, LineInv, Lasting, Held, Up, Answering, SessionInv, SlotsAccounted, Attempts
  <1> QED BY <1>1, <1>2, <1>3, <1>4 DEF PoolNext

-----------------------------------------------------------------------------
LEMMA LastOf ==
  ASSUME NEW n \in Nat, NEW T \in SUBSET (1 .. n), T # {}
  PROVE  \E x \in T : \A y \in T : y <= x
  <1> DEFINE R == OpToRel(<, Nat)
             U == {n - x : x \in T}
  <1>1. IsWellFoundedOn(R, Nat)
    BY NatLessThanWellFounded
  <1>2. \A x, y \in Nat : x < y => <<x, y>> \in R
    BY DEF OpToRel
  <1>3. U \subseteq Nat /\ U # {}
    <2>1. ASSUME NEW u \in U PROVE u \in Nat
      <3>1. PICK x \in T : u = n - x
        OBVIOUS
      <3>2. x \in 1 .. n
        OBVIOUS
      <3>3. \A k \in 1 .. n : n - k \in Nat
        OBVIOUS
      <3> QED BY <3>1, <3>2, <3>3
    <2>2. PICK x \in T : TRUE
      OBVIOUS
    <2>3. n - x \in U
      OBVIOUS
    <2> QED BY <2>1, <2>3
  <1> HIDE DEF R
  <1>4. PICK u \in U : \A v \in U : ~ (<<v, u>> \in R)
    BY <1>1, <1>3, WFMin
  <1>5. PICK x \in T : u = n - x
    OBVIOUS
  <1>6. ASSUME NEW y \in T PROVE y <= x
    <2>1. n - y \in U /\ n - y \in Nat /\ u \in Nat
      OBVIOUS
    <2>2. ~(n - y < u)
      BY <1>2, <1>4, <2>1
    <2> QED BY <1>5, <2>2
  <1> QED BY <1>6

\* The last of a chain of retries answers: were it retried, it were not the last.
LEMMA ChainAnswers ==
  ASSUME LineInv, NEW a \in Attempts
  PROVE  \E b \in Retries(a) : WillAnswer(b)
  <1>1. Len(attempt) \in Nat /\ Attempts = 1 .. Len(attempt)
    BY DEF LineInv, Attempts
  <1>2. a \in Retries(a) /\ Retries(a) \in SUBSET (1 .. Len(attempt))
    BY <1>1 DEF Retries
  <1>3. PICK b \in Retries(a) : \A c \in Retries(a) : c <= b
    BY <1>1, <1>2, LastOf
  <1>4. b \in 1 .. Len(attempt) /\ b \in Attempts
    BY <1>1, <1>2
  <1>5. attempt[b].retry \in Attempts => attempt[b].retry \in Retries(a)
    BY <1>1, <1>4 DEF Retries
  <1>6. attempt[b].retry # 0 => b < attempt[b].retry /\ attempt[b].retry \in Attempts
    <2>1. attempt[b].retry \in Nat
      BY <1>4, AttemptIs DEF AttemptRecord
    <2> QED BY <1>1, <1>4, <2>1 DEF LineInv, Lasting
  <1>7. attempt[b].retry = 0
    BY <1>1, <1>3, <1>4, <1>5, <1>6
  <1>8. Answering(attempt[b])
    BY <1>4, <1>7, AttemptIs
  <1> QED BY <1>3, <1>8 DEF WillAnswer, Answering

\* However dials, retries, time-outs, errors and closings of one connection
\* follow each other, the pool knows the connection that is up, whoever waits
\* for a handshake hears of it, and the semaphore counts the direct ones:
\* createConnection of sshPoolService.js, and nodeSSH.js.
THEOREM PoolIsSoundHolds == PoolSpec => []PoolIsSound
  <1>1. SshInv => PoolIsSound
    <2> SUFFICES ASSUME SshInv PROVE PoolIsSound
      OBVIOUS
    <2>1. NoClientLost
      BY DEF SshInv, LineInv, Held, Up, NoClientLost, Attempts
    <2>2. NoSessionStranded
      BY ChainAnswers DEF SshInv, SessionInv, NoSessionStranded
    <2>3. SlotsAccounted
      BY DEF SshInv, SessionInv
    <2> QED BY <2>1, <2>2, <2>3 DEF PoolIsSound
  <1> QED BY PoolInitInv, SshStep, <1>1, PTL DEF PoolSpec

-----------------------------------------------------------------------------
(***************************************************************************)
(* L2tpAccounts. An installed relay was given the accounts before its      *)
(* installation was verified, so the promise holds from there on: for any  *)
(* ReadyRelay, one installed or with an installation under way that will   *)
(* count. No account is missing there unless its request broke off or met  *)
(* an installation.                                                        *)
(***************************************************************************)

StateOfRelay == [status : {"none", "not_installed", "installed"}, desired : BOOLEAN,
                 octet : Octet \cup {0}, rev : Nat, key : {0, 1}]
AccountRow == [relay : Relay, login : Login, octet : Octet, host : 1..PoolSize,
               password : Password]
Known == {row.login : row \in rows}

AccountTypes ==
    /\ relayState \in [Relay -> StateOfRelay]
    /\ rows \subseteq AccountRow
    /\ IsFiniteSet(Known)
    /\ installing \subseteq [relay : Relay, rev : Nat]

\* A relay that is to be installed has a subnet and the key of its clients.
Desired ==
    \A r \in Relay :
        /\ relayState[r].status = "installed" => relayState[r].desired
        /\ relayState[r].desired => relayState[r].octet # 0 /\ relayState[r].key = 1

\* Addresses are of the relay's subnet, and no two accounts share one.
Addressed == \A row \in rows : row.octet = relayState[row.relay].octet
RowsApart ==
    \A a, b \in rows : a.relay = b.relay /\ (a.host = b.host \/ a.login = b.login) => a = b
OnePassword ==
    \A a, b \in rows : a.login = b.login /\ a.login \notin unsure => a.password = b.password

\* Installed, or about to be: the installation is of the latest configuration.
ReadyRelay(r) ==
    \/ relayState[r].status = "installed"
    \/ relayState[r].desired /\ [relay |-> r, rev |-> relayState[r].rev] \in installing
OpsPast == \A op \in installing : op.rev <= relayState[op.relay].rev
Served ==
    \A r \in Relay : ReadyRelay(r) =>
        \A row \in rows : row.login \notin unsure =>
            \E mine \in rows : mine.relay = r /\ mine.login = row.login

\* The paths are relays' chains, and of no two of them a relay is on both.
PathsApart ==
    /\ groupPaths \subseteq {ChainOf[x] : x \in Relay}
    /\ \A r \in Relay : \A p, q \in groupPaths :
          Covers(p, Head(ChainOf[r])) /\ Covers(q, Head(ChainOf[r])) => p = q
OnPath ==
    \A r \in Relay : relayState[r].desired =>
        \E p \in groupPaths : Covers(p, Head(ChainOf[r]))

AccountsInv ==
    /\ AccountTypes /\ Desired /\ Addressed /\ RowsApart /\ OnePassword
    /\ OpsPast /\ Served /\ PathsApart /\ OnPath

LEMMA LeastOf ==
  ASSUME NEW S, S \subseteq Nat, S # {}
  PROVE  (CHOOSE x \in S : \A y \in S : x <= y) \in S
  <1> DEFINE R == OpToRel(<, Nat)
  <1>1. IsWellFoundedOn(R, Nat)
    BY NatLessThanWellFounded
  <1>2. \A x, y \in Nat : <<y, x>> \in R <=> y < x
    BY DEF OpToRel
  <1> HIDE DEF R
  <1>3. PICK x \in S : \A y \in S : ~ (<<y, x>> \in R)
    BY <1>1, WFMin
  <1>4. ASSUME NEW y \in S PROVE x <= y
    <2>1. x \in Nat /\ y \in Nat
      OBVIOUS
    <2>2. ~(y < x)
      BY <1>2, <1>3, <2>1
    <2> QED
      BY <2>1, <2>2
  <1> QED
    BY <1>4

-----------------------------------------------------------------------------
(* Paths.                                                                   *)

LEMMA ChainIs ==
  ASSUME NEW r \in Relay
  PROVE  /\ ChainOf[r] \in Seq(ChainLink) /\ ChainOf[r] # <<>>
         /\ Len(ChainOf[r]) \in Nat \ {0}
         /\ DOMAIN ChainOf[r] = 1..Len(ChainOf[r])
         /\ Head(ChainOf[r]) = ChainOf[r][1]
  BY AccountsAssumption

LEMMA CoversItself ==
  ASSUME NEW r \in Relay
  PROVE  Passes(r, r)
  BY ChainIs DEF Passes, Covers

LEMMA CoversTail ==
  ASSUME NEW r \in Relay, NEW link
  PROVE  Covers(ChainOf[r], link) <=> link = Head(ChainOf[r]) \/ Covers(Tail(ChainOf[r]), link)
  <1> DEFINE c == ChainOf[r]
  <1>1. /\ c \in Seq(ChainLink) /\ c # <<>> /\ Len(c) \in Nat \ {0}
        /\ DOMAIN c = 1..Len(c) /\ Head(c) = c[1]
    BY ChainIs
  <1>2. /\ Tail(c) \in Seq(ChainLink) /\ Len(Tail(c)) = Len(c) - 1
        /\ \A i \in 1..Len(Tail(c)) : Tail(c)[i] = c[i + 1]
    BY <1>1, HeadTailProperties
  <1>3. DOMAIN Tail(c) = 1..(Len(c) - 1)
    BY <1>1, <1>2
  <1> HIDE DEF c
  <1>4. ASSUME Covers(c, link) PROVE link = Head(c) \/ Covers(Tail(c), link)
    <2>1. PICK i \in 1..Len(c) : c[i] = link
      BY <1>1, <1>4 DEF Covers
    <2>2. CASE i = 1
      BY <1>1, <2>1, <2>2
    <2>3. CASE i # 1
      <3>1. i - 1 \in 1..(Len(c) - 1) /\ (i - 1) + 1 = i
        BY <1>1, <2>1, <2>3
      <3>2. Tail(c)[i - 1] = link
        BY <1>2, <2>1, <3>1
      <3> QED
        BY <1>3, <3>1, <3>2 DEF Covers
    <2> QED
      BY <2>2, <2>3
  <1>5. ASSUME link = Head(c) PROVE Covers(c, link)
    BY <1>1, <1>5 DEF Covers
  <1>6. ASSUME Covers(Tail(c), link) PROVE Covers(c, link)
    <2>1. PICK i \in 1..(Len(c) - 1) : Tail(c)[i] = link
      BY <1>3, <1>6 DEF Covers
    <2>2. i + 1 \in 1..Len(c) /\ c[i + 1] = link
      BY <1>1, <1>2, <2>1
    <2> QED
      BY <1>1, <2>2 DEF Covers
  <1> QED
    BY <1>4, <1>5, <1>6 DEF c

\* What a chain passes, so does the chain it is a part of.
LEMMA ChainsNest ==
  ASSUME NEW r \in Relay, NEW s \in Relay, Passes(r, s), NEW link, Covers(ChainOf[s], link)
  PROVE  Covers(ChainOf[r], link)
  <1> DEFINE c == ChainOf[r]
  <1>1. c \in Seq(ChainLink) /\ Len(c) \in Nat /\ DOMAIN c = 1..Len(c)
    BY ChainIs
  <1>2. PICK i \in 1..Len(c) : c[i] = Head(ChainOf[s])
    BY <1>1 DEF Passes, Covers
  <1>3. ChainOf[s] = SubSeq(c, i, Len(c))
    BY <1>1, <1>2, ChainsAssumption
  <1>4. PICK j \in DOMAIN ChainOf[s] : ChainOf[s][j] = link
    BY DEF Covers
  <1> HIDE DEF c
  <1>5. /\ Len(SubSeq(c, i, Len(c))) = Len(c) - i + 1
        /\ \A k \in 1..(Len(c) - i + 1) : SubSeq(c, i, Len(c))[k] = c[i + k - 1]
    BY <1>1, <1>2, SubSeqProperties
  <1>6. j \in 1..(Len(c) - i + 1)
    BY <1>3, <1>4, <1>5, ChainIs
  <1>7. i + j - 1 \in 1..Len(c) /\ c[i + j - 1] = link
    BY <1>1, <1>2, <1>3, <1>4, <1>5, <1>6
  <1> QED
    BY <1>1, <1>7 DEF Covers, c

\* What ensureRelayGroupPath does for the relays.
LEMMA PathsWithIs ==
  ASSUME PathsApart, NEW r \in Relay
  PROVE  /\ PathsWith(r) \subseteq {ChainOf[x] : x \in Relay}
         /\ \A s \in Relay : \A p, q \in PathsWith(r) :
               Covers(p, Head(ChainOf[s])) /\ Covers(q, Head(ChainOf[s])) => p = q
         /\ \A s \in Relay : (\E p \in groupPaths : Covers(p, Head(ChainOf[s]))) =>
               \E p \in PathsWith(r) : Covers(p, Head(ChainOf[s]))
         /\ \E p \in PathsWith(r) : Covers(p, Head(ChainOf[r]))
  <1> DEFINE covering == {p \in groupPaths : Covers(p, Head(ChainOf[r]))}
             best == CHOOSE p \in covering : \A x \in covering : Len(p) >= Len(x)
             kept == {p \in groupPaths : ~Covers(Tail(ChainOf[r]), Head(p))}
  <1>a. PathsWith(r) = IF covering # {} THEN (groupPaths \ covering) \cup {best}
                       ELSE kept \cup {ChainOf[r]}
    BY DEF PathsWith
  <1>1. CASE covering # {}
    <2>1. PICK p0 \in covering : TRUE
      BY <1>1
    <2>2. covering = {p0}
      BY <2>1 DEF PathsApart
    <2>3. Len(p0) \in Nat
      <3>1. PICK x \in Relay : p0 = ChainOf[x]
        BY <2>1 DEF PathsApart
      <3> QED
        BY <3>1, ChainIs
    <2>4. best = p0
      <3> HIDE DEF covering
      <3> QED
        BY <2>2, <2>3
    <2>5. PathsWith(r) = groupPaths
      BY <1>a, <1>1, <2>1, <2>2, <2>4
    <2> QED
      BY <2>1, <2>5 DEF PathsApart
  <1>2. CASE covering = {}
    <2>0. PathsWith(r) = kept \cup {ChainOf[r]}
      BY <1>a, <1>2
    <2>1. PathsWith(r) \subseteq {ChainOf[x] : x \in Relay}
      BY <2>0 DEF PathsApart
    <2>2. ASSUME NEW s \in Relay, NEW p \in kept, Covers(p, Head(ChainOf[s])), Passes(r, s)
          PROVE  FALSE
      <3>1. PICK x \in Relay : p = ChainOf[x]
        BY <2>2 DEF PathsApart
      <3>2. ~Passes(x, r)
        BY <1>2, <2>2, <3>1 DEF Passes
      <3>3. Passes(r, x)
        BY <2>2, <3>1, <3>2, ChainsAssumption DEF Passes
      <3>4. Head(p) = Head(ChainOf[r])
        BY <2>2, <3>1, <3>3, CoversTail DEF Passes
      <3> QED
        BY <3>1, <3>2, <3>4, CoversItself DEF Passes
    <2>3. ASSUME NEW s \in Relay, NEW p \in PathsWith(r), NEW q \in PathsWith(r),
                 Covers(p, Head(ChainOf[s])), Covers(q, Head(ChainOf[s]))
          PROVE  p = q
      <3>1. CASE p \in kept /\ q \in kept
        BY <2>3, <3>1 DEF PathsApart
      <3>2. CASE p = ChainOf[r] /\ q \in kept
        BY <2>2, <2>3, <3>2 DEF Passes
      <3>3. CASE p \in kept /\ q = ChainOf[r]
        BY <2>2, <2>3, <3>3 DEF Passes
      <3> QED
        BY <2>0, <2>3, <3>1, <3>2, <3>3
    <2>4. ASSUME NEW s \in Relay, NEW p \in groupPaths, Covers(p, Head(ChainOf[s]))
          PROVE  \E q \in PathsWith(r) : Covers(q, Head(ChainOf[s]))
      <3>1. CASE p \in kept
        BY <2>0, <2>4, <3>1
      <3>2. CASE Covers(Tail(ChainOf[r]), Head(p))
        <4>1. PICK x \in Relay : p = ChainOf[x]
          BY <2>4 DEF PathsApart
        <4>2. Passes(r, x)
          BY <3>2, <4>1, CoversTail DEF Passes
        <4>3. Covers(ChainOf[r], Head(ChainOf[s]))
          BY <2>4, <4>1, <4>2, ChainsNest
        <4> QED
          BY <2>0, <4>3
      <3> QED
        BY <2>4, <3>1, <3>2
    <2>5. \E p \in PathsWith(r) : Covers(p, Head(ChainOf[r]))
      BY <2>0, CoversItself DEF Passes
    <2> QED
      BY <2>1, <2>3, <2>4, <2>5
  <1> QED
    BY <1>1, <1>2

-----------------------------------------------------------------------------
(* Subnets, keys and records.                                               *)

LEMMA SubnetIs ==
  ASSUME AccountTypes, Addressed, NEW r \in Relay, ~NoSubnet(r)
  PROVE  /\ SubnetOf(r) \in Octet
         /\ relayState[r].octet # 0 => SubnetOf(r) = relayState[r].octet
  <1>1. relayState[r].octet \in Octet \cup {0} /\ Octet \subseteq Nat \ {0}
    BY AccountsAssumption DEF AccountTypes, StateOfRelay
  <1>2. CASE relayState[r].octet # 0
    BY <1>1, <1>2 DEF SubnetOf
  <1>3. CASE relayState[r].octet = 0
    <2> DEFINE pinned == {row.octet : row \in Of(r)}
               free == Octet \ UsedOctets
               ahead == {o \in free : o >= FirstOctet[r]}
    <2>1. pinned = {}
      BY <1>1, <1>3 DEF Of, Addressed, AccountTypes, AccountRow
    <2>2. Cardinality(pinned) # 1
      BY <2>1, FS_EmptySet
    <2>3. SubnetOf(r) = IF ahead # {} THEN CHOOSE o \in ahead : \A x \in ahead : o <= x
                                      ELSE CHOOSE o \in free : \A x \in free : o <= x
      BY <1>3, <2>2 DEF SubnetOf
    <2>4. free # {} /\ free \subseteq Nat /\ ahead \subseteq free
      BY <1>1, <1>3 DEF NoSubnet
    <2>5. ahead # {} => SubnetOf(r) \in ahead
      <3> HIDE DEF ahead, free
      <3> QED
        BY <2>3, <2>4, LeastOf
    <2>6. ahead = {} => SubnetOf(r) \in free
      <3> HIDE DEF ahead, free
      <3> QED
        BY <2>3, <2>4, LeastOf
    <2> QED
      BY <1>3, <2>4, <2>5, <2>6
  <1> QED
    BY <1>2, <1>3

LEMMA ConfiguredIs ==
  ASSUME AccountTypes, Addressed, Desired, NEW r \in Relay, ~NoSubnet(r)
  PROVE  /\ Configured(r) \in [Relay -> StateOfRelay]
         /\ \A s \in Relay : s # r => Configured(r)[s] = relayState[s]
         /\ Configured(r)[r].desired /\ Configured(r)[r].key = 1
         /\ Configured(r)[r].octet = SubnetOf(r)
         /\ Configured(r)[r].status = "installed" => relayState[r].status = "installed"
         /\ IF relayState[r].desired THEN Configured(r) = relayState
            ELSE Configured(r)[r].rev = relayState[r].rev + 1
  <1>1. SubnetOf(r) \in Octet /\ (relayState[r].octet # 0 => SubnetOf(r) = relayState[r].octet)
    BY SubnetIs
  <1>2. relayState[r] \in StateOfRelay
    BY DEF AccountTypes
  <1>3. CASE relayState[r].desired
    BY <1>1, <1>2, <1>3 DEF Configured, Desired, AccountTypes
  <1>4. CASE ~relayState[r].desired
    <2> DEFINE new == [status |-> IF relayState[r].status = "none" THEN "not_installed"
                                  ELSE relayState[r].status,
                       desired |-> TRUE, octet |-> SubnetOf(r), rev |-> relayState[r].rev + 1,
                       key |-> IF relayState[r].key = 0 THEN 1 ELSE relayState[r].key]
    <2>1. Configured(r) = [relayState EXCEPT ![r] = new]
      BY <1>4 DEF Configured
    <2>2. new \in StateOfRelay
      BY <1>1, <1>2 DEF StateOfRelay
    <2>3. /\ new.desired = TRUE /\ new.octet = SubnetOf(r)
          /\ new.rev = relayState[r].rev + 1 /\ new.key = 1
          /\ new.status = "installed" => relayState[r].status = "installed"
      BY <1>2 DEF StateOfRelay
    <2> HIDE DEF new
    <2>4. Configured(r)[r] = new /\ \A s \in Relay : s # r => Configured(r)[s] = relayState[s]
      BY <2>1 DEF AccountTypes
    <2>5. Configured(r) \in [Relay -> StateOfRelay]
      BY <2>1, <2>2 DEF AccountTypes
    <2> QED
      BY <1>4, <2>3, <2>4, <2>5
  <1> QED
    BY <1>3, <1>4

LEMMA BumpedIs ==
  ASSUME AccountTypes, NEW nodes
  PROVE  /\ Bumped(nodes) \in [Relay -> StateOfRelay]
         /\ \A r \in Relay :
               /\ Bumped(nodes)[r].status = relayState[r].status
               /\ Bumped(nodes)[r].desired = relayState[r].desired
               /\ Bumped(nodes)[r].octet = relayState[r].octet
               /\ Bumped(nodes)[r].key = relayState[r].key
               /\ Bumped(nodes)[r].rev = relayState[r].rev + (IF r \in nodes THEN 1 ELSE 0)
  <1>1. ASSUME NEW r \in Relay
        PROVE  /\ Bumped(nodes)[r] \in StateOfRelay
               /\ Bumped(nodes)[r].status = relayState[r].status
               /\ Bumped(nodes)[r].desired = relayState[r].desired
               /\ Bumped(nodes)[r].octet = relayState[r].octet
               /\ Bumped(nodes)[r].key = relayState[r].key
               /\ Bumped(nodes)[r].rev = relayState[r].rev + (IF r \in nodes THEN 1 ELSE 0)
    <2>1. relayState[r] \in StateOfRelay
      BY DEF AccountTypes
    <2>2. Bumped(nodes)[r] = IF r \in nodes THEN [relayState[r] EXCEPT !.rev = @ + 1]
                             ELSE relayState[r]
      BY DEF Bumped
    <2> QED
      BY <2>1, <2>2 DEF StateOfRelay
  <1>2. Bumped(nodes) \in [Relay -> StateOfRelay]
    BY <1>1 DEF Bumped
  <1> QED
    BY <1>1, <1>2

LEMMA FreeHostsIs ==
  ASSUME NEW r
  PROVE  FreeHosts(r) \subseteq 1..PoolSize /\ IsFiniteSet(FreeHosts(r))
  <1>1. IsFiniteSet(1..PoolSize)
    BY AccountsAssumption, FS_Interval
  <1> QED
    BY <1>1, FS_Subset DEF FreeHosts

\* As many fit as there is room for.
LEMMA PlacesExist ==
  ASSUME NEW S, NEW T, IsFiniteSet(S), IsFiniteSet(T), Cardinality(S) <= Cardinality(T)
  PROVE  \E f \in [S -> T] : \A a, b \in S : f[a] = f[b] => a = b
  <1>1. /\ Cardinality(S) \in Nat /\ ExistsBijection(1..Cardinality(S), S)
        /\ Cardinality(T) \in Nat /\ ExistsBijection(1..Cardinality(T), T)
    BY FS_CardinalityType
  <1> DEFINE m == Cardinality(S)
             n == Cardinality(T)
  <1>2. m \in Nat /\ n \in Nat /\ m <= n
    BY <1>1
  <1>3. PICK g \in [1..m -> S] : \A s \in S : \E i \in 1..m : g[i] = s
    BY <1>1 DEF ExistsBijection, Bijection, Surjection
  <1>4. PICK h \in [1..n -> T] : \A i, j \in 1..n : h[i] = h[j] => i = j
    BY <1>1 DEF ExistsBijection, Bijection, Injection, IsInjective
  <1> HIDE DEF m, n
  <1> DEFINE at(s) == CHOOSE i \in 1..m : g[i] = s
             f == [s \in S |-> h[at(s)]]
  <1>5. \A s \in S : at(s) \in 1..m /\ at(s) \in 1..n /\ g[at(s)] = s
    BY <1>2, <1>3
  <1> HIDE DEF at
  <1>6. f \in [S -> T]
    BY <1>4, <1>5
  <1>7. \A a, b \in S : f[a] = f[b] => a = b
    BY <1>4, <1>5
  <1> QED
    BY <1>6, <1>7

LEMMA InheritedIs ==
  ASSUME AccountTypes, Addressed, NEW r \in Relay, ~NoSubnet(r),
         NEW logins \in SUBSET Missing(r), Cardinality(logins) <= Cardinality(FreeHosts(r)),
         NEW password \in [logins -> Password]
  PROVE  /\ Inherited(r, logins, password) \subseteq AccountRow
         /\ \A row \in Inherited(r, logins, password) :
               /\ row.relay = r /\ row.octet = SubnetOf(r) /\ row.host \in FreeHosts(r)
               /\ row.login \in logins /\ row.password = password[row.login]
         /\ \A a, b \in Inherited(r, logins, password) :
               a.host = b.host \/ a.login = b.login => a = b
         /\ \A l \in logins : \E row \in Inherited(r, logins, password) : row.login = l
  <1> DEFINE H == FreeHosts(r)
             Apart(f) == \A a, b \in logins : f[a] = f[b] => a = b
             place == CHOOSE f \in [logins -> H] : Apart(f)
             New(l) == [relay |-> r, login |-> l, octet |-> SubnetOf(r), host |-> place[l],
                        password |-> password[l]]
  <1>1. logins \subseteq Known /\ Known \subseteq Login
    BY DEF Missing, Known, AccountTypes, AccountRow
  <1>2. IsFiniteSet(logins)
    BY <1>1, FS_Subset DEF AccountTypes
  <1>3. place \in [logins -> H] /\ Apart(place)
    <2>1. \E f \in [logins -> H] : Apart(f)
      BY <1>2, FreeHostsIs, PlacesExist
    <2> HIDE DEF Apart, H
    <2> QED
      BY <2>1
  <1>4. Inherited(r, logins, password) = {New(l) : l \in logins}
    BY DEF Inherited
  <1>5. \A l \in logins :
           /\ New(l) \in AccountRow
           /\ New(l).relay = r /\ New(l).octet = SubnetOf(r) /\ New(l).host = place[l]
           /\ New(l).login = l /\ New(l).password = password[l] /\ place[l] \in H
    <2> TAKE l \in logins
    <2>1. place[l] \in 1..PoolSize /\ SubnetOf(r) \in Octet /\ place[l] \in H /\ l \in Login
      BY <1>1, <1>3, FreeHostsIs, SubnetIs
    <2> HIDE DEF place, H
    <2> QED
      BY <2>1 DEF AccountRow
  <1> HIDE DEF New, place
  <1> QED
    BY <1>3, <1>4, <1>5

-----------------------------------------------------------------------------
(* The steps.                                                               *)

\* Records at free places of relays that keep their subnet.
LEMMA RowsAdded ==
  ASSUME AccountsInv, NEW N \in SUBSET AccountRow, rows' = rows \cup N,
         \A row \in rows : relayState'[row.relay].octet = relayState[row.relay].octet,
         \A n \in N : n.octet = relayState'[n.relay].octet,
         \A n \in N : \A old \in rows :
             n.relay = old.relay => n.host # old.host /\ n.login # old.login,
         \A n, m \in N : n.relay = m.relay /\ (n.host = m.host \/ n.login = m.login) => n = m
  PROVE  rows' \subseteq AccountRow /\ Addressed' /\ RowsApart'
  <1>1. rows' \subseteq AccountRow
    BY DEF AccountsInv, AccountTypes
  <1>2. Addressed'
    BY DEF AccountsInv, Addressed
  <1>3. RowsApart'
    <2> SUFFICES ASSUME NEW a \in rows', NEW b \in rows', a.relay = b.relay,
                        a.host = b.host \/ a.login = b.login
                 PROVE  a = b
      BY DEF RowsApart
    <2>1. CASE a \in rows /\ b \in rows
      BY <2>1 DEF AccountsInv, RowsApart
    <2>2. CASE a \in N /\ b \in N
      BY <2>2
    <2>3. CASE a \in N /\ b \in rows
      BY <2>3
    <2>4. CASE a \in rows /\ b \in N
      BY <2>4
    <2> QED
      BY <2>1, <2>2, <2>3, <2>4
  <1> QED
    BY <1>1, <1>2, <1>3

\* A path leads out of every relay that is to be installed.
LEMMA InstallPaths ==
  ASSUME AccountsInv, NEW r \in Relay, groupPaths' = PathsWith(r),
         \A s \in Relay : s # r => relayState'[s] = relayState[s]
  PROVE  PathsApart' /\ OnPath'
  <1>1. PathsApart
    BY DEF AccountsInv
  <1>2. PathsApart'
    BY <1>1, PathsWithIs DEF PathsApart
  <1>3. OnPath'
    <2> SUFFICES ASSUME NEW s \in Relay, relayState'[s].desired
                 PROVE  \E p \in groupPaths' : Covers(p, Head(ChainOf[s]))
      BY DEF OnPath
    <2>1. CASE s = r
      BY <1>1, <2>1, PathsWithIs
    <2>2. CASE s # r
      <3>1. \E p \in groupPaths : Covers(p, Head(ChainOf[s]))
        BY <2>2 DEF AccountsInv, OnPath
      <3> QED
        BY <1>1, <3>1, PathsWithIs
    <2> QED
      BY <2>1, <2>2
  <1> QED
    BY <1>2, <1>3

LEMMA InstallStep ==
  ASSUME AccountsInv, NEW r \in Relay, InstallRelay(r)
  PROVE  AccountsInv'
  <1>0. /\ AccountTypes /\ Desired /\ Addressed /\ RowsApart /\ OnePassword
        /\ OpsPast /\ Served /\ PathsApart /\ OnPath
    BY DEF AccountsInv
  <1>00. groupPaths' = PathsWith(r) /\ unsure' = unsure
    BY DEF InstallRelay
  <1>1. CASE NoSubnet(r)
    <2>1. UNCHANGED <<relayState, rows, installing, unsure>>
      BY <1>1 DEF InstallRelay
    <2>2. PathsApart' /\ OnPath'
      BY <1>00, <2>1, InstallPaths
    <2> QED
      BY <1>0, <2>1, <2>2 DEF AccountsInv, AccountTypes, Known, Desired, Addressed, RowsApart,
         OnePassword, OpsPast, Served, ReadyRelay
  <1>2. CASE ~NoSubnet(r)
    <2>1. PICK logins \in SUBSET Missing(r) :
             /\ Cardinality(logins) <= Cardinality(FreeHosts(r))
             /\ \E password \in {f \in [logins -> Password] :
                                   \A l \in logins : f[l] \in PasswordsOf(l)} :
                   rows' = rows \cup Inherited(r, logins, password)
             /\ \/ /\ logins = Missing(r)
                   /\ installing' = installing \cup {[relay |-> r, rev |-> relayState'[r].rev]}
                \/ installing' = installing
      BY <1>2 DEF InstallRelay
    <2>2. PICK password \in [logins -> Password] :
             /\ \A l \in logins : password[l] \in PasswordsOf(l)
             /\ rows' = rows \cup Inherited(r, logins, password)
      BY <2>1
    <2>3. relayState' = Configured(r)
      BY <1>2 DEF InstallRelay
    <2>4. /\ relayState' \in [Relay -> StateOfRelay]
          /\ \A s \in Relay : s # r => relayState'[s] = relayState[s]
          /\ relayState'[r].desired /\ relayState'[r].key = 1
          /\ relayState'[r].octet = SubnetOf(r)
          /\ relayState'[r].status = "installed" => relayState[r].status = "installed"
          /\ IF relayState[r].desired THEN relayState' = relayState
             ELSE relayState'[r].rev = relayState[r].rev + 1
      BY <1>0, <1>2, <2>3, ConfiguredIs
    <2>5. SubnetOf(r) \in Octet /\ (relayState[r].octet # 0 => SubnetOf(r) = relayState[r].octet)
      BY <1>0, <1>2, SubnetIs
    <2> DEFINE N == Inherited(r, logins, password)
    <2>6. /\ N \subseteq AccountRow
          /\ \A row \in N :
                /\ row.relay = r /\ row.octet = SubnetOf(r) /\ row.host \in FreeHosts(r)
                /\ row.login \in logins /\ row.password = password[row.login]
          /\ \A a, b \in N : a.host = b.host \/ a.login = b.login => a = b
          /\ \A l \in logins : \E row \in N : row.login = l
      BY <1>0, <1>2, <2>1, <2>2, InheritedIs
    <2>7. rows' = rows \cup N
      BY <2>2
    <2> HIDE DEF N
    <2>8. rows' \subseteq AccountRow /\ Addressed' /\ RowsApart'
      <3>1. \A row \in rows : relayState'[row.relay].octet = relayState[row.relay].octet
        <4> TAKE row \in rows
        <4>1. row.octet \in Octet /\ row.relay \in Relay /\ row.octet = relayState[row.relay].octet
          BY <1>0 DEF AccountTypes, AccountRow, Addressed
        <4>2. row.octet # 0
          BY <4>1, AccountsAssumption
        <4> QED
          BY <2>4, <2>5, <4>1, <4>2
      <3>2. \A n \in N : \A old \in rows :
               n.relay = old.relay => n.host # old.host /\ n.login # old.login
        BY <2>1, <2>6 DEF FreeHosts, Missing, Of
      <3>3. \A n \in N : n.octet = relayState'[n.relay].octet
        BY <2>4, <2>6
      <3> QED
        BY <2>6, <2>7, <3>1, <3>2, <3>3, RowsAdded
    \* Every record repeats one there was.
    <2>9. \A row \in rows' : \E old \in rows : old.login = row.login /\ old.password = row.password
      <3> TAKE row \in rows'
      <3>1. CASE row \in rows
        BY <3>1
      <3>2. CASE row \in N
        BY <2>2, <2>6, <3>2 DEF PasswordsOf
      <3> QED
        BY <2>7, <3>1, <3>2
    <2>10. Known' = Known
      BY <2>7, <2>9 DEF Known
    <2>11. \A s \in Relay : [relay |-> s, rev |-> relayState'[s].rev] \in [relay : Relay, rev : Nat]
      BY <2>4 DEF StateOfRelay
    <2>12. AccountTypes'
      BY <1>0, <2>1, <2>4, <2>8, <2>10, <2>11 DEF AccountTypes
    <2>13. Desired'
      BY <1>0, <2>4, <2>5, AccountsAssumption DEF Desired
    <2>14. OnePassword'
      BY <1>0, <1>00, <2>9 DEF OnePassword
    <2>15. \A s \in Relay : relayState[s].rev <= relayState'[s].rev
      BY <1>0, <2>4 DEF AccountTypes, StateOfRelay
    <2>16. OpsPast'
      <3> SUFFICES ASSUME NEW op \in installing' PROVE op.rev <= relayState'[op.relay].rev
        BY DEF OpsPast
      <3>1. CASE op \in installing
        <4>1. op.relay \in Relay /\ op.rev \in Nat /\ op.rev <= relayState[op.relay].rev
          BY <1>0, <3>1 DEF OpsPast, AccountTypes
        <4>2. relayState[op.relay].rev \in Nat /\ relayState'[op.relay].rev \in Nat
          BY <1>0, <2>4, <4>1 DEF AccountTypes, StateOfRelay
        <4> QED
          BY <2>15, <4>1, <4>2
      <3>2. CASE op = [relay |-> r, rev |-> relayState'[r].rev]
        BY <2>4, <3>2 DEF StateOfRelay
      <3> QED
        BY <2>1, <3>1, <3>2
    <2>17. Served'
      <3> SUFFICES ASSUME NEW s \in Relay, ReadyRelay(s)', NEW row \in rows', row.login \notin unsure
                   PROVE  \E mine \in rows' : mine.relay = s /\ mine.login = row.login
        BY <1>00 DEF Served
      <3>1. PICK old \in rows : old.login = row.login
        BY <2>9
      <3>2. CASE ReadyRelay(s)
        <4>1. \E mine \in rows : mine.relay = s /\ mine.login = old.login
          BY <1>0, <3>1, <3>2 DEF Served
        <4> QED
          BY <2>7, <3>1, <4>1
      <3>3. CASE ~ReadyRelay(s)
        <4>1. s = r
          BY <2>1, <2>4, <3>3 DEF ReadyRelay
        <4>2. installing' # installing
          <5> SUFFICES ASSUME installing' = installing PROVE FALSE
            OBVIOUS
          <5>1. [relay |-> r, rev |-> relayState'[r].rev] \in installing
            BY <2>4, <3>3, <4>1 DEF ReadyRelay
          <5>2. relayState'[r].rev <= relayState[r].rev
            BY <1>0, <5>1 DEF OpsPast
          <5>3. relayState[r].rev \in Nat
            BY <1>0 DEF AccountTypes, StateOfRelay
          <5> QED
            BY <2>4, <3>3, <4>1, <5>1, <5>2, <5>3 DEF ReadyRelay
        <4>3. logins = Missing(r)
          BY <2>1, <4>2
        <4>4. CASE old.login \in logins
          BY <2>6, <2>7, <3>1, <4>1, <4>4
        <4>5. CASE old.login \notin logins
          <5>1. PICK mine \in rows : mine.relay = r /\ mine.login = old.login
            BY <4>3, <4>5 DEF Missing, Of
          <5> QED
            BY <2>7, <3>1, <4>1, <5>1
        <4> QED
          BY <4>4, <4>5
      <3> QED
        BY <3>2, <3>3
    <2>18. PathsApart' /\ OnPath'
      BY <1>00, <2>4, InstallPaths
    <2> QED
      BY <2>8, <2>12, <2>13, <2>14, <2>16, <2>17, <2>18 DEF AccountsInv
  <1> QED
    BY <1>1, <1>2

LEMMA FinishInstallStep ==
  ASSUME AccountsInv, NEW op \in installing, FinishInstall(op)
  PROVE  AccountsInv'
  <1>0. /\ AccountTypes /\ Desired /\ Addressed /\ RowsApart /\ OnePassword
        /\ OpsPast /\ Served /\ PathsApart /\ OnPath
    BY DEF AccountsInv
  <1>1. UNCHANGED <<rows, groupPaths, unsure>> /\ installing' = installing \ {op}
    BY DEF FinishInstall
  <1>2. op.relay \in Relay /\ op.rev \in Nat /\ op = [relay |-> op.relay, rev |-> op.rev]
    BY <1>0 DEF AccountTypes
  <1>3. /\ relayState' \in [Relay -> StateOfRelay]
        /\ \A s \in Relay :
              /\ relayState'[s].desired = relayState[s].desired
              /\ relayState'[s].octet = relayState[s].octet
              /\ relayState'[s].key = relayState[s].key
              /\ relayState'[s].rev = relayState[s].rev
              /\ \/ relayState'[s].status = relayState[s].status
                 \/ s = op.relay /\ relayState[s].desired /\ relayState[s].rev = op.rev
    <2>1. CASE UNCHANGED relayState
      BY <1>0, <2>1 DEF AccountTypes
    <2>2. CASE /\ relayState[op.relay].desired /\ relayState[op.relay].rev = op.rev
               /\ relayState' = [relayState EXCEPT ![op.relay].status = "installed"]
      <3>1. relayState[op.relay] \in StateOfRelay
        BY <1>0, <1>2 DEF AccountTypes
      <3> DEFINE new == [relayState[op.relay] EXCEPT !.status = "installed"]
      <3>2. /\ new \in StateOfRelay /\ new.desired = relayState[op.relay].desired
            /\ new.octet = relayState[op.relay].octet /\ new.key = relayState[op.relay].key
            /\ new.rev = relayState[op.relay].rev
        BY <3>1 DEF StateOfRelay
      <3>3. relayState' = [relayState EXCEPT ![op.relay] = new]
        BY <2>2
      <3> HIDE DEF new
      <3> QED
        BY <1>0, <1>2, <2>2, <3>2, <3>3 DEF AccountTypes
    <2> QED
      BY <2>1, <2>2 DEF FinishInstall
  <1>4. AccountTypes' /\ Addressed' /\ RowsApart' /\ OnePassword' /\ PathsApart'
    <2>1. AccountTypes'
      BY <1>0, <1>1, <1>3 DEF AccountTypes, Known
    <2>2. Addressed'
      BY <1>0, <1>1, <1>3 DEF Addressed, AccountTypes, AccountRow
    <2> QED
      BY <1>0, <1>1, <2>1, <2>2 DEF RowsApart, OnePassword, PathsApart
  <1>5. Desired' /\ OnPath'
    BY <1>0, <1>1, <1>3 DEF Desired, OnPath
  <1>6. OpsPast'
    BY <1>0, <1>1, <1>3 DEF OpsPast, AccountTypes
  <1>7. Served'
    <2>1. \A s \in Relay : ReadyRelay(s)' => ReadyRelay(s)
      BY <1>1, <1>2, <1>3 DEF ReadyRelay
    <2> QED
      BY <1>0, <1>1, <2>1 DEF Served
  <1> QED
    BY <1>4, <1>5, <1>6, <1>7 DEF AccountsInv

LEMMA UninstallStep ==
  ASSUME AccountsInv, NEW r \in Relay, UninstallRelay(r)
  PROVE  AccountsInv'
  <1>0. /\ AccountTypes /\ Desired /\ Addressed /\ RowsApart /\ OnePassword
        /\ OpsPast /\ Served /\ PathsApart /\ OnPath
    BY DEF AccountsInv
  <1>1. UNCHANGED <<rows, groupPaths, unsure, installing>>
    BY DEF UninstallRelay
  <1>2. /\ relayState' \in [Relay -> StateOfRelay]
        /\ \A s \in Relay :
              /\ relayState'[s].octet = relayState[s].octet
              /\ relayState'[s].key = relayState[s].key
              /\ relayState'[s].rev = relayState[s].rev
              /\ IF s = r THEN relayState'[s].status # "installed" /\ ~relayState'[s].desired
                 ELSE relayState'[s] = relayState[s]
    <2> DEFINE new == [relayState[r] EXCEPT !.status = "not_installed", !.desired = FALSE]
    <2>1. relayState[r] \in StateOfRelay
      BY <1>0 DEF AccountTypes
    <2>2. /\ new \in StateOfRelay /\ new.octet = relayState[r].octet
          /\ new.key = relayState[r].key /\ new.rev = relayState[r].rev
          /\ new.status = "not_installed" /\ new.desired = FALSE
      BY <2>1 DEF StateOfRelay
    <2>3. relayState' = [relayState EXCEPT ![r] = new]
      BY <1>0 DEF UninstallRelay, AccountTypes
    <2> HIDE DEF new
    <2> QED
      BY <1>0, <2>2, <2>3 DEF AccountTypes
  <1>4. AccountTypes' /\ Addressed' /\ RowsApart' /\ OnePassword' /\ PathsApart'
    <2>1. AccountTypes'
      BY <1>0, <1>1, <1>2 DEF AccountTypes, Known
    <2>2. Addressed'
      BY <1>0, <1>1, <1>2 DEF Addressed, AccountTypes, AccountRow
    <2> QED
      BY <1>0, <1>1, <2>1, <2>2 DEF RowsApart, OnePassword, PathsApart
  <1>5. Desired' /\ OnPath'
    BY <1>0, <1>1, <1>2 DEF Desired, OnPath
  <1>6. OpsPast'
    BY <1>0, <1>1, <1>2 DEF OpsPast, AccountTypes
  <1>7. Served'
    <2>1. \A s \in Relay : ReadyRelay(s)' => ReadyRelay(s)
      BY <1>1, <1>2 DEF ReadyRelay
    <2> QED
      BY <1>0, <1>1, <2>1 DEF Served
  <1> QED
    BY <1>4, <1>5, <1>6, <1>7 DEF AccountsInv

\* What a change of credentials leaves of a relay: all but its revision, so that
\* an installation under way before does not count.
LEMMA BumpedStep ==
  ASSUME AccountsInv, NEW nodes, relayState' = Bumped(nodes), UNCHANGED <<groupPaths, installing>>
  PROVE  /\ relayState' \in [Relay -> StateOfRelay]
         /\ \A s \in Relay : relayState'[s].octet = relayState[s].octet
         /\ Desired' /\ OpsPast' /\ PathsApart' /\ OnPath'
         /\ \A s \in Relay : ReadyRelay(s)' => ReadyRelay(s)
  <1>0. AccountTypes /\ Desired /\ OpsPast /\ PathsApart /\ OnPath
    BY DEF AccountsInv
  <1>1. /\ relayState' \in [Relay -> StateOfRelay]
        /\ \A r \in Relay :
              /\ relayState'[r].status = relayState[r].status
              /\ relayState'[r].desired = relayState[r].desired
              /\ relayState'[r].octet = relayState[r].octet
              /\ relayState'[r].key = relayState[r].key
              /\ relayState'[r].rev = relayState[r].rev + (IF r \in nodes THEN 1 ELSE 0)
    BY <1>0, BumpedIs
  <1>2. \A r \in Relay : relayState[r].rev \in Nat
    BY <1>0 DEF AccountTypes, StateOfRelay
  <1>3. Desired' /\ OnPath' /\ PathsApart'
    BY <1>0, <1>1 DEF Desired, OnPath, PathsApart
  <1>4. OpsPast'
    <2> SUFFICES ASSUME NEW op \in installing PROVE op.rev <= relayState'[op.relay].rev
      BY DEF OpsPast
    <2>1. op.relay \in Relay /\ op.rev \in Nat /\ op.rev <= relayState[op.relay].rev
      BY <1>0 DEF OpsPast, AccountTypes
    <2> QED
      BY <1>1, <1>2, <2>1
  <1>5. ASSUME NEW s \in Relay, ReadyRelay(s)' PROVE ReadyRelay(s)
    <2>1. CASE relayState[s].status = "installed"
      BY <2>1 DEF ReadyRelay
    <2>2. CASE relayState[s].status # "installed"
      <3>1. relayState[s].desired /\ [relay |-> s, rev |-> relayState'[s].rev] \in installing
        BY <1>1, <1>5, <2>2 DEF ReadyRelay
      <3>2. relayState'[s].rev <= relayState[s].rev
        BY <1>0, <3>1 DEF OpsPast
      <3>3. relayState'[s].rev = relayState[s].rev
        BY <1>1, <1>2, <3>2
      <3> QED
        BY <3>1, <3>3 DEF ReadyRelay
    <2> QED
      BY <2>1, <2>2
  <1> QED
    BY <1>1, <1>3, <1>4, <1>5

LEMMA CreateStep ==
  ASSUME AccountsInv, NEW login \in Login, NEW password \in Password,
         CreateAccount(login, password)
  PROVE  AccountsInv'
  <1>0. /\ AccountTypes /\ Desired /\ Addressed /\ RowsApart /\ OnePassword
        /\ OpsPast /\ Served /\ PathsApart /\ OnPath
    BY DEF AccountsInv
  <1> DEFINE wanted == {r \in Installed : \A row \in Of(r) : row.login # login}
             able == {r \in wanted : r \in isRelay /\ FreeHosts(r) # {}}
  <1>1. PICK nodes \in SUBSET able :
           /\ rows' = rows \cup {Row(r, login, password) : r \in nodes}
           /\ relayState' = Bumped(nodes)
           /\ \/ nodes = wanted /\ unsure' = IF installing = {} THEN unsure ELSE unsure \cup {login}
              \/ unsure' = unsure \cup {login}
    BY DEF CreateAccount
  <1>2. UNCHANGED <<groupPaths, installing>>
    BY DEF CreateAccount
  <1>3. /\ relayState' \in [Relay -> StateOfRelay]
        /\ \A s \in Relay : relayState'[s].octet = relayState[s].octet
        /\ Desired' /\ OpsPast' /\ PathsApart' /\ OnPath'
        /\ \A s \in Relay : ReadyRelay(s)' => ReadyRelay(s)
    BY <1>1, <1>2, BumpedStep
  <1> DEFINE New(r) == Row(r, login, password)
             N == {New(r) : r \in nodes}
  <1>4. ASSUME NEW r \in nodes
        PROVE  /\ r \in Relay /\ r \in wanted
               /\ New(r) \in AccountRow /\ New(r).relay = r /\ New(r).login = login
               /\ New(r).octet = relayState[r].octet /\ New(r).host \in FreeHosts(r)
               /\ New(r).password = password
    <2>1. r \in Relay /\ r \in wanted /\ FreeHosts(r) # {} /\ relayState[r].status = "installed"
      BY DEF Installed
    <2>2. relayState[r].octet # 0 /\ relayState[r].octet \in Octet
      BY <1>0, <2>1 DEF Desired, AccountTypes, StateOfRelay
    <2>3. SubnetOf(r) = relayState[r].octet
      BY <2>2 DEF SubnetOf
    <2> DEFINE h == CHOOSE h \in FreeHosts(r) : \A x \in FreeHosts(r) : h <= x
    <2>4. FreeHosts(r) \subseteq 1..PoolSize /\ FreeHosts(r) \subseteq Nat
      BY FreeHostsIs
    <2>5. h \in FreeHosts(r)
      BY <2>1, <2>4, LeastOf
    <2>6. New(r) = [relay |-> r, login |-> login, octet |-> SubnetOf(r), password |-> password,
                    host |-> h]
      BY DEF Row
    <2> HIDE DEF h, wanted
    <2>7. New(r) \in AccountRow
      BY <2>1, <2>2, <2>3, <2>4, <2>5, <2>6 DEF AccountRow
    <2> QED
      BY <2>1, <2>3, <2>5, <2>6, <2>7
  <1> HIDE DEF New, able
  <1>5. rows' = rows \cup N
    BY <1>1 DEF New
  <1>6. rows' \subseteq AccountRow /\ Addressed' /\ RowsApart'
    <2>1. N \in SUBSET AccountRow
      BY <1>4
    <2>2. \A row \in rows : relayState'[row.relay].octet = relayState[row.relay].octet
      BY <1>0, <1>3 DEF AccountTypes, AccountRow
    <2>3. \A n \in N : n.octet = relayState'[n.relay].octet
      BY <1>3, <1>4
    <2>4. \A n \in N : \A old \in rows :
             n.relay = old.relay => n.host # old.host /\ n.login # old.login
      BY <1>4 DEF FreeHosts, Of
    <2>5. \A n, m \in N : n.relay = m.relay /\ (n.host = m.host \/ n.login = m.login) => n = m
      BY <1>4
    <2> HIDE DEF N
    <2> QED
      BY <1>5, <2>1, <2>2, <2>3, <2>4, <2>5, RowsAdded
  <1>7. AccountTypes'
    <2>1. Known' = Known \/ Known' = Known \cup {login}
      <3>1. CASE nodes = {}
        BY <1>5, <3>1 DEF Known
      <3>2. CASE nodes # {}
        BY <1>4, <1>5, <3>2 DEF Known
      <3> QED
        BY <3>1, <3>2
    <2>2. IsFiniteSet(Known')
      BY <1>0, <2>1, FS_AddElement DEF AccountTypes
    <2> QED
      BY <1>0, <1>2, <1>3, <1>6, <2>2 DEF AccountTypes
  \* What was known of the account had reached every ready relay.
  <1>8. ASSUME NEW old \in rows, old.login = login, login \notin unsure
        PROVE  nodes = {}
    <2> SUFFICES ASSUME NEW r \in nodes PROVE FALSE
      OBVIOUS
    <2>1. r \in Relay /\ ReadyRelay(r)
      BY <1>4 DEF Installed, ReadyRelay
    <2> QED
      BY <1>0, <1>4, <1>8, <2>1 DEF Served, Of
  <1>9. unsure \subseteq unsure'
    BY <1>1
  <1>10. OnePassword'
    <2> SUFFICES ASSUME NEW a \in rows', NEW b \in rows', a.login = b.login, a.login \notin unsure'
                 PROVE  a.password = b.password
      BY DEF OnePassword
    <2>1. CASE a \in rows /\ b \in rows
      BY <1>0, <1>9, <2>1 DEF OnePassword
    <2>2. CASE a \in N /\ b \in N
      BY <1>4, <2>2
    <2>3. CASE a \in N /\ b \in rows
      BY <1>4, <1>8, <1>9, <2>3
    <2>4. CASE a \in rows /\ b \in N
      BY <1>4, <1>8, <1>9, <2>4
    <2> QED
      BY <1>5, <2>1, <2>2, <2>3, <2>4
  <1>11. Served'
    <2> SUFFICES ASSUME NEW s \in Relay, ReadyRelay(s)', NEW row \in rows', row.login \notin unsure'
                 PROVE  \E mine \in rows' : mine.relay = s /\ mine.login = row.login
      BY DEF Served
    <2>1. ReadyRelay(s) /\ row.login \notin unsure
      BY <1>3, <1>9
    <2>2. CASE row \in rows
      BY <1>0, <1>5, <2>1, <2>2 DEF Served
    <2>3. CASE row \in N
      <3>1. row.login = login /\ login \notin unsure'
        BY <1>4, <2>3
      <3>2. nodes = wanted /\ installing = {}
        BY <1>1, <3>1
      <3>3. s \in Installed
        BY <2>1, <3>2 DEF ReadyRelay, Installed
      <3>4. CASE s \in wanted
        <4>1. New(s) \in rows' /\ New(s).relay = s /\ New(s).login = login
          BY <1>4, <1>5, <3>2, <3>4
        <4> QED
          BY <3>1, <4>1
      <3>5. CASE s \notin wanted
        BY <1>5, <3>1, <3>3, <3>5 DEF Of
      <3> QED
        BY <3>4, <3>5
    <2> QED
      BY <1>5, <2>2, <2>3
  <1> QED
    BY <1>3, <1>6, <1>7, <1>10, <1>11 DEF AccountsInv

LEMMA DeleteStep ==
  ASSUME AccountsInv, NEW login \in Login, DeleteAccount(login)
  PROVE  AccountsInv'
  <1>0. /\ AccountTypes /\ Desired /\ Addressed /\ RowsApart /\ OnePassword
        /\ OpsPast /\ Served /\ PathsApart /\ OnPath
    BY DEF AccountsInv
  <1> DEFINE nodes == {row.relay : row \in {x \in rows : x.login = login}}
  <1>1. PICK some \in SUBSET nodes :
           /\ rows' = {row \in rows : row.login # login \/ row.relay \notin some}
           /\ relayState' = Bumped(some \cap Installed \cap isRelay)
           /\ \/ some = nodes /\ unsure' = unsure \ {login}
              \/ unsure' = unsure \cup {login}
    BY DEF DeleteAccount
  <1>2. UNCHANGED <<groupPaths, installing>>
    BY DEF DeleteAccount
  <1>3. /\ relayState' \in [Relay -> StateOfRelay]
        /\ \A s \in Relay : relayState'[s].octet = relayState[s].octet
        /\ Desired' /\ OpsPast' /\ PathsApart' /\ OnPath'
        /\ \A s \in Relay : ReadyRelay(s)' => ReadyRelay(s)
    BY <1>1, <1>2, BumpedStep
  <1>4. rows' \subseteq rows
    BY <1>1
  \* The records that count are those of other accounts.
  <1>5. ASSUME NEW row \in rows', row.login \notin unsure'
        PROVE  row.login # login /\ row.login \notin unsure
    BY <1>1, <1>4, <1>5
  <1>6. AccountTypes'
    <2>1. Known' \subseteq Known
      BY <1>4 DEF Known
    <2>2. IsFiniteSet(Known')
      BY <1>0, <2>1, FS_Subset DEF AccountTypes
    <2> QED
      BY <1>0, <1>2, <1>3, <1>4, <2>2 DEF AccountTypes
  <1>7. Addressed' /\ RowsApart' /\ OnePassword'
    <2>1. Addressed'
      BY <1>0, <1>3, <1>4 DEF Addressed, AccountTypes, AccountRow
    <2>2. RowsApart'
      BY <1>0, <1>4 DEF RowsApart
    <2>3. OnePassword'
      BY <1>0, <1>4, <1>5 DEF OnePassword
    <2> QED
      BY <2>1, <2>2, <2>3
  <1>8. Served'
    <2> SUFFICES ASSUME NEW s \in Relay, ReadyRelay(s)', NEW row \in rows', row.login \notin unsure'
                 PROVE  \E mine \in rows' : mine.relay = s /\ mine.login = row.login
      BY DEF Served
    <2>1. PICK mine \in rows : mine.relay = s /\ mine.login = row.login
      BY <1>0, <1>3, <1>4, <1>5 DEF Served
    <2>2. mine \in rows'
      BY <1>1, <1>5, <2>1
    <2> QED
      BY <2>1, <2>2
  <1> QED
    BY <1>3, <1>6, <1>7, <1>8 DEF AccountsInv

LEMMA AccountsInitInv == AccountsInit => AccountsInv
  <1> SUFFICES ASSUME AccountsInit PROVE AccountsInv
    OBVIOUS
  <1>1. rows = {} /\ groupPaths = {} /\ installing = {} /\ Known = {}
    BY DEF AccountsInit, Known
  <1>2. \A r \in Relay : relayState[r].status = "none" /\ ~relayState[r].desired
    BY DEF AccountsInit
  <1>3. AccountTypes
    <2>1. relayState \in [Relay -> StateOfRelay]
      BY DEF AccountsInit, StateOfRelay
    <2> QED
      BY <1>1, <2>1, FS_EmptySet DEF AccountTypes
  <1>4. Desired /\ OnPath
    BY <1>2 DEF Desired, OnPath
  <1> QED
    BY <1>1, <1>3, <1>4 DEF AccountsInv, Addressed, RowsApart, OnePassword, OpsPast, Served, PathsApart

LEMMA AccountsNextInv == AccountsInv /\ [AccountsNext]_accountVars => AccountsInv'
  <1> SUFFICES ASSUME AccountsInv, [AccountsNext]_accountVars PROVE AccountsInv'
    OBVIOUS
  <1>1. ASSUME NEW r \in Relay, InstallRelay(r) PROVE AccountsInv'
    BY <1>1, InstallStep
  <1>2. ASSUME NEW r \in Relay, UninstallRelay(r) PROVE AccountsInv'
    BY <1>2, UninstallStep
  <1>3. CASE /\ UNCHANGED <<relayState, rows, groupPaths, installing, unsure>>
    BY <1>3 DEF AccountsInv, AccountTypes, Known, Desired, Addressed, RowsApart, OnePassword,
       OpsPast, Served, ReadyRelay, PathsApart, OnPath
  <1>4. ASSUME NEW r \in Relay, ChangeRole(r) PROVE AccountsInv'
    BY <1>3, <1>4 DEF ChangeRole
  <1>5. ASSUME NEW op \in installing, FinishInstall(op) PROVE AccountsInv'
    BY <1>5, FinishInstallStep
  <1>6. ASSUME NEW l \in Login, DeleteAccount(l) PROVE AccountsInv'
    BY <1>6, DeleteStep
  <1>7. ASSUME NEW l \in Login, NEW p \in Password, CreateAccount(l, p) PROVE AccountsInv'
    BY <1>7, CreateStep
  <1>8. CASE UNCHANGED accountVars
    BY <1>3, <1>8 DEF accountVars
  <1> QED
    BY <1>1, <1>2, <1>4, <1>5, <1>6, <1>7, <1>8 DEF AccountsNext

LEMMA AccountsInvServes == AccountsInv => InstalledRelayServes
  <1> SUFFICES ASSUME AccountsInv, NEW r \in Installed
               PROVE  /\ \A row \in rows : row.login \notin unsure =>
                            \E mine \in Of(r) : mine.login = row.login /\ mine.password = row.password
                      /\ \A a, b \in Of(r) : /\ a.octet = relayState[r].octet
                                             /\ (a.host = b.host \/ a.login = b.login) => a = b
                      /\ relayState[r].key = 1
                      /\ Cardinality({p \in groupPaths : Covers(p, Head(ChainOf[r]))}) = 1
    BY DEF InstalledRelayServes
  <1>1. r \in Relay /\ ReadyRelay(r) /\ relayState[r].desired /\ relayState[r].key = 1
    BY DEF Installed, ReadyRelay, AccountsInv, Desired
  <1>2. ASSUME NEW row \in rows, row.login \notin unsure
        PROVE  \E mine \in Of(r) : mine.login = row.login /\ mine.password = row.password
    <2>1. PICK mine \in rows : mine.relay = r /\ mine.login = row.login
      BY <1>1, <1>2 DEF AccountsInv, Served
    <2>2. mine.password = row.password
      BY <1>2, <2>1 DEF AccountsInv, OnePassword
    <2> QED
      BY <2>1, <2>2 DEF Of
  <1>3. \A a, b \in Of(r) : /\ a.octet = relayState[r].octet
                            /\ (a.host = b.host \/ a.login = b.login) => a = b
    BY DEF AccountsInv, Addressed, RowsApart, Of
  <1>4. Cardinality({p \in groupPaths : Covers(p, Head(ChainOf[r]))}) = 1
    <2>1. PICK p \in groupPaths : Covers(p, Head(ChainOf[r]))
      BY <1>1 DEF AccountsInv, OnPath
    <2>2. {q \in groupPaths : Covers(q, Head(ChainOf[r]))} = {p}
      BY <1>1, <2>1 DEF AccountsInv, PathsApart
    <2> QED
      BY <2>2, FS_Singleton
  <1> QED
    BY <1>1, <1>2, <1>3, <1>4

\* However relays were installed, torn down and installed again, at whatever
\* point requests broke off, an installed relay serves what InstalledRelayServes
\* says, for every set of relays, logins and addresses.
THEOREM InstalledRelayServesHolds == AccountsSpec => []InstalledRelayServes
  <1>1. AccountsSpec => []AccountsInv
    BY AccountsInitInv, AccountsNextInv, PTL DEF AccountsSpec
  <1> QED
    BY <1>1, AccountsInvServes, PTL
=============================================================================
