------------------------------ MODULE SshPool ------------------------------
(***************************************************************************)
(* The SSH connections of the panel to one node: the pool's shared one     *)
(* (sshPoolService.js), and the direct ones a session falls back to        *)
(* (nodeSSH.js), whose handshakes share the slots of a global semaphore.   *)
(*                                                                         *)
(* An attempt is one call of createConnection: its ssh2 client, its timer  *)
(* and its promise.  ssh2 raises 'error' at most once for a client, and    *)
(* may close one without it.                                               *)
(***************************************************************************)
EXTENDS Integers, Sequences, FiniteSets

CONSTANTS
    Session,        \* NodeSSH objects
    MaxRetries,     \* config.maxRetries
    MaxDirect,      \* SSH_DIRECT_MAX_CONCURRENT
    MaxAttempts,    \* bound on the attempts of the pool
    MaxLineFaults   \* bound on what goes wrong

ASSUME PoolAssumption ==
    /\ {MaxRetries, MaxDirect, MaxAttempts, MaxLineFaults} \subseteq Nat /\ MaxDirect > 0
    /\ IsFiniteSet(Session)

VARIABLES
    attempt,      \* the attempts so far, in order
    entry,        \* the pool's entry of this node
    session,
    slotsUsed,    \* NodeSSH._activeDirect
    slotQueue,    \* NodeSSH._waitQueue
    lineFaults

poolVars == <<attempt, entry, session, slotsUsed, slotQueue, lineFaults>>

NoEntry == [id |-> 0, ready |-> FALSE]
Failed  == -1
Pending == 0
Attempts == DOMAIN attempt

PoolInit ==
    /\ attempt = <<>> /\ entry = NoEntry
    /\ session = [s \in Session |-> [at |-> "idle"]]
    /\ slotsUsed = 0 /\ slotQueue = <<>> /\ lineFaults = 0

LineFault == lineFaults < MaxLineFaults /\ lineFaults' = lineFaults + 1

\* The attempt a's client is ended, if it still runs.
EndedIn(all, a) ==
    IF a = 0 \/ all[a].client \notin {"connecting", "ready"} THEN all
    ELSE [all EXCEPT ![a].client = "closing"]

\* What the promise of a has come to: its own outcome, or that of its retry.
Outcome[a \in Attempts] ==
    IF attempt[a].outcome # Pending \/ attempt[a].retry = 0 THEN attempt[a].outcome
    ELSE Outcome[attempt[a].retry]

----------------------------------------------------------------------------
(* createConnection and the handlers it installs.                          *)

NewAttempt(n) ==
    [client |-> "connecting", timer |-> TRUE, outcome |-> Pending, tries |-> n,
     erred |-> FALSE, backoff |-> FALSE, retry |-> 0, overtaken |-> FALSE]

\* The placeholder replaces whatever entry there is.  connect() may throw.
Created(all, n) ==
    Append([a \in DOMAIN all |->
               [all[a] EXCEPT !.overtaken = @ \/ (entry.id = a /\ all[a].client \in {"connecting", "ready"})]],
           NewAttempt(n))

Placeholder == [id |-> Len(attempt) + 1, ready |-> FALSE]
Throws(all) == [all EXCEPT ![Len(all)] = [@ EXCEPT !.client = "closed", !.timer = FALSE, !.outcome = Failed]]

CreateFrom(all, n) ==
    /\ Len(attempt) < MaxAttempts
    /\ \/ attempt' = Created(all, n) /\ entry' = Placeholder /\ UNCHANGED lineFaults
       \/ attempt' = Throws(Created(all, n)) /\ entry' = NoEntry /\ LineFault

\* 'ready'
Ready(a) ==
    /\ attempt[a].client = "connecting"
    /\ attempt' = [attempt EXCEPT ![a] = [@ EXCEPT !.client = "ready", !.timer = FALSE, !.outcome = a]]
    /\ entry' = IF entry.id \in {0, a} THEN [id |-> a, ready |-> TRUE] ELSE entry
    /\ UNCHANGED <<session, slotsUsed, slotQueue, lineFaults>>

\* The timer ends the client and fails the promise, and leaves the placeholder
\* to the client's 'close'.
TimesOut(a) ==
    /\ attempt[a].timer
    /\ attempt' = EndedIn([attempt EXCEPT ![a].timer = FALSE, ![a].outcome = Failed], a)
    /\ UNCHANGED <<entry, session, slotsUsed, slotQueue, lineFaults>>

\* Whose entry it is is not looked at.
WithoutAny(a) == NoEntry

\* The entry once a's client is gone.
EntryWithout(a) == IF entry.id = a THEN NoEntry ELSE entry

\* 'error', during the handshake, after the timer, or on a connection in use.
ErrorOn(a) ==
    /\ attempt[a].client # "closed" /\ ~attempt[a].erred
    /\ LineFault
    /\ LET again == attempt[a].tries < MaxRetries
       IN attempt' = [attempt EXCEPT ![a] = [@ EXCEPT
              !.client = "closing", !.erred = TRUE, !.timer = FALSE, !.backoff = again,
              !.outcome = IF attempt[a].outcome = Pending /\ ~again THEN Failed
                          ELSE attempt[a].outcome]]
    /\ entry' = EntryWithout(a)
    /\ UNCHANGED <<session, slotsUsed, slotQueue>>

\* The retry after the back-off, asked for or not.
Retry(a) ==
    /\ attempt[a].backoff
    /\ CreateFrom([attempt EXCEPT ![a].backoff = FALSE, ![a].retry = Len(attempt) + 1],
                  attempt[a].tries + 1)
    /\ UNCHANGED <<session, slotsUsed, slotQueue>>

\* 'end' and 'close'
Close(a) ==
    /\ attempt[a].client # "closed"
    /\ IF attempt[a].client = "closing" THEN UNCHANGED lineFaults ELSE LineFault
    /\ attempt' = [attempt EXCEPT ![a].client = "closed"]
    /\ entry' = EntryWithout(a)
    /\ UNCHANGED <<session, slotsUsed, slotQueue>>

----------------------------------------------------------------------------
(* getConnection and removeConnection.                                     *)

\* Session s, in state at, asks for the connection: it waits for the handshake
\* under way, has the live connection, or starts over.
GetConnection(s, at) ==
    LET waitsFor(a) == session' = [session EXCEPT ![s] = [at |-> at, on |-> a]]
        live == entry.ready /\ attempt[entry.id].client = "ready"
    IN \/ /\ entry.id # 0 /\ (~entry.ready \/ live)
          /\ waitsFor(entry.id)
          /\ UNCHANGED <<attempt, entry, lineFaults>>
       \/ /\ entry.id = 0 \/ (entry.ready /\ ~live)
          /\ CreateFrom(attempt, 0)
          /\ waitsFor(Len(attempt) + 1)

\* removeConnection: the idle clean-up, whoever uses the connection, and the
\* shutdown.
RemoveConnection ==
    /\ entry.id # 0
    /\ LineFault
    /\ attempt' = EndedIn(attempt, entry.id)
    /\ entry' = NoEntry
    /\ UNCHANGED <<session, slotsUsed, slotQueue>>

----------------------------------------------------------------------------
(* NodeSSH.                                                                *)

\* connect(), through the pool; a pool that is switched off sends the session
\* the direct way.
Connect(s) ==
    /\ session[s].at = "idle"
    /\ \/ GetConnection(s, "connect")
       \/ /\ LineFault
          /\ session' = [session EXCEPT ![s] = [at |-> "fallback"]]
          /\ UNCHANGED <<attempt, entry>>
    /\ UNCHANGED <<slotsUsed, slotQueue>>

\* The promise connect() waits for settles; a failure sends it the direct way.
Connected(s) ==
    /\ session[s].at = "connect"
    /\ Outcome[session[s].on] # Pending
    /\ session' = [session EXCEPT ![s] =
           [at |-> IF Outcome[session[s].on] = Failed THEN "fallback" ELSE "pooled"]]
    /\ UNCHANGED <<attempt, entry, slotsUsed, slotQueue, lineFaults>>

\* exec(), writeFile() and readFile() ask the pool once more.
Command(s) ==
    /\ session[s].at = "pooled"
    /\ GetConnection(s, "command")
    /\ UNCHANGED <<slotsUsed, slotQueue>>

CommandRuns(s) ==
    /\ session[s].at = "command"
    /\ Outcome[session[s].on] # Pending
    /\ session' = [session EXCEPT ![s] =
           IF Outcome[session[s].on] = Failed THEN [at |-> "pooled"]
           ELSE [at |-> "runs", on |-> Outcome[session[s].on]]]
    /\ UNCHANGED <<attempt, entry, slotsUsed, slotQueue, lineFaults>>

\* It ends, or its time is up, or its channel closes.
CommandEnds(s) ==
    /\ session[s].at = "runs"
    /\ \E at \in {"pooled", "idle"} : session' = [session EXCEPT ![s] = [at |-> at]]
    /\ UNCHANGED <<attempt, entry, slotsUsed, slotQueue, lineFaults>>

\* The channel does not open: the pool's entry goes, whichever client it names.
ChannelFails(s) ==
    /\ session[s].at = "runs"
    /\ IF attempt[session[s].on].client = "ready" THEN LineFault ELSE UNCHANGED lineFaults
    /\ attempt' = EndedIn(attempt, entry.id)
    /\ entry' = NoEntry
    /\ session' = [session EXCEPT ![s] = [at |-> "pooled"]]
    /\ UNCHANGED <<slotsUsed, slotQueue>>

\* _acquireDirectSlot
AcquireSlot(s) ==
    /\ session[s].at = "fallback"
    /\ IF slotsUsed < MaxDirect
       THEN /\ slotsUsed' = slotsUsed + 1
            /\ session' = [session EXCEPT ![s] = [at |-> "dials", tries |-> 0]]
            /\ UNCHANGED slotQueue
       ELSE /\ slotQueue' = Append(slotQueue, s)
            /\ session' = [session EXCEPT ![s] = [at |-> "queued"]]
            /\ UNCHANGED slotsUsed
    /\ UNCHANGED <<attempt, entry, lineFaults>>

\* _connectDirectWithRetry: a handshake fails and is tried again after a
\* back-off that keeps the slot; one whose connection closes without an 'error'
\* is waited for for ever.
DialFails(s) ==
    /\ session[s].at = "dials" /\ session[s].tries < MaxRetries
    /\ LineFault
    /\ session' = [session EXCEPT ![s].tries = @ + 1]
    /\ UNCHANGED <<attempt, entry, slotsUsed, slotQueue>>

DialHangs(s) ==
    /\ session[s].at = "dials"
    /\ LineFault
    /\ session' = [session EXCEPT ![s] = [at |-> "hangs"]]
    /\ UNCHANGED <<attempt, entry, slotsUsed, slotQueue>>

\* _releaseDirectSlot: the slot goes to the first that waits.
SlotsLeft == IF slotQueue # <<>> THEN slotsUsed ELSE slotsUsed - 1

ReleaseSlot(s, at) ==
    /\ session[s].at = "dials"
    /\ slotsUsed' = SlotsLeft
    /\ session' = [t \in Session |->
           IF t = s THEN [at |-> at]
           ELSE IF slotQueue # <<>> /\ t = slotQueue[1] THEN [at |-> "dials", tries |-> 0]
           ELSE session[t]]
    /\ slotQueue' = IF slotQueue # <<>> THEN Tail(slotQueue) ELSE slotQueue
    /\ UNCHANGED <<attempt, entry>>

Dialled(s)     == ReleaseSlot(s, "direct") /\ UNCHANGED lineFaults
DialGivesUp(s) == session[s].at = "dials" /\ session[s].tries = MaxRetries
                  /\ LineFault /\ ReleaseSlot(s, "idle")

\* disconnect() ends a direct client and leaves the pool's alone.
Disconnect(s) ==
    /\ session[s].at \in {"direct", "pooled"}
    /\ session' = [session EXCEPT ![s] = [at |-> "idle"]]
    /\ UNCHANGED <<attempt, entry, slotsUsed, slotQueue, lineFaults>>

PoolNext ==
    \/ \E a \in Attempts : Ready(a) \/ TimesOut(a) \/ ErrorOn(a) \/ Retry(a) \/ Close(a)
    \/ RemoveConnection
    \/ \E s \in Session :
          \/ Connect(s) \/ Connected(s) \/ Command(s) \/ CommandRuns(s) \/ CommandEnds(s)
          \/ ChannelFails(s) \/ AcquireSlot(s) \/ DialFails(s) \/ DialHangs(s)
          \/ Dialled(s) \/ DialGivesUp(s) \/ Disconnect(s)

PoolSpec == PoolInit /\ [][PoolNext]_poolVars

----------------------------------------------------------------------------
\* A connection that is up is the pool's, which closes it when it is idle; only
\* a retry, which nobody may have asked for, takes the place of another attempt.
NoClientLost ==
    \A a \in Attempts : attempt[a].client = "ready" => entry.id = a \/ attempt[a].overtaken

\* a and the retries its promise hangs on: the least set that is closed under
\* retry.
Retries(a) ==
    {b \in Attempts : \A C \in SUBSET Attempts :
        a \in C /\ (\A c \in C : attempt[c].retry \in Attempts => attempt[c].retry \in C) => b \in C}

WillAnswer(a) == attempt[a].outcome # Pending \/ attempt[a].timer \/ attempt[a].backoff

\* Whoever waits for a handshake will hear of it: along the chain of retries
\* there is an outcome, a timer or a back-off.
NoSessionStranded ==
    \A s \in Session : session[s].at \in {"connect", "command"} =>
        \E b \in Retries(session[s].on) : WillAnswer(b)

\* The semaphore counts the direct handshakes, never lets in more than its
\* slots, and lets nobody wait while one is free.
SlotsAccounted ==
    /\ slotsUsed = Cardinality({s \in Session : session[s].at \in {"dials", "hangs"}})
    /\ slotsUsed <= MaxDirect
    /\ slotQueue # <<>> => slotsUsed = MaxDirect

\* However dials, retries, time-outs, errors and closings of one connection
\* follow each other, the pool knows its connection, answers whoever waits for
\* it, and counts the direct connections it lets in.
PoolIsSound == NoClientLost /\ NoSessionStranded /\ SlotsAccounted

============================================================================
