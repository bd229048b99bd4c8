--------------------------- MODULE ExpireScheduler ---------------------------
(***************************************************************************)
(* The end of subscriptions: one timer for the nearest expiry, a sweep that *)
(* disables whoever is overdue, and the watchdog behind them.  Sweeping and *)
(* re-arming are each done by at most one run at a time; who asks meanwhile *)
(* shares the run under way.                                                *)
(***************************************************************************)
EXTENDS Naturals, FiniteSets

CONSTANTS Subscriber,
          MaxTime,        \* bound: the clock
          MaxDelay,       \* the longest timer the runtime can hold
          MaxSaves,       \* bound: changes of subscriptions
          MaxRestarts,    \* bound: restarts of the panel
          MaxDbFaults     \* bound: rejected queries

ASSUME ExpiryAssumption == /\ {MaxTime, MaxSaves, MaxRestarts, MaxDbFaults} \subseteq Nat
                           /\ MaxDelay \in Nat \ {0}

Time == 0..MaxTime
Never == MaxTime + 1   \* no expiry, no timer

VARIABLES clock,
          subscription,  \* the users' documents, and whether the scheduler was told
          note,          \* saves whose writer has not told the scheduler yet
          armed,         \* timers the runtime holds: when they fire
          handle,        \* the timer the scheduler knows
          nextAt,        \* the expiry it was armed for
          arming,        \* the run of scheduleNext: "idle", "read", or what it read
          sweeping,      \* the run of processExpired: "idle", "read", or who is overdue
          waiting,       \* who awaits the sweep
          up,            \* the panel: "down", "booting", "up"
          budget

expiryVars == <<clock, subscription, note, armed, handle, nextAt, arming, sweeping, waiting,
                up, budget>>

ExpiryInit ==
    /\ clock = 0
    /\ subscription = [u \in Subscriber |-> [enabled |-> FALSE, expireAt |-> Never, told |-> TRUE]]
    /\ note = {}
    /\ armed = {}
    /\ handle = Never /\ nextAt = Never
    /\ arming = [at |-> "idle", next |-> Never]
    /\ sweeping = [at |-> "idle", overdue |-> {}]
    /\ waiting = {}
    /\ up = "down"
    /\ budget = [saves |-> 0, restarts |-> 0, faults |-> 0]

Overdue(u) == subscription[u].enabled /\ subscription[u].expireAt <= clock
Upcoming == {u \in Subscriber : subscription[u].enabled /\ subscription[u].expireAt > clock}
Nearest == CHOOSE t \in {Never} \cup {subscription[u].expireAt : u \in Upcoming} :
              \A u \in Upcoming : t <= subscription[u].expireAt

Spend(what) == budget' = [budget EXCEPT ![what] = @ + 1]

-----------------------------------------------------------------------------
(* scheduleNext and processExpired, begun or joined.                         *)

\* Bug: the timer in place is forgotten, not cleared.
ArmOverOld == IF arming.at # "idle" THEN UNCHANGED <<arming, armed, handle, nextAt>>
              ELSE /\ arming' = [at |-> "read", next |-> Never]
                   /\ armed' = armed
                   /\ handle' = Never /\ nextAt' = Never

Arm == IF arming.at # "idle" THEN UNCHANGED <<arming, armed, handle, nextAt>>
       ELSE /\ arming' = [at |-> "read", next |-> Never]
            /\ armed' = armed \ {handle}
            /\ handle' = Never /\ nextAt' = Never

Sweep(caller) ==
    /\ waiting' = waiting \cup {caller}
    /\ sweeping' = IF sweeping.at = "idle" THEN [at |-> "read", overdue |-> {}] ELSE sweeping

ReadNearest ==
    /\ arming.at = "read"
    /\ arming' = [at |-> "read it", next |-> Nearest]
    /\ UNCHANGED <<clock, subscription, note, armed, handle, nextAt, sweeping, waiting, up, budget>>

\* A timer that is far away is cut short and only arms the next one.
SetTimer ==
    /\ arming.at = "read it"
    /\ LET at == IF arming.next = Never THEN Never
                 ELSE IF arming.next <= clock THEN clock
                 ELSE IF arming.next - clock > MaxDelay THEN clock + MaxDelay ELSE arming.next
       IN  /\ handle' = at
           /\ armed' = IF at = Never THEN armed ELSE armed \cup {at}
           /\ nextAt' = arming.next
    /\ arming' = [at |-> "idle", next |-> Never]
    /\ UNCHANGED <<clock, subscription, note, sweeping, waiting, up, budget>>

ArmFails ==
    /\ arming.at = "read" /\ budget.faults < MaxDbFaults
    /\ Spend("faults")
    /\ arming' = [at |-> "idle", next |-> Never]
    /\ UNCHANGED <<clock, subscription, note, armed, handle, nextAt, sweeping, waiting, up>>

FindOverdue ==
    /\ sweeping.at = "read"
    /\ sweeping' = [at |-> "disable", overdue |-> {u \in Subscriber : Overdue(u)}]
    /\ UNCHANGED <<clock, subscription, note, armed, handle, nextAt, arming, waiting, up, budget>>

\* Only a user still enabled is disabled, whatever the expiry is by now; one
\* whose update fails is left to the next sweep.
DisableUser(u) ==
    /\ sweeping.at = "disable" /\ u \in sweeping.overdue
    /\ sweeping' = [sweeping EXCEPT !.overdue = @ \ {u}]
    /\ \/ subscription' = [subscription EXCEPT ![u].enabled = FALSE] /\ UNCHANGED budget
       \/ budget.faults < MaxDbFaults /\ Spend("faults") /\ UNCHANGED subscription
    /\ UNCHANGED <<clock, note, armed, handle, nextAt, arming, waiting, up>>

\* Everyone who awaited the sweep goes on to re-arm the timer.
SweepEnds ==
    /\ sweeping = [at |-> "disable", overdue |-> {}]
    /\ sweeping' = [at |-> "idle", overdue |-> {}]
    /\ waiting' = {}
    /\ Arm
    /\ up' = "up"
    /\ UNCHANGED <<clock, subscription, note, budget>>

\* Bug: the run that failed is still taken for the one under way.
SweepFailsForGood ==
    /\ sweeping.at = "read" /\ budget.faults < MaxDbFaults
    /\ Spend("faults")
    /\ sweeping' = [at |-> "failed", overdue |-> {}]
    /\ waiting' = {}
    /\ UNCHANGED <<clock, subscription, note, armed, handle, nextAt, arming, up>>

\* If its query failed, the timer and a writer go on, the others give up.
SweepFails ==
    /\ sweeping.at = "read" /\ budget.faults < MaxDbFaults
    /\ Spend("faults")
    /\ sweeping' = [at |-> "idle", overdue |-> {}]
    /\ waiting' = {}
    /\ IF waiting \cap {"timer", "past"} # {} THEN Arm
       ELSE UNCHANGED <<arming, armed, handle, nextAt>>
    /\ up' = "up"
    /\ UNCHANGED <<clock, subscription, note>>

-----------------------------------------------------------------------------
(* Who asks.                                                                 *)

Boot ==
    /\ up = "down"
    /\ up' = "booting"
    /\ Sweep("boot")
    /\ UNCHANGED <<clock, subscription, note, armed, handle, nextAt, arming, budget>>

\* The watchdog's cron job; one that finds an earlier one waiting changes nothing.
Watchdog ==
    /\ up = "up" /\ "watchdog" \notin waiting
    /\ Sweep("watchdog")
    /\ UNCHANGED <<clock, subscription, note, armed, handle, nextAt, arming, up, budget>>

TimerFires ==
    \E t \in armed :
       /\ t <= clock
       /\ armed' = armed \ {t}
       /\ Sweep("timer")
       /\ UNCHANGED <<clock, subscription, note, handle, nextAt, arming, up, budget>>

\* Creating or editing a user tells the scheduler of the expiry, enabling one
\* does not.
SaveSubscription(u) ==
    /\ up = "up" /\ budget.saves < MaxSaves
    /\ Spend("saves")
    /\ \/ \E t \in Time, on \in {TRUE, subscription[u].enabled} :
             /\ subscription' = [subscription EXCEPT
                                   ![u] = [enabled |-> on, expireAt |-> t, told |-> TRUE]]
             /\ note' = note \cup {t}
       \/ /\ ~subscription[u].enabled
          /\ subscription' = [subscription EXCEPT ![u].enabled = TRUE, ![u].told = FALSE]
          /\ UNCHANGED note
    /\ UNCHANGED <<clock, armed, handle, nextAt, arming, sweeping, waiting, up>>

Notify ==
    \E t \in note :
       /\ note' = note \ {t}
       /\ IF t <= clock
          THEN Sweep("past") /\ UNCHANGED <<armed, handle, nextAt, arming>>
          ELSE /\ IF t < nextAt THEN Arm
                  ELSE UNCHANGED <<armed, handle, nextAt, arming>>
               /\ UNCHANGED <<sweeping, waiting>>
       /\ UNCHANGED <<clock, subscription, up, budget>>

\* All of it but the documents is in memory.
PanelStops ==
    /\ up # "down" /\ budget.restarts < MaxRestarts
    /\ Spend("restarts")
    /\ up' = "down"
    /\ note' = {} /\ armed' = {} /\ handle' = Never /\ nextAt' = Never
    /\ arming' = [at |-> "idle", next |-> Never]
    /\ sweeping' = [at |-> "idle", overdue |-> {}]
    /\ waiting' = {}
    /\ UNCHANGED <<clock, subscription>>

ClockTicks ==
    /\ clock < MaxTime
    /\ clock' = clock + 1
    /\ UNCHANGED <<subscription, note, armed, handle, nextAt, arming, sweeping, waiting, up, budget>>

ExpiryNext ==
    \/ ReadNearest \/ SetTimer \/ ArmFails
    \/ FindOverdue \/ SweepEnds \/ SweepFails
    \/ \E u \in Subscriber : DisableUser(u) \/ SaveSubscription(u)
    \/ Boot \/ Watchdog \/ TimerFires \/ Notify \/ PanelStops \/ ClockTicks

\* The runtime resumes what awaits an answer, the panel is started again, and
\* the cron job comes round; neither its timers nor its callers are owed more.
ExpiryFairness ==
    /\ WF_expiryVars(Boot) /\ WF_expiryVars(Watchdog)
    /\ WF_expiryVars(FindOverdue) /\ WF_expiryVars(SweepEnds)
    /\ \A u \in Subscriber : WF_expiryVars(DisableUser(u))

ExpirySpec == ExpiryInit /\ [][ExpiryNext]_expiryVars
FairExpirySpec == ExpirySpec /\ ExpiryFairness

-----------------------------------------------------------------------------
(* However saves, sweeps, the timer and the watchdog overlap, the runtime    *)
(* never holds more than one timer, and the scheduler knows it.              *)
OneTimer == Cardinality(armed) <= 1 /\ armed \subseteq {handle}

(* Whoever is overdue does not stay enabled with that expiry: through faults *)
(* of the database, restarts and timers that were lost, a sweep comes.       *)
OverdueIsDisabled == \A u \in Subscriber : Overdue(u) ~> ~Overdue(u)

=============================================================================
