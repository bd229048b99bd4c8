-------------------------- MODULE TrafficAccounting --------------------------
(***************************************************************************)
(* The way of a node's traffic into users, node and charts: polls that     *)
(* clear the node's counters as they read them, snapshots that take the    *)
(* difference to the last value seen, and the sums of sums made of them.   *)
(* One node, one user; time goes by in the slots of the shortest snapshots. *)
(***************************************************************************)
LOCAL INSTANCE Naturals
LOCAL INSTANCE FiniteSetsExt

CONSTANTS Poll,           \* polls of the node that may overlap
          MaxSlot,        \* bound: slots
          HourSlots, DayHours,
          MaxCarried,     \* bound: traffic
          MaxPanelStops   \* bound: restarts

ASSUME TrafficAssumption == /\ {MaxSlot, MaxCarried, MaxPanelStops} \subseteq Nat
                            /\ {HourSlots, DayHours} \subseteq Nat \ {0}

Saver == {"startup", "cron", "daily"}
Slot == 0..MaxSlot
HourOf(slot) == slot \div HourSlots
DayOf(slot) == slot \div (HourSlots * DayHours)
Unknown == MaxCarried + 1
NoSave == [at |-> "none", slot |-> 0, seen |-> 0]

VARIABLES slot,
          carried,     \* what the node has carried
          unread,      \* its counters
          poll,        \* per poll: what it read and has still to write where
          userTraffic, nodeTraffic,
          previous,    \* previousTraffic, in memory
          saving,      \* runs of the snapshots
          hourly, daily, monthly,   \* StatsSnapshot: the traffic of each
          lastHourly, lastDaily,    \* in memory: what was saved last
          overlapped,  \* ghost: two runs collected at once
          stops

trafficVars == <<slot, carried, unread, poll, userTraffic, nodeTraffic, previous, saving,
                 hourly, daily, monthly, lastHourly, lastDaily, overlapped, stops>>
snapshots == <<previous, saving, hourly, daily, monthly, lastHourly, lastDaily, overlapped>>

NoPoll == [at |-> "none", read |-> 0]

TrafficInit ==
    /\ slot = 0 /\ carried = 0 /\ unread = 0
    /\ poll = [p \in Poll |-> NoPoll]
    /\ userTraffic = 0 /\ nodeTraffic = 0
    /\ previous = Unknown
    /\ saving = [s \in Saver |-> NoSave]
    /\ hourly = [t \in Slot |-> Unknown]
    /\ daily = [h \in {HourOf(t) : t \in Slot} |-> 0]
    /\ monthly = [d \in {DayOf(t) : t \in Slot} |-> 0]
    /\ lastHourly = Unknown /\ lastDaily = Unknown
    /\ overlapped = FALSE
    /\ stops = 0

-----------------------------------------------------------------------------
(* The node and its polls.                                                   *)

Carry ==
    /\ carried < MaxCarried
    /\ carried' = carried + 1 /\ unread' = unread + 1
    /\ UNCHANGED <<slot, poll, userTraffic, nodeTraffic, snapshots, stops>>

\* Reading clears, also when the answer does not arrive.
PollNode(p) ==
    /\ poll[p].at = "none" /\ unread > 0
    /\ unread' = 0
    /\ poll' \in {poll, [poll EXCEPT ![p] = [at |-> "users", read |-> unread]]}
    /\ UNCHANGED <<slot, carried, userTraffic, nodeTraffic, snapshots, stops>>

\* A failure ends the poll, before the node's share.
WriteUsers(p) ==
    /\ poll[p].at = "users"
    /\ \/ /\ userTraffic' = userTraffic + poll[p].read
          /\ poll' = [poll EXCEPT ![p].at = "node"]
       \/ poll' = [poll EXCEPT ![p] = NoPoll] /\ UNCHANGED userTraffic
    /\ UNCHANGED <<slot, carried, unread, nodeTraffic, snapshots, stops>>

WriteNode(p) ==
    /\ poll[p].at = "node"
    /\ nodeTraffic' \in {nodeTraffic, nodeTraffic + poll[p].read}
    /\ poll' = [poll EXCEPT ![p] = NoPoll]
    /\ UNCHANGED <<slot, carried, unread, userTraffic, snapshots, stops>>

ResetTraffic ==
    /\ userTraffic > 0
    /\ userTraffic' = 0
    /\ UNCHANGED <<slot, carried, unread, poll, nodeTraffic, snapshots, stops>>

-----------------------------------------------------------------------------
(* Snapshots.                                                                *)

\* collectSnapshot reads the node, awaits the count of users, and compares.
Collect(s) ==
    /\ saving' = [saving EXCEPT ![s] = [at |-> "read", slot |-> slot, seen |-> nodeTraffic]]
    /\ overlapped' = (overlapped \/ \E o \in Saver \ {s} : saving[o].at = "read")

BeginHourly(s) ==
    /\ s # "daily" /\ saving[s].at = "none"
    /\ s = "startup" => previous = Unknown /\ lastHourly = Unknown
    /\ lastHourly # slot
    /\ Collect(s)
    /\ UNCHANGED <<slot, carried, unread, poll, userTraffic, nodeTraffic, previous, hourly,
                   daily, monthly, lastHourly, lastDaily, stops>>

\* Bug: the first value after a start counts as a whole.
CompareFromZero(s) ==
    /\ saving[s].at = "read"
    /\ LET seen == saving[s].seen
       IN  /\ saving' = [saving EXCEPT ![s].at = "store", ![s].seen =
                            IF previous # Unknown /\ seen >= previous THEN seen - previous ELSE seen]
           /\ previous' = seen
    /\ UNCHANGED <<slot, carried, unread, poll, userTraffic, nodeTraffic, hourly, daily, monthly,
                   lastHourly, lastDaily, overlapped, stops>>

\* The first value after a start counts for nothing, a smaller one as a whole.
Compare(s) ==
    /\ saving[s].at = "read"
    /\ LET seen == saving[s].seen
       IN  /\ saving' = [saving EXCEPT ![s].at = "store", ![s].seen =
                            IF previous = Unknown THEN 0
                            ELSE IF seen >= previous THEN seen - previous ELSE seen]
           /\ previous' = seen
    /\ UNCHANGED <<slot, carried, unread, poll, userTraffic, nodeTraffic, hourly, daily, monthly,
                   lastHourly, lastDaily, overlapped, stops>>

\* The snapshot of a slot replaces an earlier one; what cannot be stored is lost.
StoreHourly(s) ==
    /\ s # "daily" /\ saving[s].at = "store"
    /\ \/ /\ hourly' = [hourly EXCEPT ![saving[s].slot] = saving[s].seen]
          /\ lastHourly' = saving[s].slot
       \/ UNCHANGED <<hourly, lastHourly>>
    /\ saving' = [saving EXCEPT ![s] = NoSave]
    /\ UNCHANGED <<slot, carried, unread, poll, userTraffic, nodeTraffic, previous, daily, monthly,
                   lastDaily, overlapped, stops>>

\* Every hour, of the slots of the hour before; without any a snapshot of its own.
SaveDaily ==
    /\ slot % HourSlots = 0 /\ saving["daily"].at = "none"
    /\ lastDaily # HourOf(slot)
    /\ LET last == {t \in Slot : HourOf(t) + 1 = HourOf(slot) /\ hourly[t] # Unknown}
       IN  IF last = {} THEN Collect("daily") /\ UNCHANGED <<daily, lastDaily>>
           ELSE /\ daily' = [daily EXCEPT ![HourOf(slot)] =
                                MapThenSumSet(LAMBDA t : hourly[t], last)]
                /\ lastDaily' = HourOf(slot)
                /\ UNCHANGED <<saving, overlapped>>
    /\ UNCHANGED <<slot, carried, unread, poll, userTraffic, nodeTraffic, previous, hourly, monthly,
                   lastHourly, stops>>

StoreDaily ==
    /\ saving["daily"].at = "store"
    /\ LET hour == HourOf(saving["daily"].slot)
       IN  /\ daily' = [daily EXCEPT ![hour] = saving["daily"].seen]
           /\ lastDaily' = hour
    /\ saving' = [saving EXCEPT !["daily"] = NoSave]
    /\ UNCHANGED <<slot, carried, unread, poll, userTraffic, nodeTraffic, previous, hourly, monthly,
                   lastHourly, overlapped, stops>>

\* Shortly after midnight, of the day before.
SaveMonthly ==
    /\ DayOf(slot) > 0
    /\ LET hours == {h \in DOMAIN daily : DayOf(h * HourSlots) + 1 = DayOf(slot)}
       IN  monthly' = [monthly EXCEPT ![DayOf(slot)] = MapThenSumSet(LAMBDA h : daily[h], hours)]
    /\ UNCHANGED <<slot, carried, unread, poll, userTraffic, nodeTraffic, previous, saving, hourly,
                   daily, lastHourly, lastDaily, overlapped, stops>>

RestartPanel ==
    /\ stops < MaxPanelStops /\ stops' = stops + 1
    /\ poll' = [p \in Poll |-> NoPoll]
    /\ previous' = Unknown
    /\ saving' = [s \in Saver |-> NoSave]
    /\ lastHourly' = Unknown /\ lastDaily' = Unknown
    /\ UNCHANGED <<slot, carried, unread, userTraffic, nodeTraffic, hourly, daily, monthly,
                   overlapped>>

NextSlot ==
    /\ slot < MaxSlot
    /\ slot' = slot + 1
    /\ UNCHANGED <<carried, unread, poll, userTraffic, nodeTraffic, snapshots, stops>>

\* Nothing is said, and nothing followed, of what comes after an overlap.
TrafficNext ==
    /\ ~overlapped
    /\ \/ Carry \/ ResetTraffic \/ NextSlot \/ RestartPanel
       \/ \E p \in Poll : PollNode(p) \/ WriteUsers(p) \/ WriteNode(p)
       \/ \E s \in Saver : BeginHourly(s) \/ Compare(s) \/ StoreHourly(s)
       \/ SaveDaily \/ StoreDaily \/ SaveMonthly

TrafficSpec == TrafficInit /\ [][TrafficNext]_trafficVars

-----------------------------------------------------------------------------
Total(f) == MapThenSumSet(LAMBDA i : IF f[i] = Unknown THEN 0 ELSE f[i], DOMAIN f)

(* However polls overlap, answers get lost, saves fail and the panel is      *)
(* restarted, no traffic is counted twice: not for the user, not for the     *)
(* node, and not in any of the charts, unless two snapshots collect at once. *)
CountedOnce ==
    /\ userTraffic <= carried /\ nodeTraffic <= carried
    /\ ~overlapped => /\ Total(hourly) <= nodeTraffic
                      /\ Total(daily) <= nodeTraffic
                      /\ Total(monthly) <= nodeTraffic
=============================================================================
