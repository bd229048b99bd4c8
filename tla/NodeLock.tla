------------------------------ MODULE NodeLock ------------------------------
(***************************************************************************)
(* The leased lock that serialises work on one VPN node: the collection    *)
(* behind NodeOperationLockRepository (one document per node, a unique     *)
(* index on `node`) and the service that reads the panel's clock, asks for *)
(* an atomic update and reports what happened.                             *)
(*                                                                         *)
(* A client is one (owner, operationId) pair, that is, one run of a worker *)
(* for one operation.  The service reads the clock BEFORE the database     *)
(* applies the update, so a request carries a time (`at`) that may be old  *)
(* when it takes effect; the answer may also never reach the client.       *)
(***************************************************************************)
EXTENDS Integers

CONSTANTS
    Node,       \* nodes that can be locked
    Client,     \* (owner, operationId) pairs
    LeaseMs,    \* length of a lease, in clock ticks
    MaxTime     \* bound of the model on the clock

ASSUME LeaseAssumption == LeaseMs \in Nat \ {0}
ASSUME TimeAssumption  == MaxTime \in Nat
ASSUME NullAssumption  == "none" \notin Client

VARIABLES
    now,        \* the clock every panel process reads
    lock,       \* the lock document of each node, or NoLock
    request,    \* the update each client has in flight, or NoRequest
    lease       \* leaseUntil each client was last promised, 0 when none

vars == <<now, lock, request, lease>>

NoLock    == [holder |-> "none", until |-> 0]
NoRequest == [op |-> "none"]

Lock    == [holder : Client, until : Nat]
Request == [op : {"acquire", "renew", "release"}, node : Node, at : Nat,
            heard : BOOLEAN]

-----------------------------------------------------------------------------
Init ==
    /\ now     = 0
    /\ lock    = [n \in Node |-> NoLock]
    /\ request = [c \in Client |-> NoRequest]
    /\ lease   = [c \in Client |-> [n \in Node |-> 0]]

(***************************************************************************)
(* The service computes `now` and hands the update to the repository.  A   *)
(* client has one update in flight: its calls are awaited one by one.      *)
(***************************************************************************)
Ask(c, n, op) ==
    /\ request[c] = NoRequest
    /\ request' = [request EXCEPT ![c] = [op |-> op, node |-> n, at |-> now,
                                          heard |-> TRUE]]
    /\ UNCHANGED <<now, lock, lease>>

\* What the client is told, unless the answer is lost on the way.
Promise(c, n, until) ==
    lease' = IF request[c].heard THEN [lease EXCEPT ![c][n] = until] ELSE lease

Answered(c) == request' = [request EXCEPT ![c] = NoRequest]

\* Mutant of Free: a lease is taken over one tick before its end.
FreeEarly(c, n, at) ==
    \/ lock[n] = NoLock
    \/ lock[n].until <= at + 1
    \/ lock[n].holder = c

\* The filter of acquireLease: no document, an expired one, or one's own.
Free(c, n, at) ==
    \/ lock[n] = NoLock
    \/ lock[n].until <= at
    \/ lock[n].holder = c

\* acquireLease: findOneAndUpdate with upsert; the unique index turns an
\* upsert beside an unexpired foreign document into a conflict.
ApplyAcquire(c) ==
    LET n == request[c].node  at == request[c].at  until == at + LeaseMs IN
    /\ request[c].op = "acquire"
    /\ \/ /\ Free(c, n, at)
          /\ lock' = [lock EXCEPT ![n] = [holder |-> c, until |-> until]]
          /\ Promise(c, n, until)
       \/ /\ ~Free(c, n, at)
          /\ Promise(c, n, 0)
          /\ UNCHANGED lock
    /\ Answered(c)
    /\ UNCHANGED now

\* The filter of renewLease: one's own document, unexpired at `at`.
Renewable(c, n, at) ==
    /\ lock[n].holder = c
    /\ lock[n].until > at

ApplyRenew(c) ==
    LET n == request[c].node  at == request[c].at  until == at + LeaseMs IN
    /\ request[c].op = "renew"
    /\ \/ /\ Renewable(c, n, at)
          /\ lock' = [lock EXCEPT ![n].until = until]
          /\ Promise(c, n, until)
       \/ /\ ~Renewable(c, n, at)
          /\ Promise(c, n, 0)
          /\ UNCHANGED lock
    /\ Answered(c)
    /\ UNCHANGED now

\* deleteOwned matches owner and operation, whether or not the lease is over.
\* The caller stops using the node before it asks for the release.
AskRelease(c, n) ==
    /\ request[c] = NoRequest
    /\ lease'   = [lease EXCEPT ![c][n] = 0]
    /\ request' = [request EXCEPT ![c] = [op |-> "release", node |-> n,
                                          at |-> now, heard |-> TRUE]]
    /\ UNCHANGED <<now, lock>>

\* Mutant of ApplyRelease: the document goes whoever owns it.
ApplyReleaseOfAnyone(c) ==
    /\ request[c].op = "release"
    /\ lock' = [lock EXCEPT ![request[c].node] = NoLock]
    /\ Answered(c)
    /\ UNCHANGED <<now, lease>>

ApplyRelease(c) ==
    LET n == request[c].node IN
    /\ request[c].op = "release"
    /\ lock' = IF lock[n].holder = c THEN [lock EXCEPT ![n] = NoLock] ELSE lock
    /\ Answered(c)
    /\ UNCHANGED <<now, lease>>

\* The connection drops: the update may still be applied, unheard.
LoseAnswer(c) ==
    /\ request[c] # NoRequest
    /\ request[c].heard
    /\ request' = [request EXCEPT ![c].heard = FALSE]
    /\ UNCHANGED <<now, lock, lease>>

\* An update that never reached the database.
DropRequest(c) ==
    /\ request[c] # NoRequest
    /\ Answered(c)
    /\ UNCHANGED <<now, lock, lease>>

\* The panel process dies: what it held is forgotten, the documents stay and
\* an update already sent may still be applied.
Crash(c) ==
    /\ lease'   = [lease EXCEPT ![c] = [n \in Node |-> 0]]
    /\ request' = IF request[c] = NoRequest
                  THEN request
                  ELSE [request EXCEPT ![c].heard = FALSE]
    /\ UNCHANGED <<now, lock>>

Tick ==
    /\ now < MaxTime
    /\ now' = now + 1
    /\ UNCHANGED <<lock, request, lease>>

Next ==
    \/ Tick
    \/ \E c \in Client :
          \/ \E n \in Node : Ask(c, n, "acquire") \/ Ask(c, n, "renew")
          \/ \E n \in Node : AskRelease(c, n)
          \/ ApplyAcquire(c)
          \/ ApplyRenew(c)
          \/ ApplyRelease(c)
          \/ LoseAnswer(c)
          \/ DropRequest(c)
          \/ Crash(c)

Spec == Init /\ [][Next]_vars

-----------------------------------------------------------------------------
(***************************************************************************)
(* Properties                                                              *)
(***************************************************************************)

\* Types, and that no document and no promise reaches further than one lease
\* from the present: what a crashed holder leaves behind is bounded.
TypeOK ==
    /\ now \in Nat
    /\ lock \in [Node -> Lock \cup {NoLock}]
    /\ request \in [Client -> Request \cup {NoRequest}]
    /\ lease \in [Client -> [Node -> Nat]]
    /\ \A n \in Node : lock[n].until <= now + LeaseMs

\* The client has been promised the node up to a time that is not over yet.
Holds(c, n) == lease[c][n] > now

\* Two clients never rely on the same node at the same time, although each
\* decides from a clock reading that is old when the database acts on it.
MutualExclusion ==
    \A n \in Node : \A c, d \in Client : Holds(c, n) /\ Holds(d, n) => c = d

\* A client that still relies on a node owns its document, and the document
\* outlives the promise: nobody else's filter can match before it ends.
PromiseBacked ==
    \A c \in Client, n \in Node :
        Holds(c, n) => /\ lock[n].holder = c
                       /\ lock[n].until >= lease[c][n]

\* A document changes hands only when its lease is over or its own holder
\* removes it: a late release or a late renewal of the previous holder never
\* takes the node from its successor.
NoTheft ==
    [][\A n \in Node :
          /\ lock[n] # NoLock
          /\ lock'[n].holder # lock[n].holder
          => \/ lock[n].until <= now
             \/ /\ lock'[n] = NoLock
                /\ request[lock[n].holder].op = "release"
                /\ request[lock[n].holder].node = n]_vars

=============================================================================
