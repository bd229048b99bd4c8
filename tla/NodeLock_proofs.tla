--------------------------- MODULE NodeLock_proofs ---------------------------
(***************************************************************************)
(* NodeLock is safe for every set of nodes and clients, every lease length *)
(* and every clock bound: two clients never rely on one node together.     *)
(*                                                                         *)
(* MutualExclusion is not inductive.  What carries it is PromiseBacked (a  *)
(* client that still relies on a node owns a document at least as long),   *)
(* and PromiseBacked needs to know, of the update a client has in flight,  *)
(* that its clock reading is not from the future, that it can only lengthen*)
(* what the client was promised, and that a release follows the end of use.*)
(***************************************************************************)
EXTENDS NodeLock, TLAPS

\* What is true of the update a client has in flight.
RequestSound ==
    \A c \in Client : request[c] # NoRequest =>
        /\ request[c].at <= now
        /\ \A n \in Node : lease[c][n] <= request[c].at + LeaseMs
        /\ request[c].op = "release" => lease[c][request[c].node] = 0

\* No promise reaches further than one lease.
LeaseBounded == \A c \in Client, n \in Node : lease[c][n] <= now + LeaseMs

IInv == TypeOK /\ RequestSound /\ LeaseBounded /\ PromiseBacked

-----------------------------------------------------------------------------
\* In the initial state no document and no promise exists.
LEMMA InitInv == Init => IInv
  <1> USE LeaseAssumption
  <1> SUFFICES ASSUME Init PROVE IInv
    OBVIOUS
  <1>1. TypeOK
    BY DEF Init, TypeOK, NoLock, NoRequest
  <1>2. RequestSound /\ LeaseBounded /\ PromiseBacked
    BY DEF Init, RequestSound, LeaseBounded, PromiseBacked, Holds, NoRequest
  <1> QED BY <1>1, <1>2 DEF IInv

\* Asking reads the clock and touches no document.
LEMMA AskInv ==
  ASSUME IInv, NEW c \in Client, NEW n \in Node,
         NEW op \in {"acquire", "renew"}, Ask(c, n, op)
  PROVE  IInv'
  <1> USE LeaseAssumption DEF IInv, Ask
  <1>1. TypeOK'
    BY DEF TypeOK, Request, NoRequest
  <1>2. RequestSound'
    BY DEF TypeOK, RequestSound, LeaseBounded, NoRequest, Request
  <1>3. LeaseBounded' /\ PromiseBacked'
    BY DEF LeaseBounded, PromiseBacked, Holds
  <1> QED BY <1>1, <1>2, <1>3

LEMMA AskReleaseInv ==
  ASSUME IInv, NEW c \in Client, NEW n \in Node, AskRelease(c, n)
  PROVE  IInv'
  <1> USE LeaseAssumption DEF IInv, AskRelease
  <1>1. TypeOK'
    BY DEF TypeOK, Request, NoRequest
  <1>2. RequestSound'
    BY DEF TypeOK, RequestSound, LeaseBounded, NoRequest, Request
  <1>3. LeaseBounded' /\ PromiseBacked'
    BY DEF TypeOK, LeaseBounded, PromiseBacked, Holds
  <1> QED BY <1>1, <1>2, <1>3

\* A filter that matches leaves the node to the client that applied it: every
\* other client's promise on the node is over.
LEMMA WriteInv ==
  ASSUME IInv, NEW c \in Client, request[c] # NoRequest,
         NEW n \in Node, n = request[c].node,
         NEW until, until = request[c].at + LeaseMs,
         \A d \in Client \ {c} : ~Holds(d, n),
         lock' = [lock EXCEPT ![n] = [holder |-> c, until |-> until]],
         Promise(c, n, until), Answered(c), now' = now
  PROVE  IInv'
  <1> USE LeaseAssumption DEF IInv, Promise, Answered
  <1>1. request[c] \in Request /\ until \in Nat /\ until <= now + LeaseMs
    BY DEF TypeOK, Request, RequestSound
  <1>2. TypeOK'
    BY <1>1 DEF TypeOK, Lock, NoLock
  <1>3. RequestSound'
    BY <1>1 DEF TypeOK, RequestSound, NoRequest
  <1>4. LeaseBounded'
    BY <1>1 DEF TypeOK, LeaseBounded
  <1>5. PromiseBacked'
    <2> SUFFICES ASSUME NEW d \in Client, NEW m \in Node, Holds(d, m)'
                 PROVE  lock'[m].holder = d /\ lock'[m].until >= lease'[d][m]
      BY DEF PromiseBacked
    <2>1. CASE d = c /\ m = n
      BY <2>1, <1>1 DEF TypeOK, RequestSound
    <2>2. CASE d # c /\ m = n
      BY <2>2, <1>1 DEF TypeOK, Holds
    <2>3. CASE m # n
      BY <2>3, <1>1 DEF TypeOK, Holds, PromiseBacked
    <2> QED BY <2>1, <2>2, <2>3
  <1> QED BY <1>2, <1>3, <1>4, <1>5

\* A filter that does not match changes no document and withdraws a promise.
LEMMA RefuseInv ==
  ASSUME IInv, NEW c \in Client, request[c] # NoRequest,
         Promise(c, request[c].node, 0), Answered(c),
         UNCHANGED <<now, lock>>
  PROVE  IInv'
  <1> USE LeaseAssumption DEF IInv, Promise, Answered
  <1>1. request[c] \in Request
    BY DEF TypeOK
  <1>2. TypeOK'
    BY <1>1 DEF TypeOK, Request
  <1>3. RequestSound'
    BY <1>1 DEF TypeOK, RequestSound, NoRequest, Request
  <1>4. LeaseBounded' /\ PromiseBacked'
    BY <1>1 DEF TypeOK, LeaseBounded, PromiseBacked, Holds, Request
  <1> QED BY <1>2, <1>3, <1>4

LEMMA ApplyAcquireInv ==
  ASSUME IInv, NEW c \in Client, ApplyAcquire(c) PROVE IInv'
  <1> DEFINE n == request[c].node
             at == request[c].at
  <1>1. request[c] # NoRequest /\ request[c] \in Request
    BY DEF ApplyAcquire, NoRequest, IInv, TypeOK
  <1>2. CASE Free(c, n, at)
    <2>1. \A d \in Client \ {c} : ~Holds(d, n)
      BY <1>1, <1>2, LeaseAssumption
         DEF IInv, TypeOK, RequestSound, PromiseBacked, Holds, Free, NoLock,
             Lock, Request
    <2> QED BY <1>1, <1>2, <2>1, WriteInv DEF ApplyAcquire, Request
  <1>3. CASE ~Free(c, n, at)
    BY <1>1, <1>3, RefuseInv DEF ApplyAcquire
  <1> QED BY <1>2, <1>3

LEMMA ApplyRenewInv ==
  ASSUME IInv, NEW c \in Client, ApplyRenew(c) PROVE IInv'
  <1> DEFINE n == request[c].node
             at == request[c].at
             until == at + LeaseMs
  <1>1. request[c] # NoRequest /\ request[c] \in Request
    BY DEF ApplyRenew, NoRequest, IInv, TypeOK
  <1>2. CASE Renewable(c, n, at)
    <2>1. \A d \in Client \ {c} : ~Holds(d, n)
      BY <1>1, <1>2 DEF IInv, TypeOK, PromiseBacked, Holds, Renewable, Request
    <2>2. lock[n] = [holder |-> c, until |-> lock[n].until]
      BY <1>1, <1>2, NullAssumption
         DEF IInv, TypeOK, Renewable, Request, Lock, NoLock
    <2>3. lock' = [lock EXCEPT ![n] = [holder |-> c, until |-> until]]
      BY <1>1, <1>2, <2>2 DEF ApplyRenew, IInv, TypeOK, Request
    <2>4. Promise(c, n, until) /\ Answered(c) /\ now' = now
      BY <1>2 DEF ApplyRenew
    <2> QED BY <1>1, <2>1, <2>3, <2>4, WriteInv DEF Request
  <1>3. CASE ~Renewable(c, n, at)
    BY <1>1, <1>3, RefuseInv DEF ApplyRenew
  <1> QED BY <1>2, <1>3

\* A release reaches the database after its client stopped using the node.
LEMMA ApplyReleaseInv ==
  ASSUME IInv, NEW c \in Client, ApplyRelease(c) PROVE IInv'
  <1> USE LeaseAssumption DEF IInv, ApplyRelease, Answered
  <1>1. request[c] # NoRequest /\ request[c] \in Request
    BY DEF NoRequest, TypeOK
  <1>2. TypeOK'
    <2>1. request' \in [Client -> Request \cup {NoRequest}]
      BY DEF TypeOK
    <2>2. CASE lock[request[c].node].holder = c
      <3>1. lock' \in [Node -> Lock \cup {NoLock}]
        BY <2>2 DEF TypeOK
      <3>2. \A m \in Node : lock'[m] = lock[m] \/ lock'[m] = NoLock
        BY <2>2 DEF TypeOK
      <3>3. NoLock.until <= now + LeaseMs
        BY DEF TypeOK, NoLock
      <3> QED BY <2>1, <3>1, <3>2, <3>3 DEF TypeOK
    <2>3. CASE lock[request[c].node].holder # c
      BY <2>1, <2>3 DEF TypeOK
    <2> QED BY <2>2, <2>3
  <1>3. RequestSound' /\ LeaseBounded'
    BY <1>1 DEF TypeOK, RequestSound, LeaseBounded, NoRequest
  <1>4. PromiseBacked'
    BY <1>1 DEF TypeOK, PromiseBacked, Holds, RequestSound, Request
  <1> QED BY <1>2, <1>3, <1>4

\* The steps of the environment: answers and requests lost, a crash, time.
LEMMA EnvironmentInv ==
  ASSUME IInv,
         \/ Tick
         \/ \E c \in Client : LoseAnswer(c) \/ DropRequest(c) \/ Crash(c)
  PROVE  IInv'
  <1> USE LeaseAssumption DEF IInv
  <1>1. CASE Tick
    BY <1>1 DEF Tick, TypeOK, RequestSound, LeaseBounded, PromiseBacked, Holds,
                Request, Lock, NoLock
  <1>2. ASSUME NEW c \in Client, LoseAnswer(c) PROVE IInv'
    <2>1. request[c] \in Request
      BY <1>2 DEF LoseAnswer, TypeOK
    <2>2. request'[c] \in Request
      BY <1>2, <2>1 DEF LoseAnswer, TypeOK, Request
    <2>3. TypeOK'
      BY <1>2, <2>2 DEF LoseAnswer, TypeOK
    <2>4. RequestSound'
      BY <1>2, <2>1 DEF LoseAnswer, TypeOK, RequestSound, Request
    <2>5. LeaseBounded' /\ PromiseBacked'
      BY <1>2 DEF LoseAnswer, LeaseBounded, PromiseBacked, Holds
    <2> QED BY <2>3, <2>4, <2>5
  <1>3. ASSUME NEW c \in Client, DropRequest(c) PROVE IInv'
    BY <1>3 DEF DropRequest, Answered, TypeOK, RequestSound, LeaseBounded,
                PromiseBacked, Holds, NoRequest
  <1>4. ASSUME NEW c \in Client, Crash(c) PROVE IInv'
    <2>1. TypeOK'
      <3>1. lease' \in [Client -> [Node -> Nat]]
        BY <1>4 DEF Crash, TypeOK
      <3>2. request' \in [Client -> Request \cup {NoRequest}]
        <4>1. CASE request[c] = NoRequest
          BY <1>4, <4>1 DEF Crash, TypeOK
        <4>2. CASE request[c] # NoRequest
          <5>1. request[c] \in Request
            BY <4>2 DEF TypeOK
          <5>2. [request[c] EXCEPT !.heard = FALSE] \in Request
            BY <5>1 DEF Request
          <5>3. request' = [request EXCEPT ![c] =
                              [request[c] EXCEPT !.heard = FALSE]]
            BY <1>4, <4>2 DEF Crash
          <5> QED BY <5>2, <5>3 DEF TypeOK
        <4> QED BY <4>1, <4>2
      <3> QED BY <1>4, <3>1, <3>2 DEF Crash, TypeOK
    <2>2. RequestSound'
      BY <1>4 DEF Crash, TypeOK, RequestSound, Request, NoRequest
    <2>3. LeaseBounded' /\ PromiseBacked'
      BY <1>4 DEF Crash, TypeOK, LeaseBounded, PromiseBacked, Holds
    <2> QED BY <2>1, <2>2, <2>3
  <1> QED BY <1>1, <1>2, <1>3, <1>4

LEMMA NextInv == IInv /\ [Next]_vars => IInv'
  <1> SUFFICES ASSUME IInv, [Next]_vars PROVE IInv'
    OBVIOUS
  <1>1. CASE Tick
    BY <1>1, EnvironmentInv
  <1>2. ASSUME NEW c \in Client, NEW n \in Node,
               Ask(c, n, "acquire") \/ Ask(c, n, "renew")
        PROVE  IInv'
    BY <1>2, AskInv
  <1>3. ASSUME NEW c \in Client, NEW n \in Node, AskRelease(c, n) PROVE IInv'
    BY <1>3, AskReleaseInv
  <1>4. ASSUME NEW c \in Client,
               ApplyAcquire(c) \/ ApplyRenew(c) \/ ApplyRelease(c)
        PROVE  IInv'
    BY <1>4, ApplyAcquireInv, ApplyRenewInv, ApplyReleaseInv
  <1>5. ASSUME NEW c \in Client, LoseAnswer(c) \/ DropRequest(c) \/ Crash(c)
        PROVE  IInv'
    BY <1>5, EnvironmentInv
  <1>6. CASE UNCHANGED vars
    BY <1>6 DEF vars, IInv, TypeOK, RequestSound, LeaseBounded, PromiseBacked,
                Holds
  <1> QED BY <1>1, <1>2, <1>3, <1>4, <1>5, <1>6 DEF Next

LEMMA InvHolds == Spec => []IInv
  BY InitInv, NextInv, PTL DEF Spec

-----------------------------------------------------------------------------
\* Every document and promise keeps its type and ends within one lease, for
\* acquire, renew and release of the node operation lock repository.
THEOREM TypeCorrect == Spec => []TypeOK
  BY InvHolds, PTL DEF IInv

\* A client that still relies on a node owns its document for that long
\* (acquireLease and renewLease answer what they wrote).
THEOREM PromiseBackedHolds == Spec => []PromiseBacked
  BY InvHolds, PTL DEF IInv

\* Two runs of the workers never rely on one node at the same time.
THEOREM MutualExclusionHolds == Spec => []MutualExclusion
  <1>1. IInv => MutualExclusion
    BY DEF IInv, PromiseBacked, MutualExclusion
  <1> QED BY <1>1, InvHolds, PTL

\* A document passes to another client only once its lease is over or its
\* holder released it (deleteOwned and acquireLease match the owner).
THEOREM NoTheftHolds == Spec => NoTheft
  <1> DEFINE Kept == \A n \in Node :
          /\ lock[n] # NoLock
          /\ lock'[n].holder # lock[n].holder
          => \/ lock[n].until <= now
             \/ /\ lock'[n] = NoLock
                /\ request[lock[n].holder].op = "release"
                /\ request[lock[n].holder].node = n
  <1>1. IInv /\ [Next]_vars => [Kept]_vars
    <2> SUFFICES ASSUME IInv, Next, NEW n \in Node, lock[n] # NoLock,
                        lock'[n].holder # lock[n].holder
                 PROVE  \/ lock[n].until <= now
                        \/ /\ lock'[n] = NoLock
                           /\ request[lock[n].holder].op = "release"
                           /\ request[lock[n].holder].node = n
      OBVIOUS
    <2>1. PICK c \in Client : ApplyAcquire(c) \/ ApplyRenew(c) \/ ApplyRelease(c)
      BY DEF Next, Tick, Ask, AskRelease, LoseAnswer, DropRequest, Crash
    <2>2. request[c] # NoRequest /\ request[c] \in Request /\ request[c].at <= now
      BY <2>1 DEF ApplyAcquire, ApplyRenew, ApplyRelease, NoRequest, IInv,
                  TypeOK, RequestSound
    <2>3. CASE ApplyAcquire(c)
      <3>1. n = request[c].node /\ Free(c, n, request[c].at)
            /\ lock'[n].holder = c
        BY <2>2, <2>3 DEF ApplyAcquire, IInv, TypeOK, Request
      <3>2. lock[n] \in Lock
        BY DEF IInv, TypeOK
      <3> QED BY <2>2, <3>1, <3>2 DEF Free, IInv, TypeOK, Request, Lock
    <2>4. CASE ApplyRenew(c)
      BY <2>2, <2>4 DEF ApplyRenew, IInv, TypeOK, Request, Lock
    <2>5. CASE ApplyRelease(c)
      BY <2>2, <2>5 DEF ApplyRelease, IInv, TypeOK, Request, Lock
    <2> QED BY <2>1, <2>3, <2>4, <2>5
  <1>2. NoTheft <=> [][Kept]_vars
    BY DEF NoTheft
  <1> QED BY <1>1, <1>2, InvHolds, PTL DEF Spec

=============================================================================
