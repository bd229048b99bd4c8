---------------------- MODULE TopologyOperation_proofs ----------------------
(***************************************************************************)
(* TopologyOperation for every set of processes, operations and nodes,     *)
(* every plan, every kind and number of faults.                            *)
(*                                                                         *)
(* Six inductive invariants, each using ones before it: Shape (types and   *)
(* what a run's program counter says of its own variables and of the       *)
(* command it has sent), Backups (why every node holds a bound backup      *)
(* before a commit is sent), Record (why the node entries of a document    *)
(* agree with the run that owns it), Ordered (why they are undone          *)
(* backwards), Pinned (why a commit is not late) and Undisturbed (why the  *)
(* nodes run what is deployed).  The first two are below, the others are   *)
(* in TopologyRecord_proofs.  The refinement of DeploymentLedger needs the *)
(* types alone.                                                            *)
(***************************************************************************)
EXTENDS TopologyOperation, TLAPS

-----------------------------------------------------------------------------
(* Sequences of nodes.                                                     *)

\* Taking the head off a sequence.
LEMMA SeqTail ==
  ASSUME NEW S, NEW s \in Seq(S), s # <<>>
  PROVE  /\ Head(s) \in S
         /\ Tail(s) \in Seq(S)
         /\ Len(Tail(s)) = Len(s) - 1
         /\ Len(s) >= 1
         /\ Range(s) = {Head(s)} \cup Range(Tail(s))
         /\ IsInjective(s) => /\ IsInjective(Tail(s))
                              /\ Head(s) \notin Range(Tail(s))
  <1>1. /\ Head(s) \in S /\ Tail(s) \in Seq(S)
        /\ Len(Tail(s)) = Len(s) - 1 /\ Len(s) >= 1
    OBVIOUS
  <1>2. \A i \in 1 .. Len(s) - 1 : Tail(s)[i] = s[i + 1]
    OBVIOUS
  <1>3. Head(s) = s[1] /\ DOMAIN s = 1 .. Len(s) /\ DOMAIN Tail(s) = 1 .. Len(s) - 1
    OBVIOUS
  <1>4. Range(s) = {Head(s)} \cup Range(Tail(s))
    <2>1. ASSUME NEW i \in 1 .. Len(s) PROVE s[i] \in {Head(s)} \cup Range(Tail(s))
      <3>1. CASE i = 1
        BY <3>1, <1>3
      <3>2. CASE i # 1
        <4>1. i - 1 \in 1 .. Len(s) - 1 /\ Tail(s)[i - 1] = s[i]
          BY <3>2, <1>1, <1>2
        <4> QED BY <4>1, <1>3 DEF Range
      <3> QED BY <3>1, <3>2
    <2>2. ASSUME NEW i \in 1 .. Len(s) - 1 PROVE Tail(s)[i] \in Range(s)
      BY <1>1, <1>2, <1>3 DEF Range
    <2>3. Head(s) \in Range(s)
      BY <1>1, <1>3 DEF Range
    <2>4. Range(s) \subseteq {Head(s)} \cup Range(Tail(s))
      BY <2>1, <1>3 DEF Range
    <2>5. Range(Tail(s)) \subseteq Range(s)
      BY <2>2, <1>3 DEF Range
    <2> QED BY <2>3, <2>4, <2>5
  <1>5. ASSUME IsInjective(s)
        PROVE  IsInjective(Tail(s)) /\ Head(s) \notin Range(Tail(s))
    <2>1. ASSUME NEW i \in 1 .. Len(s) - 1, NEW j \in 1 .. Len(s) - 1,
                 Tail(s)[i] = Tail(s)[j]
          PROVE  i = j
      <3>1. i + 1 \in DOMAIN s /\ j + 1 \in DOMAIN s /\ s[i + 1] = s[j + 1]
        BY <2>1, <1>1, <1>2, <1>3
      <3> QED BY <3>1, <1>5 DEF IsInjective
    <2>2. ASSUME NEW i \in 1 .. Len(s) - 1 PROVE Tail(s)[i] # Head(s)
      <3>1. i + 1 \in DOMAIN s /\ 1 \in DOMAIN s /\ i + 1 # 1 /\ Tail(s)[i] = s[i + 1]
        BY <1>1, <1>2, <1>3
      <3> QED BY <3>1, <1>3, <1>5 DEF IsInjective
    <2> QED BY <2>1, <2>2, <1>3 DEF IsInjective, Range
  <1> QED BY <1>1, <1>4, <1>5

\* Reversing a sequence.
LEMMA SeqReverse ==
  ASSUME NEW S, NEW s \in Seq(S)
  PROVE  /\ Reverse(s) \in Seq(S)
         /\ Len(Reverse(s)) = Len(s)
         /\ Range(Reverse(s)) = Range(s)
         /\ IsInjective(s) => IsInjective(Reverse(s))
  <1>1. Reverse(s) \in Seq(S) /\ Len(Reverse(s)) = Len(s)
    BY DEF Reverse
  <1>2. /\ DOMAIN Reverse(s) = 1 .. Len(s) /\ DOMAIN s = 1 .. Len(s)
        /\ \A i \in 1 .. Len(s) : Reverse(s)[i] = s[Len(s) - i + 1]
        /\ Len(s) \in Nat
    BY DEF Reverse
  <1>3. \A i \in 1 .. Len(s) : Len(s) - i + 1 \in 1 .. Len(s)
    BY <1>2
  <1>4. ASSUME NEW i \in 1 .. Len(s) PROVE s[i] = Reverse(s)[Len(s) - i + 1]
    <2>1. Len(s) - (Len(s) - i + 1) + 1 = i
      BY <1>2
    <2> QED BY <2>1, <1>2, <1>3
  <1>5. Range(Reverse(s)) = Range(s)
    BY <1>2, <1>3, <1>4 DEF Range
  <1>6. ASSUME IsInjective(s), NEW i \in 1 .. Len(s), NEW j \in 1 .. Len(s),
               Reverse(s)[i] = Reverse(s)[j]
        PROVE  i = j
    <2>1. Len(s) - i + 1 = Len(s) - j + 1
      BY <1>2, <1>3, <1>6 DEF IsInjective
    <2> QED BY <2>1, <1>2
  <1> QED BY <1>1, <1>2, <1>5, <1>6 DEF IsInjective

\* The beginning of a sequence.
LEMMA SeqPrefix ==
  ASSUME NEW S, NEW s \in Seq(S), NEW k \in Int, k <= Len(s)
  PROVE  /\ SubSeq(s, 1, k) \in Seq(S)
         /\ \A i \in 1 .. k : /\ i \in 1 .. Len(SubSeq(s, 1, k))
                             /\ SubSeq(s, 1, k)[i] = s[i]
         /\ Len(SubSeq(s, 1, k)) = IF k >= 1 THEN k ELSE 0
         /\ Range(SubSeq(s, 1, k)) \subseteq Range(s)
         /\ IsInjective(s) => IsInjective(SubSeq(s, 1, k))
  <1> DEFINE t == SubSeq(s, 1, k)
  <1>1. /\ t \in Seq(S) /\ Len(t) = IF k >= 1 THEN k ELSE 0
        /\ Len(t) \in Nat /\ DOMAIN t = 1 .. Len(t)
        /\ DOMAIN s = 1 .. Len(s) /\ Len(s) \in Nat
    OBVIOUS
  <1>2. \A i \in 1 .. Len(t) : t[i] = s[i] /\ i \in 1 .. Len(s)
    OBVIOUS
  <1>3. \A i \in 1 .. k : i \in 1 .. Len(t)
    BY <1>1
  <1> HIDE DEF t
  <1>4. Range(t) \subseteq Range(s)
    BY <1>1, <1>2 DEF Range
  <1>5. IsInjective(s) => IsInjective(t)
    BY <1>1, <1>2 DEF IsInjective
  <1> QED BY <1>1, <1>2, <1>3, <1>4, <1>5 DEF t

\* Two sequences, one after the other.
LEMMA SeqConcat ==
  ASSUME NEW S, NEW s \in Seq(S), NEW t \in Seq(S)
  PROVE  /\ s \o t \in Seq(S)
         /\ Range(s \o t) = Range(s) \cup Range(t)
         /\ IsInjective(s) /\ IsInjective(t) /\ Range(s) \cap Range(t) = {}
               => IsInjective(s \o t)
  <1> DEFINE u == s \o t
  <1>1. /\ u \in Seq(S) /\ Len(u) = Len(s) + Len(t)
        /\ DOMAIN u = 1 .. Len(u) /\ DOMAIN s = 1 .. Len(s)
        /\ DOMAIN t = 1 .. Len(t) /\ Len(s) \in Nat /\ Len(t) \in Nat
    OBVIOUS
  <1>2. \A i \in 1 .. Len(s) : u[i] = s[i]
    OBVIOUS
  <1>3. \A i \in 1 .. Len(t) : u[Len(s) + i] = t[i]
    OBVIOUS
  <1> HIDE DEF u
  <1>4. ASSUME NEW i \in 1 .. Len(u)
        PROVE  \/ i \in 1 .. Len(s) /\ u[i] = s[i]
               \/ i - Len(s) \in 1 .. Len(t) /\ u[i] = t[i - Len(s)]
    <2>1. CASE i <= Len(s)
      BY <2>1, <1>1, <1>2
    <2>2. CASE i > Len(s)
      <3>1. i - Len(s) \in 1 .. Len(t) /\ Len(s) + (i - Len(s)) = i
        BY <2>2, <1>1
      <3> QED BY <3>1, <1>3
    <2> QED BY <2>1, <2>2, <1>1
  <1>5. Range(u) \subseteq Range(s) \cup Range(t)
    BY <1>1, <1>4 DEF Range
  <1>6. Range(s) \subseteq Range(u)
    <2>1. \A i \in 1 .. Len(s) : i \in 1 .. Len(u)
      BY <1>1
    <2> QED BY <2>1, <1>1, <1>2 DEF Range
  <1>7. Range(t) \subseteq Range(u)
    <2>1. \A i \in 1 .. Len(t) : Len(s) + i \in 1 .. Len(u)
      BY <1>1
    <2> QED BY <2>1, <1>1, <1>3 DEF Range
  <1>8. ASSUME IsInjective(s), IsInjective(t), Range(s) \cap Range(t) = {},
               NEW i \in 1 .. Len(u), NEW j \in 1 .. Len(u), u[i] = u[j]
        PROVE  i = j
    <2>1. \A k \in 1 .. Len(s) : s[k] \in Range(s)
      BY <1>1 DEF Range
    <2>2. \A k \in 1 .. Len(t) : t[k] \in Range(t)
      BY <1>1 DEF Range
    <2>3. CASE i \in 1 .. Len(s) /\ u[i] = s[i] /\ j \in 1 .. Len(s) /\ u[j] = s[j]
      BY <2>3, <1>1, <1>8 DEF IsInjective
    <2>4. CASE /\ i - Len(s) \in 1 .. Len(t) /\ u[i] = t[i - Len(s)]
               /\ j - Len(s) \in 1 .. Len(t) /\ u[j] = t[j - Len(s)]
      <3>1. i - Len(s) = j - Len(s)
        BY <2>4, <1>1, <1>8 DEF IsInjective
      <3> QED BY <3>1, <1>1
    <2>5. CASE /\ i \in 1 .. Len(s) /\ u[i] = s[i]
               /\ j - Len(s) \in 1 .. Len(t) /\ u[j] = t[j - Len(s)]
      BY <2>1, <2>2, <2>5, <1>8
    <2>6. CASE /\ j \in 1 .. Len(s) /\ u[j] = s[j]
               /\ i - Len(s) \in 1 .. Len(t) /\ u[i] = t[i - Len(s)]
      BY <2>1, <2>2, <2>6, <1>8
    <2> QED BY <2>3, <2>4, <2>5, <2>6, <1>4
  <1> QED BY <1>1, <1>5, <1>6, <1>7, <1>8 DEF u, IsInjective

\* A failed forward pass has every node of the plan to undo, once.
LEMMA UndoOrderSound ==
  ASSUME NEW o \in Op, NEW u \in 0 .. Len(Plan[o])
  PROVE  /\ UndoOrder(o, u) \in Seq(Node)
         /\ Range(UndoOrder(o, u)) = PlanNodes(o)
         /\ IsInjective(UndoOrder(o, u))
  <1> DEFINE p == Plan[o]
             k == Len(p) - u
             a == SubSeq(p, 1, k)
             b == SubSeq(p, k + 1, Len(p))
  <1>1. p \in Seq(Node) /\ IsInjective(p)
    BY PlanAssumption
  <1>2. /\ Len(p) \in Nat /\ u \in Nat /\ k \in 0 .. Len(p) /\ k + u = Len(p)
        /\ DOMAIN p = 1 .. Len(p)
    BY <1>1
  <1> HIDE DEF p, k
  <1>3. /\ a \in Seq(Node) /\ Len(a) = k /\ DOMAIN a = 1 .. k
        /\ b \in Seq(Node) /\ Len(b) = u /\ DOMAIN b = 1 .. u
    BY <1>1, <1>2
  <1>4. /\ \A i \in 1 .. k : a[i] = p[i] /\ i \in 1 .. Len(p)
        /\ \A i \in 1 .. u : b[i] = p[k + i] /\ k + i \in 1 .. Len(p)
    BY <1>1, <1>2
  <1> HIDE DEF a, b
  <1>5. Range(a) \cup Range(b) \subseteq Range(p)
    BY <1>2, <1>3, <1>4 DEF Range
  <1>6. Range(p) \subseteq Range(a) \cup Range(b)
    <2>1. ASSUME NEW i \in 1 .. Len(p) PROVE p[i] \in Range(a) \cup Range(b)
      <3>1. CASE i <= k
        BY <3>1, <1>2, <1>3, <1>4 DEF Range
      <3>2. CASE i > k
        <4>1. i - k \in 1 .. u /\ k + (i - k) = i
          BY <3>2, <1>2
        <4> QED BY <4>1, <1>3, <1>4 DEF Range
      <3> QED BY <3>1, <3>2, <1>2
    <2> QED BY <2>1, <1>2 DEF Range
  <1>7. IsInjective(a)
    BY <1>1, <1>2, <1>3, <1>4 DEF IsInjective
  <1>8. IsInjective(b)
    <2>1. ASSUME NEW i \in 1 .. u, NEW j \in 1 .. u, b[i] = b[j] PROVE i = j
      <3>1. k + i \in DOMAIN p /\ k + j \in DOMAIN p /\ p[k + i] = p[k + j]
        BY <2>1, <1>2, <1>4
      <3>2. k + i = k + j
        BY <3>1, <1>1 DEF IsInjective
      <3> QED BY <3>2, <1>2
    <2> QED BY <2>1, <1>3 DEF IsInjective
  <1>9. Range(a) \cap Range(b) = {}
    <2>1. ASSUME NEW i \in 1 .. k, NEW j \in 1 .. u PROVE a[i] # b[j]
      <3>1. i # k + j
        BY <1>2
      <3> QED BY <3>1, <1>1, <1>2, <1>4 DEF IsInjective
    <2> QED BY <2>1, <1>3 DEF Range
  <1>10. /\ Reverse(a) \in Seq(Node) /\ Range(Reverse(a)) = Range(a)
         /\ IsInjective(Reverse(a))
         /\ Reverse(b) \in Seq(Node) /\ Range(Reverse(b)) = Range(b)
         /\ IsInjective(Reverse(b))
    BY <1>3, <1>7, <1>8, SeqReverse
  <1>11. UndoOrder(o, u) = Reverse(a) \o Reverse(b)
    BY DEF UndoOrder, a, b, k, p
  <1>12. /\ Reverse(a) \o Reverse(b) \in Seq(Node)
         /\ Range(Reverse(a) \o Reverse(b)) = Range(a) \cup Range(b)
         /\ IsInjective(Reverse(a) \o Reverse(b))
    BY <1>9, <1>10, SeqConcat
  <1> QED BY <1>5, <1>6, <1>11, <1>12 DEF PlanNodes, p

-----------------------------------------------------------------------------
(* Shape: types, and what the program counter says about the rest.         *)

Forward  == {"prepare", "discard", "commit", "verify"}
Backward == {"revoke", "undo"}

\* A run of operation o.
RunShape(o, r) ==
    /\ r.call # "none" => r.pc \in Busy /\ r.todo # <<>>
    /\ r.pc \in Forward => r.todo # <<>> /\ Len(r.todo) <= Len(Plan[o])
    /\ r.pc = "lock" => r.next \in {"prepare"} \cup Backward
    /\ r.pc = "lock" /\ r.next = "prepare" => r.todo = Plan[o]
    /\ r.pc \in Backward \/ (r.pc = "lock" /\ r.next \in Backward)
          => IsInjective(r.todo) /\ Range(r.todo) \subseteq PlanNodes(o)
    /\ r.pc = "finalize" => r.todo = <<>>
    /\ r.bad => r.pc \in {"undo", "release"}

\* A command that a run waits for is the one the run says it has sent.
RemoteSound ==
    \A c \in remote : c.by # Nobody =>
        LET r == run[c.by][c.op] IN
        /\ r.call = "sent"
        /\ c.cmd = CommandOf(r.pc)
        /\ c.node = Head(r.todo)

Shape ==
    /\ TypeOK
    /\ \A w \in Worker, o \in Op : RunShape(o, run[w][o])
    /\ RemoteSound

\* What a step of one run that sends and receives nothing has to show.
LEMMA GoShape ==
  ASSUME Shape, NEW w \in Worker, NEW o \in Op, NEW r \in Run,
         Go(w, o, r), RunShape(o, r), run[w][o].call # "sent",
         UNCHANGED remote
  PROVE  /\ run' \in [Worker -> [Op -> Run]]
         /\ \A v \in Worker, p \in Op : RunShape(p, run'[v][p])
         /\ RemoteSound'
  <1>1. run \in [Worker -> [Op -> Run]]
    BY DEF Shape, TypeOK
  <1>2. run' \in [Worker -> [Op -> Run]]
    BY <1>1 DEF Go
  <1>3. \A v \in Worker, p \in Op :
           run'[v][p] = IF v = w /\ p = o THEN r ELSE run[v][p]
    BY <1>1 DEF Go
  <1>4. \A v \in Worker, p \in Op : RunShape(p, run'[v][p])
    BY <1>3 DEF Shape
  <1>5. RemoteSound'
    <2>1. \A c \in remote : c.by # Nobody => ~(c.by = w /\ c.op = o)
      BY DEF Shape, RemoteSound
    <2>2. \A c \in remote : c.by # Nobody => c.by \in Worker /\ c.op \in Op
      BY DEF Shape, TypeOK, Sent
    <2> QED BY <1>3, <2>1, <2>2 DEF Shape, RemoteSound
  <1> QED BY <1>2, <1>4, <1>5

\* What recording a node entry changes.
LEMMA RecordFacts ==
  ASSUME doc \in [Op -> Document], NEW o \in Op, NEW n, NEW state \in NodeState,
         RecordNode(o, n, state)
  PROVE  /\ doc' \in [Op -> Document]
         /\ \A p \in Op : /\ doc'[p].status = doc[p].status
                         /\ doc'[p].owner = doc[p].owner
                         /\ doc'[p].live = doc[p].live
                         /\ doc'[p].rev = doc[p].rev
                         /\ doc'[p].prior = doc[p].prior
         /\ \A p \in Op : p # o => doc'[p] = doc[p]
         /\ \A m \in Node : doc'[o].node[m] = IF m = n THEN state
                                             ELSE doc[o].node[m]
  <1>1. doc[o] \in Document
    OBVIOUS
  <1>2. doc'[o] = [doc[o] EXCEPT !.node = [@ EXCEPT ![n] = state]]
    BY DEF RecordNode
  <1>3. [doc[o].node EXCEPT ![n] = state] \in [Node -> NodeState]
    BY <1>1 DEF Document
  <1>4. doc'[o] \in Document
    BY <1>1, <1>2, <1>3 DEF Document
  <1>5. \A p \in Op : p # o => doc'[p] = doc[p]
    BY DEF RecordNode
  <1>6. doc' \in [Op -> Document]
    BY <1>4, <1>5 DEF RecordNode
  <1>7. /\ doc'[o].status = doc[o].status /\ doc'[o].owner = doc[o].owner
        /\ doc'[o].live = doc[o].live /\ doc'[o].rev = doc[o].rev
        /\ doc'[o].prior = doc[o].prior
        /\ doc'[o].node = [doc[o].node EXCEPT ![n] = state]
    BY <1>1, <1>2 DEF Document
  <1>8. \A m \in Node : doc'[o].node[m] = IF m = n THEN state
                                         ELSE doc[o].node[m]
    BY <1>1, <1>7 DEF Document
  <1> QED BY <1>5, <1>6, <1>7, <1>8

\* The facts about one run every action starts from.
LEMMA RunFacts ==
  ASSUME Shape, NEW w \in Worker, NEW o \in Op
  PROVE  /\ run[w][o] \in Run
         /\ RunShape(o, run[w][o])
         /\ doc \in [Op -> Document] /\ doc[o] \in Document
         /\ Plan[o] \in Seq(Node) /\ Plan[o] # <<>> /\ Len(Plan[o]) >= 1
         /\ IsInjective(Plan[o])
  BY PlanAssumption DEF Shape, TypeOK

\* The part of the types that is not about runs and commands.
StoreType ==
    /\ revision \in Revision
    /\ deployed \in Revision
    /\ doc \in [Op -> Document]
    /\ \A o \in Op : doc[o].live => doc[o].status \in Active
    /\ lock \in [Node -> Lock]
    /\ queuedAs \in [Worker -> [Revision -> Op \cup {Nobody}]]
    /\ host \in [Node -> Host]
    /\ faults \in 0 .. MaxFaults

LEMMA StepShape ==
  ASSUME Shape, NEW w \in Worker, NEW o \in Op, NEW r \in Run,
         Go(w, o, r), RunShape(o, r), run[w][o].call # "sent",
         UNCHANGED remote, StoreType'
  PROVE  Shape'
  <1>1. /\ run' \in [Worker -> [Op -> Run]]
        /\ \A v \in Worker, p \in Op : RunShape(p, run'[v][p])
        /\ RemoteSound'
    BY GoShape
  <1> QED BY <1>1 DEF Shape, TypeOK, StoreType

\* The run goes where the claimed document sent it.
LEMMA LocksTakenShape ==
  ASSUME Shape, NEW w \in Worker, NEW o \in Op, LocksTaken(w, o)
  PROVE  Shape'
  <1> DEFINE r == run[w][o]
             q == [r EXCEPT !.pc = r.next]
  <1>1. /\ r \in Run /\ RunShape(o, r) /\ doc[o] \in Document
        /\ Plan[o] \in Seq(Node) /\ Plan[o] # <<>> /\ IsInjective(Plan[o])
        /\ doc \in [Op -> Document] /\ Len(Plan[o]) >= 1
    BY RunFacts
  <1>2. q \in Run /\ RunShape(o, q)
    <2>1. q \in Run
      BY <1>1 DEF LocksTaken, Run, Phase
    <2>2. RunShape(o, q)
      BY <1>1 DEF LocksTaken, RunShape, Run, Forward, Backward, Busy
    <2> QED BY <2>1, <2>2
  <1>3. Go(w, o, q) /\ r.call # "sent" /\ UNCHANGED remote
    BY <1>1 DEF LocksTaken, RunShape, Busy
  <1>4. StoreType'
    BY DEF LocksTaken, Shape, TypeOK, StoreType, store
  <1> QED BY <1>2, <1>3, <1>4, StepShape

\* One node fewer to prepare.
LEMMA PreparedShape ==
  ASSUME Shape, NEW w \in Worker, NEW o \in Op, Prepared(w, o)
  PROVE  Shape'
  <1> DEFINE r == run[w][o]
             rest == Tail(r.todo)
             q == [r EXCEPT !.call = "none", !.todo = rest,
                              !.pc = IF rest = <<>> THEN "seal" ELSE @]
  <1>1. /\ r \in Run /\ RunShape(o, r) /\ doc[o] \in Document
        /\ Plan[o] \in Seq(Node) /\ Plan[o] # <<>> /\ IsInjective(Plan[o])
        /\ doc \in [Op -> Document] /\ Len(Plan[o]) >= 1
    BY RunFacts
  <1>2. r.todo # <<>>
    BY <1>1 DEF Prepared, RunShape
  <1>3. /\ rest \in Seq(Node)
        /\ Len(rest) = Len(r.todo) - 1
        /\ Range(rest) \subseteq Range(r.todo)
        /\ IsInjective(r.todo) => IsInjective(rest)
    BY <1>2, <1>1, SeqTail DEF Run
  <1>4. Go(w, o, q)
    BY DEF Prepared
  <1> HIDE DEF rest
  <1>5. q \in Run /\ RunShape(o, q)
    <2>1. q \in Run
      BY <1>2, <1>1, <1>3 DEF Prepared, RunShape, Run, Phase
    <2>2. RunShape(o, q)
      BY <1>2, <1>1, <1>3 DEF Prepared, RunShape, Run, Forward, Backward, Busy
    <2> QED BY <2>1, <2>2
  <1>6. r.call # "sent" /\ UNCHANGED remote
    BY <1>1 DEF Prepared, RunShape, Busy
  <1>7. StoreType'
    <2>1. RecordNode(o, Head(r.todo), "prepared")
      BY DEF Prepared
    <2>2. "prepared" \in NodeState
      BY DEF NodeState
    <2> QED BY <1>1, <2>1, <2>2, RecordFacts DEF Prepared, Shape, TypeOK, StoreType
  <1> QED BY <1>5, <1>6, <1>7, <1>4, StepShape

\* The node is left to the best-effort rollback.
LEMMA PrepareRejectedShape ==
  ASSUME Shape, NEW w \in Worker, NEW o \in Op, PrepareRejected(w, o)
  PROVE  Shape'
  <1> DEFINE r == run[w][o]
             q == [r EXCEPT !.pc = "discard", !.call = "none"]
  <1>1. /\ r \in Run /\ RunShape(o, r) /\ doc[o] \in Document
        /\ Plan[o] \in Seq(Node) /\ Plan[o] # <<>> /\ IsInjective(Plan[o])
        /\ doc \in [Op -> Document] /\ Len(Plan[o]) >= 1
    BY RunFacts
  <1>2. q \in Run /\ RunShape(o, q)
    <2>1. q \in Run
      BY <1>1 DEF PrepareRejected, Run, Phase
    <2>2. RunShape(o, q)
      BY <1>1 DEF PrepareRejected, RunShape, Run, Forward, Backward, Busy
    <2> QED BY <2>1, <2>2
  <1>3. Go(w, o, q) /\ r.call # "sent" /\ UNCHANGED remote
    BY <1>1 DEF PrepareRejected, RunShape, Busy
  <1>4. StoreType'
    BY DEF PrepareRejected, Shape, TypeOK, StoreType, store
  <1> QED BY <1>2, <1>3, <1>4, StepShape

\* All prepared: from the first node again.
LEMMA SealShape ==
  ASSUME Shape, NEW w \in Worker, NEW o \in Op, Seal(w, o)
  PROVE  Shape'
  <1> DEFINE r == run[w][o]
             q == [r EXCEPT !.pc = "commit", !.todo = Plan[o]]
  <1>1. /\ r \in Run /\ RunShape(o, r) /\ doc[o] \in Document
        /\ Plan[o] \in Seq(Node) /\ Plan[o] # <<>> /\ IsInjective(Plan[o])
        /\ doc \in [Op -> Document] /\ Len(Plan[o]) >= 1
    BY RunFacts
  <1>2. q \in Run /\ RunShape(o, q)
    <2>1. q \in Run
      BY <1>1 DEF Seal, Run, Phase
    <2>2. RunShape(o, q)
      BY <1>1 DEF Seal, RunShape, Run, Forward, Backward, Busy
    <2> QED BY <2>1, <2>2
  <1>3. Go(w, o, q) /\ r.call # "sent" /\ UNCHANGED remote
    BY <1>1 DEF Seal, RunShape, Busy
  <1>4. StoreType'
    BY <1>1 DEF Seal, Shape, TypeOK, StoreType, Document, Active
  <1> QED BY <1>2, <1>3, <1>4, StepShape

\* The node is still to be verified.
LEMMA CommittedShape ==
  ASSUME Shape, NEW w \in Worker, NEW o \in Op, Committed(w, o)
  PROVE  Shape'
  <1> DEFINE r == run[w][o]
             q == [r EXCEPT !.pc = "verify", !.call = "none"]
  <1>1. /\ r \in Run /\ RunShape(o, r) /\ doc[o] \in Document
        /\ Plan[o] \in Seq(Node) /\ Plan[o] # <<>> /\ IsInjective(Plan[o])
        /\ doc \in [Op -> Document] /\ Len(Plan[o]) >= 1
    BY RunFacts
  <1>2. q \in Run /\ RunShape(o, q)
    <2>1. q \in Run
      BY <1>1 DEF Committed, Run, Phase
    <2>2. RunShape(o, q)
      BY <1>1 DEF Committed, RunShape, Run, Forward, Backward, Busy
    <2> QED BY <2>1, <2>2
  <1>3. Go(w, o, q) /\ r.call # "sent" /\ UNCHANGED remote
    BY <1>1 DEF Committed, RunShape, Busy
  <1>4. StoreType'
    <2>1. RecordNode(o, Head(r.todo), "committed")
      BY DEF Committed
    <2>2. "committed" \in NodeState
      BY DEF NodeState
    <2> QED BY <1>1, <2>1, <2>2, RecordFacts DEF Committed, Shape, TypeOK, StoreType
  <1> QED BY <1>2, <1>3, <1>4, StepShape

\* One node fewer to commit.
LEMMA VerifiedShape ==
  ASSUME Shape, NEW w \in Worker, NEW o \in Op, Verified(w, o)
  PROVE  Shape'
  <1> DEFINE r == run[w][o]
             rest == Tail(r.todo)
             q == [r EXCEPT !.call = "none", !.todo = rest,
                              !.pc = IF rest = <<>> THEN "finalize"
                                     ELSE "commit"]
  <1>1. /\ r \in Run /\ RunShape(o, r) /\ doc[o] \in Document
        /\ Plan[o] \in Seq(Node) /\ Plan[o] # <<>> /\ IsInjective(Plan[o])
        /\ doc \in [Op -> Document] /\ Len(Plan[o]) >= 1
    BY RunFacts
  <1>2. r.todo # <<>>
    BY <1>1 DEF Verified, RunShape
  <1>3. /\ rest \in Seq(Node)
        /\ Len(rest) = Len(r.todo) - 1
        /\ Range(rest) \subseteq Range(r.todo)
        /\ IsInjective(r.todo) => IsInjective(rest)
    BY <1>2, <1>1, SeqTail DEF Run
  <1>4. Go(w, o, q)
    BY DEF Verified
  <1> HIDE DEF rest
  <1>5. q \in Run /\ RunShape(o, q)
    <2>1. q \in Run
      BY <1>2, <1>1, <1>3 DEF Verified, RunShape, Run, Phase
    <2>2. RunShape(o, q)
      BY <1>2, <1>1, <1>3 DEF Verified, RunShape, Run, Forward, Backward, Busy
    <2> QED BY <2>1, <2>2
  <1>6. r.call # "sent" /\ UNCHANGED remote
    BY <1>1 DEF Verified, RunShape, Busy
  <1>7. StoreType'
    BY DEF Verified, Shape, TypeOK, StoreType, store
  <1> QED BY <1>5, <1>6, <1>7, <1>4, StepShape

\* Every node of the plan is to be undone.
LEMMA CommitFailedShape ==
  ASSUME Shape, NEW w \in Worker, NEW o \in Op, CommitFailed(w, o)
  PROVE  Shape'
  <1> DEFINE r == run[w][o]
             q == [r EXCEPT !.pc = "revoke", !.call = "none",
                              !.todo = UndoOrder(o, Len(r.todo) - 1)]
  <1>1. /\ r \in Run /\ RunShape(o, r) /\ doc[o] \in Document
        /\ Plan[o] \in Seq(Node) /\ Plan[o] # <<>> /\ IsInjective(Plan[o])
        /\ doc \in [Op -> Document] /\ Len(Plan[o]) >= 1
    BY RunFacts
  <1>0. /\ UndoOrder(o, Len(r.todo) - 1) \in Seq(Node)
        /\ Range(UndoOrder(o, Len(r.todo) - 1)) = PlanNodes(o)
        /\ IsInjective(UndoOrder(o, Len(r.todo) - 1))
    <2>1. Len(r.todo) - 1 \in 0 .. Len(Plan[o])
      BY <1>1 DEF CommitFailed, RunShape, Run, Forward
    <2> QED BY <2>1, UndoOrderSound
  <1>2. q \in Run /\ RunShape(o, q)
    <2>1. q \in Run
      BY <1>1, <1>0 DEF CommitFailed, Run, Phase
    <2>2. RunShape(o, q)
      BY <1>1, <1>0 DEF CommitFailed, RunShape, Run, Forward, Backward, Busy
    <2> QED BY <2>1, <2>2
  <1>3. Go(w, o, q) /\ r.call # "sent" /\ UNCHANGED remote
    BY <1>1 DEF CommitFailed, RunShape, Busy
  <1>4. StoreType'
    BY DEF CommitFailed, Shape, TypeOK, StoreType, store
  <1> QED BY <1>2, <1>3, <1>4, StepShape

\* So it is when the transaction is refused.
LEMMA FinalizeRejectedShape ==
  ASSUME Shape, NEW w \in Worker, NEW o \in Op, FinalizeRejected(w, o)
  PROVE  Shape'
  <1> DEFINE r == run[w][o]
             q == [r EXCEPT !.pc = "revoke", !.todo = UndoOrder(o, 0)]
  <1>1. /\ r \in Run /\ RunShape(o, r) /\ doc[o] \in Document
        /\ Plan[o] \in Seq(Node) /\ Plan[o] # <<>> /\ IsInjective(Plan[o])
        /\ doc \in [Op -> Document] /\ Len(Plan[o]) >= 1
    BY RunFacts
  <1>0. /\ UndoOrder(o, 0) \in Seq(Node)
        /\ Range(UndoOrder(o, 0)) = PlanNodes(o)
        /\ IsInjective(UndoOrder(o, 0))
    <2>1. 0 \in 0 .. Len(Plan[o])
      BY <1>1 DEF FinalizeRejected, RunShape, Run, Forward
    <2> QED BY <2>1, UndoOrderSound
  <1>2. q \in Run /\ RunShape(o, q)
    <2>1. q \in Run
      BY <1>1, <1>0 DEF FinalizeRejected, Run, Phase
    <2>2. RunShape(o, q)
      BY <1>1, <1>0 DEF FinalizeRejected, RunShape, Run, Forward, Backward, Busy
    <2> QED BY <2>1, <2>2
  <1>3. Go(w, o, q) /\ r.call # "sent" /\ UNCHANGED remote
    BY <1>1 DEF FinalizeRejected, RunShape, Busy
  <1>4. StoreType'
    BY DEF FinalizeRejected, Shape, TypeOK, StoreType, store
  <1> QED BY <1>2, <1>3, <1>4, StepShape

\* The nodes to undo stay what they are.
LEMMA RevokeShape ==
  ASSUME Shape, NEW w \in Worker, NEW o \in Op, Revoke(w, o)
  PROVE  Shape'
  <1> DEFINE r == run[w][o]
             q == [r EXCEPT !.pc = "undo"]
  <1>1. /\ r \in Run /\ RunShape(o, r) /\ doc[o] \in Document
        /\ Plan[o] \in Seq(Node) /\ Plan[o] # <<>> /\ IsInjective(Plan[o])
        /\ doc \in [Op -> Document] /\ Len(Plan[o]) >= 1
    BY RunFacts
  <1>2. q \in Run /\ RunShape(o, q)
    <2>1. q \in Run
      BY <1>1 DEF Revoke, Run, Phase
    <2>2. RunShape(o, q)
      BY <1>1 DEF Revoke, RunShape, Run, Forward, Backward, Busy
    <2> QED BY <2>1, <2>2
  <1>3. Go(w, o, q) /\ r.call # "sent" /\ UNCHANGED remote
    BY <1>1 DEF Revoke, RunShape, Busy
  <1>4. StoreType'
    BY <1>1 DEF Revoke, Shape, TypeOK, StoreType, Document, Active
  <1> QED BY <1>2, <1>3, <1>4, StepShape

\* One node fewer to undo.
LEMMA SkipShape ==
  ASSUME Shape, NEW w \in Worker, NEW o \in Op, Skip(w, o)
  PROVE  Shape'
  <1> DEFINE r == run[w][o]
             rest == Tail(r.todo)
             q == [r EXCEPT !.todo = rest]
  <1>1. /\ r \in Run /\ RunShape(o, r) /\ doc[o] \in Document
        /\ Plan[o] \in Seq(Node) /\ Plan[o] # <<>> /\ IsInjective(Plan[o])
        /\ doc \in [Op -> Document] /\ Len(Plan[o]) >= 1
    BY RunFacts
  <1>2. r.todo # <<>>
    BY <1>1 DEF Skip, RunShape
  <1>3. /\ rest \in Seq(Node)
        /\ Len(rest) = Len(r.todo) - 1
        /\ Range(rest) \subseteq Range(r.todo)
        /\ IsInjective(r.todo) => IsInjective(rest)
    BY <1>2, <1>1, SeqTail DEF Run
  <1>4. Go(w, o, q)
    BY DEF Skip
  <1> HIDE DEF rest
  <1>5. q \in Run /\ RunShape(o, q)
    <2>1. q \in Run
      BY <1>2, <1>1, <1>3 DEF Skip, Run
    <2>2. RunShape(o, q)
      BY <1>2, <1>1, <1>3 DEF Skip, RunShape, Run, Forward, Backward, Busy
    <2> QED BY <2>1, <2>2
  <1>6. r.call # "sent" /\ UNCHANGED remote
    BY <1>1 DEF Skip, RunShape, Busy
  <1>7. StoreType'
    BY DEF Skip, Shape, TypeOK, StoreType, store
  <1> QED BY <1>5, <1>6, <1>7, <1>4, StepShape

\* From the first node again.
LEMMA RetryShape ==
  ASSUME Shape, NEW w \in Worker, NEW o \in Op, Retry(w, o)
  PROVE  Shape'
  <1> DEFINE r == run[w][o]
             q == [r EXCEPT !.pc = "prepare", !.todo = Plan[o], !.retry = FALSE]
  <1>1. /\ r \in Run /\ RunShape(o, r) /\ doc[o] \in Document
        /\ Plan[o] \in Seq(Node) /\ Plan[o] # <<>> /\ IsInjective(Plan[o])
        /\ doc \in [Op -> Document] /\ Len(Plan[o]) >= 1
    BY RunFacts
  <1>2. q \in Run /\ RunShape(o, q)
    <2>1. q \in Run
      BY <1>1 DEF Retry, Run, Phase
    <2>2. RunShape(o, q)
      BY <1>1 DEF Retry, RunShape, Run, Forward, Backward, Busy
    <2> QED BY <2>1, <2>2
  <1>3. Go(w, o, q) /\ r.call # "sent" /\ UNCHANGED remote
    BY <1>1 DEF Retry, RunShape, Busy
  <1>4. StoreType'
    BY DEF Retry, Shape, TypeOK, StoreType, store
  <1> QED BY <1>2, <1>3, <1>4, StepShape

\* The document leaves the active states without a lease.
LEMMA FinishShape ==
  ASSUME Shape, NEW w \in Worker, NEW o \in Op, Finish(w, o)
  PROVE  Shape'
  <1> DEFINE r == run[w][o]
             q == [r EXCEPT !.pc = "release"]
  <1>1. /\ r \in Run /\ RunShape(o, r) /\ doc[o] \in Document
        /\ Plan[o] \in Seq(Node) /\ Plan[o] # <<>> /\ IsInjective(Plan[o])
        /\ doc \in [Op -> Document] /\ Len(Plan[o]) >= 1
    BY RunFacts
  <1>2. q \in Run /\ RunShape(o, q)
    <2>1. q \in Run
      BY <1>1 DEF Finish, Run, Phase
    <2>2. RunShape(o, q)
      BY <1>1 DEF Finish, RunShape, Run, Forward, Backward, Busy
    <2> QED BY <2>1, <2>2
  <1>3. Go(w, o, q) /\ r.call # "sent" /\ UNCHANGED remote
    BY <1>1 DEF Finish, RunShape, Busy
  <1>4. StoreType'
    BY <1>1 DEF Finish, Shape, TypeOK, StoreType, Document, Terminal
  <1> QED BY <1>2, <1>3, <1>4, StepShape

\* The run drops everything but its locks.
LEMMA AbortShape ==
  ASSUME Shape, NEW w \in Worker, NEW o \in Op, Abort(w, o)
  PROVE  Shape'
  <1> DEFINE r == run[w][o]
             q == [r EXCEPT !.pc = "release", !.call = "none"]
  <1>1. /\ r \in Run /\ RunShape(o, r) /\ doc[o] \in Document
        /\ Plan[o] \in Seq(Node) /\ Plan[o] # <<>> /\ IsInjective(Plan[o])
        /\ doc \in [Op -> Document] /\ Len(Plan[o]) >= 1
    BY RunFacts
  <1>2. q \in Run /\ RunShape(o, q)
    <2>1. q \in Run
      BY <1>1 DEF Abort, Run, Phase
    <2>2. RunShape(o, q)
      BY <1>1 DEF Abort, RunShape, Run, Forward, Backward, Busy
    <2> QED BY <2>1, <2>2
  <1>3. Go(w, o, q) /\ r.call # "sent" /\ UNCHANGED remote
    BY <1>1 DEF Abort, RunShape, Busy
  <1>4. StoreType'
    BY <1>1, BoundAssumption DEF Abort, Fault, Shape, TypeOK, StoreType, store
  <1> QED BY <1>2, <1>3, <1>4, StepShape

\* A run that is over.
LEMMA EndRunShape ==
  ASSUME Shape, NEW w \in Worker, NEW o \in Op, EndRun(w, o)
  PROVE  Shape'
  <1> DEFINE r == run[w][o]
             q == Idle
  <1>1. /\ r \in Run /\ RunShape(o, r) /\ doc[o] \in Document
        /\ Plan[o] \in Seq(Node) /\ Plan[o] # <<>> /\ IsInjective(Plan[o])
        /\ doc \in [Op -> Document] /\ Len(Plan[o]) >= 1
    BY RunFacts
  <1>2. q \in Run /\ RunShape(o, q)
    <2>1. q \in Run
      BY <1>1 DEF EndRun, Run, Phase, Idle
    <2>2. RunShape(o, q)
      BY <1>1 DEF EndRun, RunShape, Run, Forward, Backward, Busy, Idle
    <2> QED BY <2>1, <2>2
  <1>3. Go(w, o, q) /\ r.call # "sent" /\ UNCHANGED remote
    BY <1>1 DEF EndRun, RunShape, Busy
  <1>4. StoreType'
    BY DEF EndRun, Shape, TypeOK, StoreType, store
  <1> QED BY <1>2, <1>3, <1>4, StepShape

\* A step of one run leaves the others where they are.
LEMMA OtherRunsStay ==
  ASSUME Shape, NEW w \in Worker, NEW o \in Op, Step(w, o)
  PROVE  \A v \in Worker, p \in Op : v # w \/ p # o => run'[v][p] = run[v][p]
  <1>1. CASE \/ LocksTaken(w, o) \/ Prepared(w, o) \/ PrepareRejected(w, o)
             \/ PrepareFailed(w, o) \/ Seal(w, o) \/ Committed(w, o)
             \/ Verified(w, o) \/ CommitFailed(w, o) \/ FinalizeRejected(w, o)
    <2>1. \E q : Go(w, o, q)
      BY <1>1 DEF LocksTaken, Prepared, PrepareRejected, PrepareFailed, Seal,
                  Committed, Verified, CommitFailed, FinalizeRejected
    <2> QED BY <2>1 DEF Go, Shape, TypeOK
  <1>2. CASE \/ Revoke(w, o) \/ Undone(w, o) \/ Skip(w, o) \/ Retry(w, o)
             \/ Finish(w, o) \/ Abort(w, o) \/ EndRun(w, o)
    <2>1. \E q : Go(w, o, q)
      BY <1>2 DEF Revoke, Undone, Skip, Retry, Finish, Abort, EndRun
    <2> QED BY <2>1 DEF Go, Shape, TypeOK
  <1>3. CASE TakeLock(w, o) \/ Send(w, o) \/ Finalize(w, o) \/ ReleaseLock(w, o)
    <2>1. \E q : Go(w, o, q)
      BY <1>3 DEF TakeLock, Send, Finalize, ReleaseLock
    <2> QED BY <2>1 DEF Go, Shape, TypeOK
  <1> QED BY <1>1, <1>2, <1>3 DEF Step

\* A claimed operation: the run that owned it before is none of the claimer's.
LEMMA ClaimShape ==
  ASSUME Shape, NEW w \in Worker, NEW o \in Op, Claim(w, o)
  PROVE  Shape'
  <1> DEFINE q == AfterLocks(o)
  <1>1. /\ run[w][o] \in Run /\ RunShape(o, run[w][o]) /\ doc[o] \in Document
        /\ Plan[o] \in Seq(Node) /\ Plan[o] # <<>> /\ IsInjective(Plan[o])
        /\ doc \in [Op -> Document]
    BY RunFacts
  <1>2. /\ Reverse(Plan[o]) \in Seq(Node) /\ IsInjective(Reverse(Plan[o]))
        /\ Range(Reverse(Plan[o])) = PlanNodes(o)
    BY <1>1, SeqReverse DEF PlanNodes
  <1>3. /\ q \in Run /\ q.pc = "lock" /\ q.call = "none" /\ ~q.bad
        /\ \/ q.next = "prepare" /\ q.todo = Plan[o]
           \/ q.next \in Backward /\ q.todo = Reverse(Plan[o])
    BY <1>1, <1>2 DEF AfterLocks, Idle, Run, Phase, Backward
  <1>4. RunShape(o, q)
    BY <1>2, <1>3 DEF RunShape, Forward, Backward
  <1>5. Go(w, o, q) /\ run[w][o].call # "sent" /\ UNCHANGED remote
    BY <1>1 DEF Claim, RunShape, Busy
  <1>6. StoreType'
    BY <1>1 DEF Claim, Shape, TypeOK, StoreType, Document, Active
  <1> QED BY <1>3, <1>4, <1>5, <1>6, StepShape

\* A lock taken, or the run ended by a conflict.
LEMMA TakeLockShape ==
  ASSUME Shape, NEW w \in Worker, NEW o \in Op, TakeLock(w, o)
  PROVE  Shape'
  <1> DEFINE r == run[w][o]
  <1>1. r \in Run /\ RunShape(o, r)
    BY RunFacts
  <1>2. PICK n \in PlanNodes(o) :
           \/ /\ lock' = [lock EXCEPT ![n] = [worker |-> w, op |-> o, live |-> TRUE]]
              /\ Go(w, o, [r EXCEPT !.held = @ \cup {n}])
           \/ /\ Go(w, o, [r EXCEPT !.pc = "release"])
              /\ UNCHANGED lock
    BY DEF TakeLock
  <1>3. n \in Node
    BY PlanAssumption, <1>2 DEF PlanNodes, Range
  <1>4. /\ [r EXCEPT !.held = @ \cup {n}] \in Run
        /\ RunShape(o, [r EXCEPT !.held = @ \cup {n}])
    BY <1>1, <1>3 DEF Run, RunShape
  <1>5. /\ r.pc = "lock"
        /\ [r EXCEPT !.pc = "release"] \in Run
        /\ RunShape(o, [r EXCEPT !.pc = "release"])
    BY <1>1 DEF TakeLock, Run, RunShape, Phase, Forward, Backward, Busy
  <1>6. r.call # "sent" /\ UNCHANGED remote
    BY <1>1 DEF TakeLock, RunShape, Busy
  <1>7. StoreType'
    <2>1. [worker |-> w, op |-> o, live |-> TRUE] \in Lock
      BY DEF Lock
    <2>2. lock' \in [Node -> Lock]
      BY <1>2, <2>1 DEF Shape, TypeOK
    <2> QED BY <2>2 DEF TakeLock, Shape, TypeOK, StoreType
  <1> QED BY <1>2, <1>4, <1>5, <1>6, <1>7, StepShape

\* The nodes prepared so far are to be undone.
LEMMA PrepareFailedShape ==
  ASSUME Shape, NEW w \in Worker, NEW o \in Op, PrepareFailed(w, o)
  PROVE  Shape'
  <1> DEFINE r == run[w][o]
             before == SubSeq(Plan[o], 1, Len(Plan[o]) - Len(r.todo))
             back == Reverse(before)
             q == [r EXCEPT !.pc = "revoke", !.call = "none", !.todo = back]
  <1>1. /\ r \in Run /\ RunShape(o, r) /\ doc[o] \in Document
        /\ Plan[o] \in Seq(Node) /\ IsInjective(Plan[o])
        /\ doc \in [Op -> Document]
    BY RunFacts
  <1>2. /\ Len(Plan[o]) - Len(r.todo) \in Int
        /\ Len(Plan[o]) - Len(r.todo) <= Len(Plan[o])
    <2>1. r.todo \in Seq(Node)
      BY <1>1 DEF Run
    <2>2. Len(r.todo) \in Nat /\ Len(Plan[o]) \in Nat
      BY <1>1, <2>1
    <2>3. \A x, y \in Nat : x - y \in Int /\ x - y <= x
      OBVIOUS
    <2> QED BY <2>2, <2>3
  <1>3. /\ before \in Seq(Node) /\ IsInjective(before)
        /\ Range(before) \subseteq PlanNodes(o)
    BY <1>1, <1>2, SeqPrefix DEF PlanNodes
  <1>4. /\ back \in Seq(Node) /\ IsInjective(back)
        /\ Range(back) \subseteq PlanNodes(o)
    BY <1>3, SeqReverse
  <1>5. Go(w, o, q)
    BY DEF PrepareFailed
  <1> HIDE DEF back
  <1>6. q \in Run
    BY <1>1, <1>4 DEF Run, Phase
  <1>7. RunShape(o, q)
    BY <1>1, <1>4 DEF PrepareFailed, RunShape, Run, Forward, Backward, Busy
  <1>8. r.call # "sent" /\ UNCHANGED remote
    BY DEF PrepareFailed
  <1>9. StoreType'
    <2>1. faults' \in 0 .. MaxFaults
      BY BoundAssumption DEF PrepareFailed, Fault, Shape, TypeOK
    <2>2. /\ doc' \in [Op -> Document]
          /\ \A p \in Op : doc'[p].live => doc'[p].status \in Active
      <3>1. CASE RecordNode(o, Head(r.todo), "prepared")
        BY <1>1, <3>1, RecordFacts DEF Shape, TypeOK, NodeState
      <3>2. CASE UNCHANGED doc
        BY <3>2 DEF Shape, TypeOK
      <3> QED BY <3>1, <3>2 DEF PrepareFailed
    <2> QED BY <2>1, <2>2 DEF PrepareFailed, Shape, TypeOK, StoreType
  <1> QED BY <1>5, <1>6, <1>7, <1>8, <1>9, StepShape

\* The transaction, heard of or not.
LEMMA FinalizeShape ==
  ASSUME Shape, NEW w \in Worker, NEW o \in Op, Finalize(w, o)
  PROVE  Shape'
  <1> DEFINE r == run[w][o]
             back == UndoOrder(o, 0)
             heard == [r EXCEPT !.pc = "release"]
             lost == [r EXCEPT !.pc = "revoke", !.todo = back]
  <1>1. /\ r \in Run /\ RunShape(o, r) /\ doc[o] \in Document
        /\ Plan[o] \in Seq(Node) /\ doc \in [Op -> Document]
    BY RunFacts
  <1>2. /\ back \in Seq(Node) /\ IsInjective(back)
        /\ Range(back) = PlanNodes(o)
    <2>1. 0 \in 0 .. Len(Plan[o])
      BY <1>1
    <2> QED BY <2>1, UndoOrderSound
  <1>3. Go(w, o, heard) \/ Go(w, o, lost)
    BY DEF Finalize
  <1> HIDE DEF back
  <1>4. heard \in Run /\ RunShape(o, heard)
    BY <1>1 DEF Finalize, Run, RunShape, Phase, Forward, Backward, Busy
  <1>5. lost \in Run /\ RunShape(o, lost)
    <2>1. lost \in Run
      BY <1>1, <1>2 DEF Run, Phase
    <2>2. RunShape(o, lost)
      BY <1>1, <1>2 DEF Finalize, Run, RunShape, Forward, Backward, Busy
    <2> QED BY <2>1, <2>2
  <1>6. r.call # "sent" /\ UNCHANGED remote
    BY <1>1 DEF Finalize, RunShape, Busy
  <1>7. StoreType'
    BY <1>1 DEF Finalize, Shape, TypeOK, StoreType, Document, Terminal
  <1> QED BY <1>3, <1>4, <1>5, <1>6, <1>7, StepShape

\* One node fewer to undo, and its outcome on record.
LEMMA UndoneShape ==
  ASSUME Shape, NEW w \in Worker, NEW o \in Op, Undone(w, o)
  PROVE  Shape'
  <1> DEFINE r == run[w][o]
             rest == Tail(r.todo)
             state == IF r.call = "ok"
                      THEN IF r.retry THEN "pending" ELSE "rolled_back"
                      ELSE "failed"
             q == [r EXCEPT !.call = "none", !.todo = rest,
                            !.bad = @ \/ r.call # "ok"]
  <1>1. /\ r \in Run /\ RunShape(o, r) /\ doc[o] \in Document
        /\ doc \in [Op -> Document]
    BY RunFacts
  <1>2. r.todo # <<>> /\ r.pc = "undo"
    BY <1>1 DEF Undone, RunShape
  <1>3. /\ rest \in Seq(Node)
        /\ Range(rest) \subseteq Range(r.todo)
        /\ IsInjective(r.todo) => IsInjective(rest)
    BY <1>1, <1>2, SeqTail DEF Run
  <1>4. Go(w, o, q) /\ RecordNode(o, Head(r.todo), state)
    BY DEF Undone
  <1> HIDE DEF rest
  <1>5. q \in Run
    BY <1>1, <1>3 DEF Run
  <1>6. RunShape(o, q)
    BY <1>1, <1>2, <1>3 DEF Run, RunShape, Forward, Backward
  <1>7. r.call # "sent" /\ UNCHANGED remote
    BY DEF Undone
  <1>8. StoreType'
    <2>1. state \in NodeState
      BY DEF NodeState
    <2> QED BY <1>1, <1>4, <2>1, RecordFacts
            DEF Undone, Shape, TypeOK, StoreType
  <1> QED BY <1>4, <1>5, <1>6, <1>7, <1>8, StepShape

LEMMA ReleaseLockShape ==
  ASSUME Shape, NEW w \in Worker, NEW o \in Op, ReleaseLock(w, o)
  PROVE  Shape'
  <1> DEFINE r == run[w][o]
  <1>1. r \in Run /\ RunShape(o, r)
    BY RunFacts
  <1>2. PICK n \in r.held : Go(w, o, [r EXCEPT !.held = @ \ {n}])
    BY DEF ReleaseLock
  <1>3. /\ [r EXCEPT !.held = @ \ {n}] \in Run
        /\ RunShape(o, [r EXCEPT !.held = @ \ {n}])
    BY <1>1 DEF Run, RunShape
  <1>4. r.call # "sent" /\ UNCHANGED remote
    BY <1>1 DEF ReleaseLock, RunShape, Busy
  <1>5. faults' \in 0 .. MaxFaults /\ lock' \in [Node -> Lock]
    <2>1. NoLock \in Lock
      BY DEF NoLock, Lock
    <2>2. \A m : [lock EXCEPT ![m] = NoLock] \in [Node -> Lock]
      BY <2>1 DEF Shape, TypeOK
    <2>3. faults' \in 0 .. MaxFaults
      BY BoundAssumption DEF ReleaseLock, Fault, Shape, TypeOK
    <2> QED BY <2>2, <2>3 DEF ReleaseLock, Shape, TypeOK
  <1>6. StoreType'
    BY <1>5 DEF ReleaseLock, Shape, TypeOK, StoreType
  <1> QED BY <1>2, <1>3, <1>4, <1>6, StepShape

\* A command leaves with the run's own program counter and node.
LEMMA SendShape ==
  ASSUME Shape, NEW w \in Worker, NEW o \in Op, Send(w, o)
  PROVE  Shape'
  <1> DEFINE r == run[w][o]
             c == [by |-> w, op |-> o, node |-> Head(r.todo),
                   cmd |-> CommandOf(r.pc)]
             q(call) == [r EXCEPT !.call = call]
  <1>1. r \in Run /\ RunShape(o, r) /\ r.pc \in Busy /\ r.todo # <<>>
    BY RunFacts DEF Send
  <1>2. r.call = "none"
    BY DEF Send
  <1>3. \A call \in {"sent", "unsent"} : q(call) \in Run /\ RunShape(o, q(call))
    BY <1>1 DEF Run, RunShape, Forward, Backward
  <1>4. c \in Sent
    <2>1. Head(r.todo) \in Node
      BY <1>1, SeqTail DEF Run
    <2>2. CommandOf(r.pc) \in Command
      BY <1>1 DEF CommandOf, Command, Busy
    <2> QED BY <2>1, <2>2 DEF Sent
  <1>5. StoreType'
    BY DEF Send, Shape, TypeOK, StoreType, store
  <1>6. CASE Go(w, o, q("unsent")) /\ UNCHANGED remote
    BY <1>2, <1>3, <1>5, <1>6, StepShape
  <1>7. CASE Go(w, o, q("sent")) /\ remote' = remote \cup {c}
    <2>1. run \in [Worker -> [Op -> Run]]
      BY DEF Shape, TypeOK
    <2>2. /\ run' \in [Worker -> [Op -> Run]]
          /\ \A v \in Worker, p \in Op :
                run'[v][p] = IF v = w /\ p = o THEN q("sent") ELSE run[v][p]
      BY <1>3, <1>7, <2>1 DEF Go
    <2>3. \A v \in Worker, p \in Op : RunShape(p, run'[v][p])
      BY <1>3, <2>2 DEF Shape
    <2>4. TypeOK'
      BY <1>4, <1>5, <1>7, <2>2 DEF Shape, TypeOK, StoreType
    <2>5. \A d \in remote : d.by # Nobody =>
             d.by \in Worker /\ d.op \in Op /\ ~(d.by = w /\ d.op = o)
      BY <1>2 DEF Shape, TypeOK, Sent, RemoteSound
    <2>6. /\ q("sent").call = "sent" /\ q("sent").pc = r.pc
          /\ q("sent").todo = r.todo
      BY <1>1 DEF Run
    <2>7. RemoteSound'
      <3>1. ASSUME NEW d \in remote, d.by # Nobody
            PROVE  LET s == run'[d.by][d.op] IN
                   s.call = "sent" /\ d.cmd = CommandOf(s.pc) /\ d.node = Head(s.todo)
        <4>1. run'[d.by][d.op] = run[d.by][d.op]
          BY <2>2, <2>5, <3>1
        <4> QED BY <3>1, <4>1 DEF Shape, RemoteSound
      <3>2. LET s == run'[c.by][c.op] IN
            s.call = "sent" /\ c.cmd = CommandOf(s.pc) /\ c.node = Head(s.todo)
        BY <2>2, <2>6
      <3> QED BY <1>7, <3>1, <3>2 DEF RemoteSound
    <2> QED BY <2>3, <2>4, <2>7 DEF Shape
  <1> QED BY <1>6, <1>7 DEF Send

\* What a node may become.
LEMMA RunnerFacts ==
  ASSUME NEW h \in Host, NEW o \in Op, NEW cmd \in Command, doc \in [Op -> Document],
         NEW g \in RunnerOk(h, o, cmd) \cup RunnerFails(h, o, cmd)
  PROVE  /\ g \in Host
         /\ \A p \in Op : h.state[p] = "bound" => g.state[p] = "bound"
         /\ g \in RunnerOk(h, o, cmd) => g.state[o] = "bound"
  <1>1. doc[o].rev \in Revision
    BY DEF Document
  <1>2. /\ [h EXCEPT !.config = doc[o].rev] \in Host
        /\ [h EXCEPT !.config = h.backup[o]] \in Host
        /\ [h EXCEPT !.state[o] = "bound", !.backup[o] = h.config] \in Host
        /\ [h EXCEPT !.state[o] = "partial"] \in Host
    BY <1>1 DEF Host
  <1>3. ASSUME g \in RunnerOk(h, o, cmd)
        PROVE  /\ g \in Host /\ g.state[o] = "bound"
               /\ \A p \in Op : h.state[p] = "bound" => g.state[p] = "bound"
    <2>1. CASE cmd = "prepare"
      <3>1. /\ h.state[o] = "absent"
            /\ g = [h EXCEPT !.state[o] = "bound", !.backup[o] = h.config]
        BY <1>3, <2>1 DEF RunnerOk
      <3> QED BY <1>2, <3>1 DEF Host
    <2>2. CASE cmd = "commit"
      <3>1. h.state[o] = "bound" /\ g = [h EXCEPT !.config = doc[o].rev]
        BY <1>3, <2>2 DEF RunnerOk
      <3> QED BY <1>2, <3>1 DEF Host
    <2>3. CASE cmd = "verify"
      BY <1>3, <2>3 DEF RunnerOk
    <2>4. CASE cmd = "rollback"
      <3>1. h.state[o] = "bound" /\ g = [h EXCEPT !.config = h.backup[o]]
        BY <1>3, <2>4 DEF RunnerOk
      <3> QED BY <1>2, <3>1 DEF Host
    <2> QED BY <2>1, <2>2, <2>3, <2>4 DEF Command
  <1>4. ASSUME g = [h EXCEPT !.state[o] = "partial"], h.state[o] = "absent"
        PROVE  /\ g \in Host
               /\ \A p \in Op : h.state[p] = "bound" => g.state[p] = "bound"
    BY <1>2, <1>4 DEF Host
  <1> QED BY <1>3, <1>4, SMT DEF RunnerFails, RunnerOk, Command

\* A command carried out and answered.
LEMMA ExecuteShape ==
  ASSUME Shape, NEW c \in remote, Execute(c)
  PROVE  Shape'
  <1>1. /\ c \in Sent /\ doc \in [Op -> Document] /\ host \in [Node -> Host]
        /\ run \in [Worker -> [Op -> Run]]
    BY DEF Shape, TypeOK
  <1>2. /\ c.op \in Op /\ c.node \in Node /\ c.cmd \in Command
        /\ c.by \in Worker \cup {Nobody}
    BY <1>1 DEF Sent
  <1>3. PICK how \in {"ok", "error"} :
          /\ \E h \in RunnerOk(host[c.node], c.op, c.cmd)
                        \cup RunnerFails(host[c.node], c.op, c.cmd) :
                host' = [host EXCEPT ![c.node] = h]
          /\ Answer(c, how)
    BY DEF Execute
  <1>4. host' \in [Node -> Host]
    BY <1>1, <1>2, <1>3, RunnerFacts
  <1>5. CASE c.by = Nobody
    <2>1. run' = run
      BY <1>3, <1>5 DEF Answer
    <2> QED BY <1>4, <2>1 DEF Execute, Shape, TypeOK, RemoteSound, store
  <1>6. CASE c.by # Nobody
    <2> DEFINE w == c.by  o == c.op  r == run[w][o]
               q == [r EXCEPT !.call = how]
    <2>1. w \in Worker /\ o \in Op /\ r \in Run /\ RunShape(o, r)
      BY <1>2, <1>6, RunFacts
    <2>2. r.call = "sent" /\ c.cmd = CommandOf(r.pc) /\ c.node = Head(r.todo)
      BY <1>6 DEF Shape, RemoteSound
    <2>3. q \in Run /\ RunShape(o, q)
      BY <2>1, <2>2 DEF Run, RunShape
    <2>4. /\ run' \in [Worker -> [Op -> Run]]
          /\ \A v \in Worker, p \in Op :
                run'[v][p] = IF v = w /\ p = o THEN q ELSE run[v][p]
      BY <1>1, <1>3, <1>6, <2>1, <2>3 DEF Answer
    <2>5. \A v \in Worker, p \in Op : RunShape(p, run'[v][p])
      BY <2>3, <2>4 DEF Shape
    <2>6. ASSUME NEW d \in remote', d.by = w, d.op = o PROVE FALSE
      <3>1. d \in Sent /\ d \in remote /\ d # c
        BY <2>6 DEF Execute, Shape, TypeOK
      <3>2. d.cmd = CommandOf(r.pc) /\ d.node = Head(r.todo)
        BY <1>6, <2>6, <3>1 DEF Shape, RemoteSound
      <3> QED BY <1>1, <2>2, <2>6, <3>1, <3>2 DEF Sent
    <2>7. RemoteSound'
      <3>1. \A d \in remote' : d \in remote /\ d \in Sent
        BY DEF Execute, Shape, TypeOK
      <3>2. \A d \in remote' : d.by # Nobody =>
               d.by \in Worker /\ d.op \in Op /\ run'[d.by][d.op] = run[d.by][d.op]
        BY <2>4, <2>6, <3>1 DEF Sent
      <3> QED BY <3>1, <3>2 DEF Shape, RemoteSound
    <2>8. TypeOK'
      BY <1>4, <2>4 DEF Execute, Shape, TypeOK, store
    <2> QED BY <2>5, <2>7, <2>8 DEF Shape
  <1> QED BY <1>5, <1>6

\* Commands nobody waits for any more.
LEMMA OrphanSound ==
  ASSUME NEW c \in Sent
  PROVE  Orphan(c) \in Sent /\ Orphan(c).by = Nobody /\ Orphan(c).op = c.op
         /\ Orphan(c).cmd = c.cmd
  BY DEF Orphan, Sent

LEMMA TimeOutShape ==
  ASSUME Shape, NEW w \in Worker, NEW o \in Op, TimeOut(w, o)
  PROVE  Shape'
  <1> DEFINE r == run[w][o]
             q == [r EXCEPT !.call = "error"]
  <1>1. /\ r \in Run /\ RunShape(o, r) /\ run \in [Worker -> [Op -> Run]]
        /\ r.call = "sent"
    BY RunFacts DEF Shape, TypeOK, TimeOut
  <1>2. q \in Run /\ RunShape(o, q)
    BY <1>1 DEF Run, RunShape
  <1>3. /\ run' \in [Worker -> [Op -> Run]]
        /\ \A v \in Worker, p \in Op :
              run'[v][p] = IF v = w /\ p = o THEN q ELSE run[v][p]
    BY <1>1, <1>2 DEF TimeOut, Go
  <1>4. \A v \in Worker, p \in Op : RunShape(p, run'[v][p])
    BY <1>2, <1>3 DEF Shape
  <1>5. \A d \in remote' : /\ d \in Sent
                           /\ d.by # Nobody => d \in remote /\ ~(d.by = w /\ d.op = o)
    BY OrphanSound DEF TimeOut, Shape, TypeOK
  <1>6. RemoteSound'
    <2>1. \A d \in remote' : d.by # Nobody =>
             d \in remote /\ run'[d.by][d.op] = run[d.by][d.op]
      BY <1>3, <1>5 DEF Sent
    <2> QED BY <2>1 DEF Shape, RemoteSound
  <1>7. faults' \in 0 .. MaxFaults
    BY BoundAssumption DEF TimeOut, Fault, Shape, TypeOK
  <1>8. TypeOK'
    BY <1>3, <1>5, <1>7 DEF TimeOut, Shape, TypeOK, store
  <1> QED BY <1>4, <1>6, <1>8 DEF Shape

LEMMA CrashShape ==
  ASSUME Shape, NEW w \in Worker, Crash(w)
  PROVE  Shape'
  <1>1. run \in [Worker -> [Op -> Run]] /\ Idle \in Run
    BY DEF Shape, TypeOK, Idle, Run, Phase
  <1>2. /\ run' \in [Worker -> [Op -> Run]]
        /\ \A v \in Worker, p \in Op :
              run'[v][p] = IF v = w THEN Idle ELSE run[v][p]
    BY <1>1 DEF Crash
  <1>3. \A p \in Op : RunShape(p, Idle)
    BY DEF RunShape, Idle, Forward, Backward
  <1>4. \A v \in Worker, p \in Op : RunShape(p, run'[v][p])
    BY <1>2, <1>3 DEF Shape
  <1>5. \A d \in remote' : /\ d \in Sent
                           /\ d.by # Nobody => d \in remote /\ d.by # w
    BY OrphanSound DEF Crash, Shape, TypeOK
  <1>6. RemoteSound'
    <2>1. \A d \in remote' : d.by # Nobody =>
             d \in remote /\ run'[d.by][d.op] = run[d.by][d.op]
      BY <1>2, <1>5 DEF Sent
    <2> QED BY <2>1 DEF Shape, RemoteSound
  <1>7. faults' \in 0 .. MaxFaults
    BY BoundAssumption DEF Crash, Fault, Shape, TypeOK
  <1>8. queuedAs' \in [Worker -> [Revision -> Op \cup {Nobody}]]
    BY DEF Crash, Shape, TypeOK
  <1>9. TypeOK'
    BY <1>2, <1>5, <1>7, <1>8 DEF Crash, Shape, TypeOK, store
  <1> QED BY <1>4, <1>6, <1>9 DEF Shape

\* Edits, requests and the clock do not touch the runs.
LEMMA OthersShape ==
  ASSUME Shape,
         \/ EditDraft
         \/ \E w \in Worker, o \in Op : Queue(w, o)
         \/ \E o \in Op : ExpireOp(o)
         \/ \E n \in Node : ExpireLock(n)
         \/ UNCHANGED vars
  PROVE  Shape'
  <1> SUFFICES TypeOK' /\ UNCHANGED <<run, remote>>
    BY DEF Shape, RemoteSound
  <1>1. CASE EditDraft
    BY <1>1, BoundAssumption DEF EditDraft, Shape, TypeOK, Revision
  <1>2. ASSUME NEW w \in Worker, NEW o \in Op, Queue(w, o)
        PROVE  TypeOK' /\ UNCHANGED <<run, remote>>
    <2> DEFINE d == [doc[o] EXCEPT !.status = "queued", !.rev = revision,
                                   !.prior = deployed]
    <2>1. /\ doc \in [Op -> Document] /\ doc' = [doc EXCEPT ![o] = d]
          /\ revision \in Revision /\ deployed \in Revision
          /\ doc[o].status = "none"
      BY <1>2 DEF Queue, Shape, TypeOK
    <2>2. d \in Document /\ d.live = doc[o].live
      BY <2>1 DEF Document
    <2>3. queuedAs' \in [Worker -> [Revision -> Op \cup {Nobody}]]
      BY <1>2 DEF Queue, Shape, TypeOK
    <2>4. \A p \in Op : doc'[p].live => doc'[p].status \in Active
      BY <2>1, <2>2 DEF Shape, TypeOK, Active
    <2>5. doc' \in [Op -> Document]
      BY <2>1, <2>2
    <2> QED BY <1>2, <2>3, <2>4, <2>5 DEF Queue, Shape, TypeOK
  <1>3. ASSUME NEW o \in Op, ExpireOp(o)
        PROVE  TypeOK' /\ UNCHANGED <<run, remote>>
    <2>1. /\ doc' \in [Op -> Document]
          /\ \A p \in Op : doc'[p].live => doc'[p].status \in Active
      BY <1>3 DEF ExpireOp, Shape, TypeOK, Document
    <2>2. faults' \in 0 .. MaxFaults
      BY <1>3, BoundAssumption DEF ExpireOp, RunsOut, Fault, Shape, TypeOK
    <2> QED BY <1>3, <2>1, <2>2 DEF ExpireOp, Shape, TypeOK
  <1>4. ASSUME NEW n \in Node, ExpireLock(n)
        PROVE  TypeOK' /\ UNCHANGED <<run, remote>>
    <2>1. lock' \in [Node -> Lock]
      BY <1>4 DEF ExpireLock, Shape, TypeOK, Lock
    <2>2. faults' \in 0 .. MaxFaults
      BY <1>4, BoundAssumption DEF ExpireLock, RunsOut, Fault, Shape, TypeOK
    <2> QED BY <1>4, <2>1, <2>2 DEF ExpireLock, Shape, TypeOK
  <1>5. CASE UNCHANGED vars
    BY <1>5 DEF vars, Shape, TypeOK
  <1> QED BY <1>1, <1>2, <1>3, <1>4, <1>5

LEMMA InitShape == Init => Shape
  <1> SUFFICES ASSUME Init PROVE Shape
    OBVIOUS
  <1>1. Idle \in Run /\ \A o \in Op : RunShape(o, Idle)
    BY DEF Idle, Run, Phase, RunShape, Forward, Backward
  <1>2. 0 \in Revision /\ 1 \in Revision /\ 0 \in 0 .. MaxFaults
    BY BoundAssumption DEF Revision
  <1>3. /\ doc \in [Op -> Document]
        /\ \A o \in Op : doc[o].live => doc[o].status \in Active
    BY <1>2 DEF Init, Document, NodeState
  <1>4. lock \in [Node -> Lock] /\ host \in [Node -> Host]
    BY <1>2 DEF Init, Lock, NoLock, Host
  <1>5. TypeOK
    BY <1>1, <1>2, <1>3, <1>4 DEF Init, TypeOK
  <1> QED BY <1>1, <1>5 DEF Init, Shape, RemoteSound

LEMMA NextShape == Shape /\ [Next]_vars => Shape'
  <1> SUFFICES ASSUME Shape, [Next]_vars PROVE Shape'
    OBVIOUS
  <1>1. ASSUME NEW w \in Worker, NEW o \in Op, Step(w, o) PROVE Shape'
    <2>1. CASE TakeLock(w, o) \/ LocksTaken(w, o) \/ Send(w, o)
      BY <2>1, TakeLockShape, LocksTakenShape, SendShape
    <2>2. CASE Prepared(w, o) \/ PrepareRejected(w, o) \/ PrepareFailed(w, o)
      BY <2>2, PreparedShape, PrepareRejectedShape, PrepareFailedShape
    <2>3. CASE Seal(w, o) \/ Committed(w, o) \/ Verified(w, o) \/ CommitFailed(w, o)
      BY <2>3, SealShape, CommittedShape, VerifiedShape, CommitFailedShape
    <2>4. CASE Finalize(w, o) \/ FinalizeRejected(w, o)
      BY <2>4, FinalizeShape, FinalizeRejectedShape
    <2>5. CASE Revoke(w, o) \/ Undone(w, o) \/ Skip(w, o) \/ Retry(w, o) \/ Finish(w, o)
      BY <2>5, RevokeShape, UndoneShape, SkipShape, RetryShape, FinishShape
    <2>6. CASE Abort(w, o) \/ ReleaseLock(w, o) \/ EndRun(w, o)
      BY <2>6, AbortShape, ReleaseLockShape, EndRunShape
    <2> QED BY <1>1, <2>1, <2>2, <2>3, <2>4, <2>5, <2>6 DEF Step
  <1>2. ASSUME NEW w \in Worker, NEW o \in Op, Claim(w, o) PROVE Shape'
    BY <1>2, ClaimShape
  <1>3. ASSUME NEW w \in Worker, NEW o \in Op, TimeOut(w, o) PROVE Shape'
    BY <1>3, TimeOutShape
  <1>4. ASSUME NEW c \in remote, Execute(c) PROVE Shape'
    BY <1>4, ExecuteShape
  <1>5. ASSUME NEW w \in Worker, Crash(w) PROVE Shape'
    BY <1>5, CrashShape
  <1> QED BY <1>1, <1>2, <1>3, <1>4, <1>5, OthersShape DEF Next

LEMMA ShapeHolds == Spec => []Shape
  <1> QED BY InitShape, NextShape, PTL DEF Spec

\* The documents, locks, runs, commands and nodes keep their types, and a
\* lease is live only on an operation that is under way.
THEOREM TypeCorrect == Spec => []TypeOK
  <1>1. Shape => TypeOK
    BY DEF Shape
  <1> QED BY <1>1, ShapeHolds, PTL

-----------------------------------------------------------------------------
(* The ledger.                                                             *)

\* A step that ends no operation, opens none and finalises none is a stutter.
LEMMA LedgerStutter ==
  ASSUME doc \in [Op -> Document], doc' \in [Op -> Document],
         UNCHANGED <<revision, deployed>>,
         \A o \in Op : /\ doc'[o].rev = doc[o].rev
                       /\ doc'[o].prior = doc[o].prior
                       /\ \/ doc'[o].status = doc[o].status
                          \/ {doc[o].status, doc'[o].status}
                                \subseteq {"queued"} \cup Active
  PROVE  UNCHANGED Ledger!lvars
  <1>1. LedgerOutcome' = LedgerOutcome
    BY DEF LedgerOutcome, Active, Terminal
  <1>2. LedgerPin' = LedgerPin
    BY DEF LedgerPin
  <1> QED BY <1>1, <1>2 DEF Ledger!lvars

\* One operation changes its status, its pin stays.
LEMMA LedgerStatus ==
  ASSUME doc \in [Op -> Document], doc' \in [Op -> Document], NEW o \in Op,
         \A p \in Op : /\ doc'[p].rev = doc[p].rev
                       /\ doc'[p].prior = doc[p].prior
                       /\ p # o => doc'[p].status = doc[p].status,
         doc[o].status \in Active, doc'[o].status \in Terminal
  PROVE  /\ LedgerOutcome[o] = "open"
         /\ LedgerOutcome' = [LedgerOutcome EXCEPT ![o] = doc'[o].status]
         /\ LedgerPin' = LedgerPin
  BY DEF LedgerOutcome, LedgerPin, Active, Terminal

LEMMA LedgerInit == Init => Ledger!LInit
  BY DEF Init, Ledger!LInit, LedgerOutcome, LedgerPin, Terminal, Ledger!NoPin

\* Steps of a run that leave the documents alone, or one node entry apart.
LEMMA LedgerQuietStep ==
  ASSUME Shape, Shape', NEW w \in Worker, NEW o \in Op,
         \/ Step(w, o) /\ ~Finalize(w, o) /\ ~Finish(w, o)
         \/ Claim(w, o)
         \/ TimeOut(w, o)
  PROVE  UNCHANGED Ledger!lvars
  <1> DEFINE Keeps == \A p \in Op :
                /\ doc'[p].rev = doc[p].rev
                /\ doc'[p].prior = doc[p].prior
                /\ \/ doc'[p].status = doc[p].status
                   \/ {doc[p].status, doc'[p].status} \subseteq {"queued"} \cup Active
  <1>1. doc \in [Op -> Document] /\ doc' \in [Op -> Document]
    BY DEF Shape, TypeOK
  <1> SUFFICES UNCHANGED <<revision, deployed>> /\ Keeps
    BY <1>1, LedgerStutter
  <1>2. CASE \/ TakeLock(w, o) \/ LocksTaken(w, o) \/ Send(w, o) \/ PrepareRejected(w, o)
             \/ Verified(w, o) \/ CommitFailed(w, o) \/ FinalizeRejected(w, o)
             \/ Skip(w, o) \/ Retry(w, o) \/ Abort(w, o) \/ ReleaseLock(w, o)
             \/ EndRun(w, o) \/ TimeOut(w, o)
    <2>1. UNCHANGED <<revision, deployed, doc>>
      BY <1>2 DEF TakeLock, LocksTaken, Send, PrepareRejected, Verified, CommitFailed,
                  FinalizeRejected, Skip, Retry, Abort, ReleaseLock, EndRun, TimeOut, store
    <2> QED BY <2>1
  <1>3. CASE Prepared(w, o) \/ Committed(w, o) \/ Undone(w, o) \/ PrepareFailed(w, o)
    <2>1. /\ UNCHANGED <<revision, deployed>>
          /\ \/ UNCHANGED doc
             \/ \E n, state : state \in NodeState /\ RecordNode(o, n, state)
      BY <1>3 DEF Prepared, Committed, Undone, PrepareFailed, NodeState
    <2> QED BY <1>1, <2>1, RecordFacts
  <1>4. CASE Seal(w, o) \/ Revoke(w, o)
    BY <1>1, <1>4 DEF Seal, Revoke, Active, Document
  <1>5. CASE Claim(w, o)
    BY <1>1, <1>5 DEF Claim, Active, Document
  <1> QED BY <1>2, <1>3, <1>4, <1>5 DEF Step

LEMMA LedgerNext == Shape /\ Shape' /\ [Next]_vars => [Ledger!LNext]_(Ledger!lvars)
  <1> SUFFICES ASSUME Shape, Shape', [Next]_vars
               PROVE  Ledger!LNext \/ UNCHANGED Ledger!lvars
    OBVIOUS
  <1>1. doc \in [Op -> Document] /\ doc' \in [Op -> Document]
    BY DEF Shape, TypeOK
  <1>2. CASE EditDraft
    <2>1. Ledger!Edit
      BY <1>2 DEF EditDraft, Ledger!Edit, LedgerOutcome, LedgerPin
    <2> QED BY <2>1 DEF Ledger!LNext
  <1>3. ASSUME NEW w \in Worker, NEW o \in Op, Queue(w, o) PROVE Ledger!LNext
    <2>1. /\ doc' = [doc EXCEPT ![o] = [doc[o] EXCEPT !.status = "queued",
                                             !.rev = revision, !.prior = deployed]]
          /\ doc[o].status = "none" /\ UNCHANGED <<revision, deployed>>
      BY <1>3 DEF Queue
    <2>2. /\ doc'[o].status = "queued" /\ doc'[o].rev = revision
          /\ doc'[o].prior = deployed
          /\ \A p \in Op : p # o => doc'[p] = doc[p]
      BY <1>1, <2>1 DEF Document
    <2>3. /\ LedgerOutcome[o] = "none"
          /\ LedgerOutcome' = [LedgerOutcome EXCEPT ![o] = "open"]
      BY <2>1, <2>2 DEF LedgerOutcome, Terminal
    <2>4. LedgerPin' = [LedgerPin EXCEPT ![o] = [rev |-> revision, prior |-> deployed]]
      BY <2>2 DEF LedgerPin
    <2>5. Ledger!Open(o)
      BY <2>1, <2>3, <2>4 DEF Ledger!Open
    <2> QED BY <2>5 DEF Ledger!LNext
  <1>4. ASSUME NEW w \in Worker, NEW o \in Op, Finalize(w, o) PROVE Ledger!LNext
    <2>1. /\ doc' = [doc EXCEPT ![o] = [doc[o] EXCEPT !.status = "succeeded",
                                                      !.live = FALSE]]
          /\ deployed' = doc[o].rev /\ UNCHANGED revision
          /\ doc[o].status \in Active
          /\ doc[o].rev = revision /\ doc[o].prior = deployed
      BY <1>4 DEF Finalize, OwnsOp
    <2>2. /\ doc'[o].status = "succeeded" /\ doc'[o].rev = doc[o].rev
          /\ doc'[o].prior = doc[o].prior
          /\ \A p \in Op : p # o => doc'[p] = doc[p]
      BY <1>1, <2>1 DEF Document
    <2>3. /\ LedgerOutcome[o] = "open"
          /\ LedgerOutcome' = [LedgerOutcome EXCEPT ![o] = "succeeded"]
          /\ LedgerPin' = LedgerPin
      BY <1>1, <2>1, <2>2, LedgerStatus DEF Terminal
    <2>4. LedgerPin[o] = [rev |-> revision, prior |-> deployed]
      BY <2>1 DEF LedgerPin
    <2>5. Ledger!Succeed(o)
      BY <2>1, <2>3, <2>4 DEF Ledger!Succeed
    <2> QED BY <2>5 DEF Ledger!LNext
  <1>5. ASSUME NEW w \in Worker, NEW o \in Op, Finish(w, o) PROVE Ledger!LNext
    <2> DEFINE end == IF run[w][o].bad THEN "failed" ELSE "rolled_back"
    <2>1. /\ doc' = [doc EXCEPT ![o] = [doc[o] EXCEPT !.status = end, !.live = FALSE]]
          /\ UNCHANGED <<revision, deployed>>
          /\ doc[o].status \in Active
      BY <1>5 DEF Finish, OwnsOp
    <2>2. /\ doc'[o].status = end /\ doc'[o].rev = doc[o].rev
          /\ doc'[o].prior = doc[o].prior
          /\ \A p \in Op : p # o => doc'[p] = doc[p]
      BY <1>1, <2>1 DEF Document
    <2>3. /\ LedgerOutcome[o] = "open"
          /\ LedgerOutcome' = [LedgerOutcome EXCEPT ![o] = end]
          /\ LedgerPin' = LedgerPin
      BY <1>1, <2>1, <2>2, LedgerStatus DEF Terminal
    <2>4. end \in Ledger!Ended \ {"succeeded"}
      BY DEF Ledger!Ended
    <2> HIDE DEF end
    <2>5. Ledger!GiveUp(o)
      BY <2>1, <2>3, <2>4 DEF Ledger!GiveUp
    <2> QED BY <2>5 DEF Ledger!LNext
  <1>6. ASSUME UNCHANGED <<revision, deployed, doc>> PROVE UNCHANGED Ledger!lvars
    BY <1>1, <1>6, LedgerStutter
  <1>7. ASSUME NEW w \in Worker, NEW o \in Op, Step(w, o)
        PROVE  Ledger!LNext \/ UNCHANGED Ledger!lvars
    BY <1>4, <1>5, <1>7, LedgerQuietStep
  <1>8. ASSUME \/ \E c \in remote : Execute(c)
               \/ \E w \in Worker : Crash(w)
               \/ \E n \in Node : ExpireLock(n)
               \/ UNCHANGED vars
        PROVE  UNCHANGED Ledger!lvars
    BY <1>6, <1>8 DEF Execute, Crash, ExpireLock, store, vars
  <1>9. ASSUME NEW w \in Worker, NEW o \in Op, Claim(w, o) \/ TimeOut(w, o)
        PROVE  UNCHANGED Ledger!lvars
    BY <1>9, LedgerQuietStep
  <1>10. ASSUME NEW o \in Op, ExpireOp(o) PROVE UNCHANGED Ledger!lvars
    <2>1. UNCHANGED <<revision, deployed>> /\ doc' = [doc EXCEPT ![o] =
                                                  [doc[o] EXCEPT !.live = FALSE]]
      BY <1>10 DEF ExpireOp
    <2>2. \A p \in Op : /\ doc'[p].rev = doc[p].rev
                        /\ doc'[p].prior = doc[p].prior
                        /\ doc'[p].status = doc[p].status
      BY <1>1, <2>1 DEF Document
    <2> QED BY <1>1, <2>1, <2>2, LedgerStutter
  <1> QED BY <1>2, <1>3, <1>7, <1>8, <1>9, <1>10 DEF Next

\* The documents implement the ledger: the deployed revision moves in one step
\* with the success of an operation pinned to the draft and to the revision
\* deployed before it, and no operation ends twice - whatever crashed, expired
\* or was taken over.
THEOREM ImplementsLedger == Spec => LedgerSpec
  <1>1. Spec => Ledger!LInit /\ [][Ledger!LNext]_(Ledger!lvars)
    BY LedgerInit, LedgerNext, ShapeHolds, PTL DEF Spec
  <1> QED BY <1>1 DEF LedgerSpec, Ledger!LSpec


-----------------------------------------------------------------------------
(***************************************************************************)
(* No commit is on its way to a node before every node of the operation    *)
(* holds a bound backup, for every number of processes, operations, nodes  *)
(* and faults, commands that outlive their lease included.                 *)
(*                                                                         *)
(* BackupsFirst speaks of documents and commands.  It is inductive only    *)
(* together with what each run knows: while it prepares, the nodes no      *)
(* longer on its list are bound, and from the seal on all of them are.     *)
(* That knowledge never goes stale, because no command unbinds a node: a   *)
(* run may lose its lease and its locks and still be right about it.       *)
(***************************************************************************)

\* All nodes of o hold a bound backup, the hosts being h.
AllBound(h, o) == \A n \in PlanNodes(o) : h[n].state[o] = "bound"

\* What a run r of o knows of the hosts h.
RunBacked(h, o, r) ==
    /\ r.pc = "prepare" =>
          \A n \in PlanNodes(o) \ Range(r.todo) : h[n].state[o] = "bound"
    /\ r.pc = "prepare" /\ r.call = "ok" => h[Head(r.todo)].state[o] = "bound"
    /\ r.pc \in {"seal", "commit", "verify", "finalize"} => AllBound(h, o)

Backups ==
    /\ \A w \in Worker, o \in Op : RunBacked(host, o, run[w][o])
    /\ \A o \in Op :
          doc[o].status \in {"committing", "succeeded"} => AllBound(host, o)
    /\ \A c \in remote : c.cmd = "commit" => AllBound(host, c.op)

-----------------------------------------------------------------------------
\* No command takes a bound backup away.
LEMMA BoundStays ==
  ASSUME Shape, [Next]_vars, NEW n \in Node, NEW o \in Op,
         host[n].state[o] = "bound"
  PROVE  host'[n].state[o] = "bound"
  <1>1. ASSUME NEW c \in remote, Execute(c)
        PROVE  host'[n].state[o] = "bound"
    <2>1. /\ c \in Sent /\ host \in [Node -> Host] /\ doc \in [Op -> Document]
      BY DEF Shape, TypeOK
    <2>2. c.op \in Op /\ c.node \in Node /\ c.cmd \in Command
      BY <2>1 DEF Sent
    <2>3. PICK h \in RunnerOk(host[c.node], c.op, c.cmd)
                        \cup RunnerFails(host[c.node], c.op, c.cmd) :
                host' = [host EXCEPT ![c.node] = h]
      BY <1>1 DEF Execute
    <2>4. host[c.node].state[o] = "bound" => h.state[o] = "bound"
      BY <2>1, <2>2, <2>3, RunnerFacts
    <2> QED BY <2>1, <2>2, <2>3, <2>4
  <1>2. ASSUME NEW w \in Worker, NEW p \in Op, Step(w, p) PROVE host' = host
    BY <1>2 DEF Step, TakeLock, LocksTaken, Send, Prepared, PrepareRejected,
                PrepareFailed, Seal, Committed, Verified, CommitFailed, Finalize,
                FinalizeRejected, Revoke, Undone, Skip, Retry, Finish, Abort,
                ReleaseLock, EndRun
  <1>3. ASSUME NEW w \in Worker, NEW p \in Op,
               Queue(w, p) \/ Claim(w, p) \/ TimeOut(w, p)
        PROVE  host' = host
    BY <1>3 DEF Queue, Claim, TimeOut
  <1>4. ASSUME \/ EditDraft \/ \E w \in Worker : Crash(w)
               \/ \E p \in Op : ExpireOp(p) \/ \E m \in Node : ExpireLock(m)
               \/ UNCHANGED vars
        PROVE  host' = host
    BY <1>4 DEF EditDraft, Crash, ExpireOp, ExpireLock, vars
  <1> QED BY <1>1, <1>2, <1>3, <1>4 DEF Next

\* So what a run knows stays true whatever the hosts become.
LEMMA KnowledgeStays ==
  ASSUME Shape, [Next]_vars, NEW o \in Op, NEW r \in Run, RunShape(o, r),
         RunBacked(host, o, r)
  PROVE  RunBacked(host', o, r)
  <1>1. PlanNodes(o) \subseteq Node
    BY PlanAssumption DEF PlanNodes, Range
  <1>2. r.pc = "prepare" => Head(r.todo) \in Node
    BY SeqTail DEF Run, RunShape, Forward
  <1> QED BY <1>1, <1>2, BoundStays DEF RunBacked, AllBound

LEMMA AllBoundStays ==
  ASSUME Shape, [Next]_vars, NEW o \in Op, AllBound(host, o)
  PROVE  AllBound(host', o)
  <1>1. PlanNodes(o) \subseteq Node
    BY PlanAssumption DEF PlanNodes, Range
  <1> QED BY <1>1, BoundStays DEF AllBound

-----------------------------------------------------------------------------
\* A run only enters a phase knowing what that phase has to know.
LEMMA StepBacked ==
  ASSUME Shape, Backups, NEW w \in Worker, NEW o \in Op, Step(w, o)
  PROVE  RunBacked(host, o, run'[w][o])
  <1> DEFINE r == run[w][o]
             q == run'[w][o]
  <1>1. /\ r \in Run /\ RunShape(o, r) /\ RunBacked(host, o, r)
        /\ run \in [Worker -> [Op -> Run]]
    BY RunFacts DEF Backups, Shape, TypeOK
  <1>2. \A s : Go(w, o, s) => q = s
    BY <1>1 DEF Go
  <1>3. ASSUME q.pc \notin {"prepare", "seal", "commit", "verify", "finalize"}
        PROVE  RunBacked(host, o, q)
    BY <1>3 DEF RunBacked
  <1>4. CASE TakeLock(w, o)
    <2>1. r.pc = "lock" /\ \/ \E n : q = [r EXCEPT !.held = @ \cup {n}]
                           \/ q = [r EXCEPT !.pc = "release"]
      BY <1>2, <1>4 DEF TakeLock
    <2> QED BY <1>1, <1>3, <2>1 DEF Run
  <1>5. CASE LocksTaken(w, o)
    <2>1. r.pc = "lock" /\ q = [r EXCEPT !.pc = r.next]
      BY <1>2, <1>5 DEF LocksTaken
    <2>2. q.pc = r.next /\ q.todo = r.todo /\ q.call = "none"
      BY <1>1, <2>1 DEF Run, RunShape, Busy
    <2>3. q.pc = "prepare" => PlanNodes(o) \ Range(q.todo) = {}
      BY <1>1, <2>1, <2>2 DEF RunShape, PlanNodes
    <2>4. q.pc \in {"prepare"} \cup Backward
      BY <1>1, <2>1, <2>2 DEF RunShape
    <2> QED BY <2>2, <2>3, <2>4 DEF RunBacked, Backward
  <1>6. CASE Send(w, o)
    <2>1. \E call \in {"sent", "unsent"} : q = [r EXCEPT !.call = call]
      BY <1>2, <1>6 DEF Send
    <2>2. q.pc = r.pc /\ q.todo = r.todo /\ q.call # "ok"
      BY <1>1, <2>1 DEF Run
    <2> QED BY <1>1, <2>2 DEF RunBacked
  <1>7. CASE Prepared(w, o)
    <2> DEFINE rest == Tail(r.todo)
    <2>1. /\ r.pc = "prepare" /\ r.call = "ok"
          /\ q = [r EXCEPT !.call = "none", !.todo = rest,
                           !.pc = IF rest = <<>> THEN "seal" ELSE @]
      BY <1>2, <1>7 DEF Prepared
    <2>2. /\ rest \in Seq(Node) /\ Range(r.todo) = {Head(r.todo)} \cup Range(rest)
      BY <1>1, <2>1, SeqTail DEF Run, RunShape
    <2>3. \A n \in PlanNodes(o) \ Range(rest) : host[n].state[o] = "bound"
      BY <1>1, <2>1, <2>2 DEF RunBacked
    <2>4. /\ q.todo = rest /\ q.call = "none"
          /\ q.pc = IF rest = <<>> THEN "seal" ELSE "prepare"
      BY <1>1, <2>1 DEF Run
    <2>5. rest = <<>> => Range(rest) = {}
      BY DEF Range
    <2> QED BY <2>3, <2>4, <2>5 DEF RunBacked, AllBound
  <1>8. CASE Seal(w, o) \/ Committed(w, o)
    <2>1. /\ r.pc \in {"seal", "commit"}
          /\ \/ q = [r EXCEPT !.pc = "commit", !.todo = Plan[o]]
             \/ q = [r EXCEPT !.pc = "verify", !.call = "none"]
      BY <1>2, <1>8 DEF Seal, Committed
    <2>2. q.pc \in {"commit", "verify"}
      BY <1>1, <2>1 DEF Run
    <2> QED BY <1>1, <2>1, <2>2 DEF RunBacked
  <1>9. CASE Verified(w, o)
    <2>1. /\ r.pc = "verify"
          /\ q = [r EXCEPT !.call = "none", !.todo = Tail(r.todo),
                           !.pc = IF Tail(r.todo) = <<>> THEN "finalize" ELSE "commit"]
      BY <1>2, <1>9 DEF Verified
    <2>2. q.pc \in {"finalize", "commit"}
      BY <1>1, <2>1 DEF Run
    <2> QED BY <1>1, <2>1, <2>2 DEF RunBacked
  <1>10. CASE \/ PrepareRejected(w, o) \/ PrepareFailed(w, o) \/ CommitFailed(w, o)
              \/ Finalize(w, o) \/ FinalizeRejected(w, o) \/ Revoke(w, o)
              \/ Finish(w, o) \/ Abort(w, o)
    <2>1. q.pc \in {"discard", "revoke", "release", "undo"}
      BY <1>1, <1>2, <1>10
         DEF PrepareRejected, PrepareFailed, CommitFailed, Finalize,
             FinalizeRejected, Revoke, Finish, Abort, Run
    <2> QED BY <1>3, <2>1
  <1>11. CASE Undone(w, o) \/ Skip(w, o) \/ ReleaseLock(w, o)
    <2>1. /\ r.pc \in {"undo", "release"}
          /\ \/ q = [r EXCEPT !.call = "none", !.todo = Tail(@),
                              !.bad = @ \/ r.call # "ok"]
             \/ q = [r EXCEPT !.todo = Tail(@)]
             \/ \E n : q = [r EXCEPT !.held = @ \ {n}]
      BY <1>2, <1>11 DEF Undone, Skip, ReleaseLock
    <2>2. q.pc = r.pc
      BY <1>1, <2>1 DEF Run
    <2> QED BY <1>3, <2>1, <2>2
  <1>12. CASE Retry(w, o)
    <2>1. /\ r.pc = "undo" /\ r.todo = <<>>
          /\ q = [r EXCEPT !.pc = "prepare", !.todo = Plan[o], !.retry = FALSE]
      BY <1>2, <1>12 DEF Retry
    <2>2. q.pc = "prepare" /\ q.todo = Plan[o] /\ q.call = "none"
      BY <1>1, <2>1 DEF Run, RunShape
    <2> QED BY <2>2 DEF RunBacked, PlanNodes
  <1>13. CASE EndRun(w, o)
    <2>1. q = Idle
      BY <1>2, <1>13 DEF EndRun
    <2> QED BY <1>3, <2>1 DEF Idle
  <1> QED BY <1>4, <1>5, <1>6, <1>7, <1>8, <1>9, <1>10, <1>11, <1>12, <1>13 DEF Step

\* A command sent, a document sealed: the run knows that all nodes are bound.
LEMMA StepDocBacked ==
  ASSUME Shape, Backups, NEW w \in Worker, NEW o \in Op, Step(w, o)
  PROVE  /\ \A p \in Op : doc'[p].status \in {"committing", "succeeded"}
                             => AllBound(host, p)
         /\ \A c \in remote' : c.cmd = "commit" => AllBound(host, c.op)
  <1> DEFINE r == run[w][o]
  <1>1. /\ r \in Run /\ RunBacked(host, o, r)
        /\ doc \in [Op -> Document]
    BY RunFacts DEF Backups
  <1>2. CASE Send(w, o)
    <2>1. /\ doc' = doc /\ r.pc \in Busy
          /\ remote' \subseteq remote \cup {[by |-> w, op |-> o,
                                 node |-> Head(r.todo), cmd |-> CommandOf(r.pc)]}
      BY <1>2 DEF Send, store
    <2>2. CommandOf(r.pc) = "commit" => r.pc = "commit"
      BY <2>1 DEF CommandOf, Busy
    <2> QED BY <1>1, <2>1, <2>2 DEF Backups, RunBacked
  <1>3. ASSUME remote' = remote,
               \A p \in Op : \/ doc'[p].status = doc[p].status
                             \/ doc'[p].status \notin {"committing", "succeeded"}
                             \/ AllBound(host, p)
        PROVE  /\ \A p \in Op : doc'[p].status \in {"committing", "succeeded"}
                                   => AllBound(host, p)
               /\ \A c \in remote' : c.cmd = "commit" => AllBound(host, c.op)
    BY <1>3 DEF Backups
  <1>4. CASE Seal(w, o) \/ Finalize(w, o)
    <2>1. AllBound(host, o)
      BY <1>1, <1>4 DEF Seal, Finalize, RunBacked
    <2>2. \A p \in Op : p # o => doc'[p].status = doc[p].status
      BY <1>1, <1>4 DEF Seal, Finalize, Document
    <2> QED BY <1>3, <1>4, <2>1, <2>2 DEF Seal, Finalize
  <1>5. CASE Revoke(w, o) \/ Finish(w, o)
    <2>1. \A p \in Op : p # o => doc'[p].status = doc[p].status
      BY <1>1, <1>5 DEF Revoke, Finish
    <2>2. doc'[o].status \in {"rolling_back", "failed", "rolled_back"}
      <3>1. CASE Revoke(w, o)
        BY <1>1, <3>1 DEF Revoke, Document
      <3>2. CASE Finish(w, o)
        BY <1>1, <3>2 DEF Finish, Document
      <3> QED BY <1>5, <3>1, <3>2
    <2> QED BY <1>3, <1>5, <2>1, <2>2 DEF Revoke, Finish
  <1>6. CASE Prepared(w, o) \/ Committed(w, o) \/ Undone(w, o) \/ PrepareFailed(w, o)
    <2>1. /\ remote' = remote
          /\ \/ UNCHANGED doc
             \/ \E n, state : state \in NodeState /\ RecordNode(o, n, state)
      BY <1>6 DEF Prepared, Committed, Undone, PrepareFailed, NodeState
    <2> QED BY <1>1, <1>3, <2>1, RecordFacts
  <1>7. CASE \/ TakeLock(w, o) \/ LocksTaken(w, o) \/ PrepareRejected(w, o)
             \/ Verified(w, o) \/ CommitFailed(w, o) \/ FinalizeRejected(w, o)
             \/ Skip(w, o) \/ Retry(w, o) \/ Abort(w, o) \/ ReleaseLock(w, o)
             \/ EndRun(w, o)
    <2>1. remote' = remote /\ doc' = doc
      BY <1>7 DEF TakeLock, LocksTaken, PrepareRejected, Verified, CommitFailed,
                  FinalizeRejected, Skip, Retry, Abort, ReleaseLock, EndRun, store
    <2> QED BY <1>3, <2>1
  <1> QED BY <1>2, <1>4, <1>5, <1>6, <1>7 DEF Step

\* The steps of a run put together: every other run keeps what it knows.
LEMMA StepBackups ==
  ASSUME Shape, Shape', Backups, [Next]_vars,
         NEW w \in Worker, NEW o \in Op, Step(w, o)
  PROVE  Backups'
  <1>1. \A v \in Worker, p \in Op : v # w \/ p # o => run'[v][p] = run[v][p]
    BY OtherRunsStay
  <1>2. \A v \in Worker, p \in Op : RunBacked(host, p, run'[v][p])
    BY <1>1, StepBacked DEF Backups
  <1>3. \A v \in Worker, p \in Op : run'[v][p] \in Run /\ RunShape(p, run'[v][p])
    BY DEF Shape, TypeOK
  <1>4. \A v \in Worker, p \in Op : RunBacked(host', p, run'[v][p])
    BY <1>2, <1>3, KnowledgeStays
  <1>5. \A c \in remote' : c.op \in Op
    BY DEF Shape, TypeOK, Sent
  <1> QED BY <1>4, <1>5, StepDocBacked, AllBoundStays DEF Backups

\* A claimed document starts a run that knows nothing yet.
LEMMA ClaimBackups ==
  ASSUME Shape, Backups, NEW w \in Worker, NEW o \in Op, Claim(w, o)
  PROVE  Backups'
  <1>1. /\ doc \in [Op -> Document] /\ run \in [Worker -> [Op -> Run]]
        /\ UNCHANGED <<remote, host>>
    BY DEF Shape, TypeOK, Claim
  <1>2. \A v \in Worker, p \in Op :
           run'[v][p] = IF v = w /\ p = o THEN AfterLocks(o) ELSE run[v][p]
    BY <1>1 DEF Claim, Go
  <1>3. RunBacked(host, o, AfterLocks(o))
    BY DEF AfterLocks, Idle, RunBacked
  <1>4. \A p \in Op : doc'[p].status \in {"committing", "succeeded"}
                         => doc[p].status = doc'[p].status
    BY <1>1 DEF Claim, Document
  <1> QED BY <1>1, <1>2, <1>3, <1>4 DEF Backups, AllBound, RunBacked

\* An answer is ok for a prepare only when the node is bound.
LEMMA ExecuteBackups ==
  ASSUME Shape, Shape', Backups, [Next]_vars, NEW c \in remote, Execute(c)
  PROVE  Backups'
  <1>1. /\ c \in Sent /\ doc \in [Op -> Document] /\ host \in [Node -> Host]
        /\ run \in [Worker -> [Op -> Run]] /\ remote' \subseteq remote
        /\ doc' = doc
    BY DEF Shape, TypeOK, Execute, store
  <1>2. /\ c.op \in Op /\ c.node \in Node /\ c.cmd \in Command
        /\ c.by \in Worker \cup {Nobody}
    BY <1>1 DEF Sent
  <1>3. PICK how \in {"ok", "error"} :
          /\ \E h \in IF how = "ok" THEN RunnerOk(host[c.node], c.op, c.cmd)
                                    ELSE RunnerFails(host[c.node], c.op, c.cmd) :
                host' = [host EXCEPT ![c.node] = h]
          /\ Answer(c, how)
    BY DEF Execute
  <1>4. how = "ok" => host'[c.node].state[c.op] = "bound"
    BY <1>1, <1>2, <1>3, RunnerFacts
  <1>5. ASSUME NEW v \in Worker, NEW p \in Op PROVE RunBacked(host', p, run'[v][p])
    <2>1. /\ RunBacked(host', p, run[v][p]) /\ run[v][p] \in Run
      BY KnowledgeStays, RunFacts DEF Backups
    <2>2. CASE ~(v = c.by /\ p = c.op) \/ c.by = Nobody
      <3>1. run'[v][p] = run[v][p]
        BY <1>1, <1>2, <1>3, <2>2, NullAssumption DEF Answer, Nobody
      <3> QED BY <2>1, <3>1
    <2>3. CASE v = c.by /\ p = c.op /\ c.by # Nobody
      <3>1. c.node = Head(run[v][p].todo)
        BY <2>3 DEF Shape, RemoteSound
      <3>2. run'[v][p] = [run[v][p] EXCEPT !.call = how]
        BY <1>1, <1>2, <1>3, <2>3 DEF Answer
      <3>3. /\ run'[v][p].pc = run[v][p].pc /\ run'[v][p].todo = run[v][p].todo
            /\ run'[v][p].call = how
        BY <2>1, <3>2 DEF Run
      <3> QED BY <1>4, <2>1, <2>3, <3>1, <3>3 DEF RunBacked
    <2> QED BY <2>2, <2>3
  <1>6. \A d \in remote : d.op \in Op
    BY DEF Shape, TypeOK, Sent
  <1> QED BY <1>1, <1>5, <1>6, AllBoundStays DEF Backups

\* A timeout orphans a command and changes no other run.
LEMMA TimeOutBackups ==
  ASSUME Shape, Backups, NEW w \in Worker, NEW o \in Op, TimeOut(w, o)
  PROVE  Backups'
  <1>1. /\ run \in [Worker -> [Op -> Run]] /\ UNCHANGED <<doc, host>>
        /\ remote \subseteq Sent
    BY DEF Shape, TypeOK, TimeOut, store
  <1>2. \A v \in Worker, p \in Op :
           /\ run'[v][p].pc = run[v][p].pc
           /\ run'[v][p].todo = run[v][p].todo
           /\ run'[v][p].call \in {run[v][p].call, "error"}
    <2>1. /\ run'[w][o] = [run[w][o] EXCEPT !.call = "error"]
          /\ \A v \in Worker, p \in Op : v # w \/ p # o => run'[v][p] = run[v][p]
      BY <1>1 DEF TimeOut, Go
    <2>2. run[w][o] \in Run
      BY <1>1
    <2>3. /\ run'[w][o].pc = run[w][o].pc /\ run'[w][o].todo = run[w][o].todo
          /\ run'[w][o].call = "error"
      BY <2>1, <2>2 DEF Run
    <2> QED BY <2>1, <2>3
  <1>3. \A d \in remote' : \E c \in remote : d.op = c.op /\ d.cmd = c.cmd
    BY <1>1, OrphanSound DEF TimeOut
  <1> QED BY <1>1, <1>2, <1>3 DEF Backups, RunBacked, AllBound

LEMMA CrashBackups ==
  ASSUME Shape, Backups, NEW w \in Worker, Crash(w)
  PROVE  Backups'
  <1>1. /\ run \in [Worker -> [Op -> Run]] /\ UNCHANGED <<doc, host>>
        /\ remote \subseteq Sent
    BY DEF Shape, TypeOK, Crash, store
  <1>2. \A v \in Worker, p \in Op : run'[v][p] \in {Idle, run[v][p]}
    BY <1>1 DEF Crash
  <1>3. \A p \in Op : RunBacked(host, p, Idle)
    BY DEF RunBacked, Idle
  <1>4. \A d \in remote' : \E c \in remote : d.op = c.op /\ d.cmd = c.cmd
    BY <1>1, OrphanSound DEF Crash
  <1>5. \A v \in Worker, p \in Op : RunBacked(host, p, run'[v][p])
    BY <1>2, <1>3 DEF Backups
  <1> QED BY <1>1, <1>4, <1>5 DEF Backups

LEMMA OthersBackups ==
  ASSUME Shape, Backups,
         \/ EditDraft
         \/ \E w \in Worker, o \in Op : Queue(w, o)
         \/ \E o \in Op : ExpireOp(o)
         \/ \E n \in Node : ExpireLock(n)
         \/ UNCHANGED vars
  PROVE  Backups'
  <1>1. doc \in [Op -> Document]
    BY DEF Shape, TypeOK
  <1>2. /\ UNCHANGED <<run, remote, host>>
        /\ \A p \in Op : doc'[p].status \in {doc[p].status, "queued"}
    <2>1. CASE EditDraft \/ (\E n \in Node : ExpireLock(n)) \/ UNCHANGED vars
      BY <2>1 DEF EditDraft, ExpireLock, vars
    <2>2. ASSUME NEW w \in Worker, NEW o \in Op, Queue(w, o)
          PROVE  /\ UNCHANGED <<run, remote, host>>
                 /\ \A p \in Op : doc'[p].status \in {doc[p].status, "queued"}
      BY <1>1, <2>2 DEF Queue, Document
    <2>3. ASSUME NEW o \in Op, ExpireOp(o)
          PROVE  /\ UNCHANGED <<run, remote, host>>
                 /\ \A p \in Op : doc'[p].status \in {doc[p].status, "queued"}
      BY <1>1, <2>3 DEF ExpireOp, Document
    <2> QED BY <2>1, <2>2, <2>3
  <1> QED BY <1>2 DEF Backups, RunBacked, AllBound

LEMMA InitBackups == Init => Backups
  BY DEF Init, Backups, Idle, RunBacked

LEMMA NextBackups == Shape /\ Shape' /\ Backups /\ [Next]_vars => Backups'
  <1> SUFFICES ASSUME Shape, Shape', Backups, [Next]_vars PROVE Backups'
    OBVIOUS
  <1>1. ASSUME NEW w \in Worker, NEW o \in Op, Step(w, o) PROVE Backups'
    BY <1>1, StepBackups
  <1>2. ASSUME NEW w \in Worker, NEW o \in Op, Claim(w, o) PROVE Backups'
    BY <1>2, ClaimBackups
  <1>3. ASSUME NEW w \in Worker, NEW o \in Op, TimeOut(w, o) PROVE Backups'
    BY <1>3, TimeOutBackups
  <1>4. ASSUME NEW c \in remote, Execute(c) PROVE Backups'
    BY <1>4, ExecuteBackups
  <1>5. ASSUME NEW w \in Worker, Crash(w) PROVE Backups'
    BY <1>5, CrashBackups
  <1> QED BY <1>1, <1>2, <1>3, <1>4, <1>5, OthersBackups DEF Next

\* "Prepares every node before deterministic commit": no document is
\* committing and no commit is under way to a node, even for a run that was
\* taken over, unless every node of the operation holds a bound backup.
THEOREM BackupsFirstHolds == Spec => []BackupsFirst
  <1>1. Shape /\ Backups => BackupsFirst
    BY DEF Shape, TypeOK, Backups, BackupsFirst, AllBound
  <1> QED BY <1>1, InitBackups, NextBackups, ShapeHolds, PTL DEF Spec
=============================================================================
