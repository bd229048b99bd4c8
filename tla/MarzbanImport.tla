---------------------------- MODULE MarzbanImport ----------------------------
(***************************************************************************)
(* The import of users from a Marzban panel (marzbanMigrationService.js):  *)
(* a background task that counts the users, loads the userIds the panel    *)
(* has, and lets workers fetch the pages of the list, turn each user into  *)
(* an upsert and write the upserts in batches.  Meanwhile the operators of *)
(* both panels go on working, and imports may run side by side.            *)
(*                                                                         *)
(* A user's page is where the list has it, 0 when it is not listed.  Of the *)
(* fields an upsert sets, `data` stands for those under $set and `secret`  *)
(* for those under $setOnInsert (token, password, UUID).  Counters are left *)
(* out but for whether a page or a batch has failed.  Data is 0 as of the  *)
(* beginning, 1 after a change at the source, 2 when entered here.         *)
(***************************************************************************)
EXTENDS Integers, FiniteSets

CONSTANTS
    SourceUser,     \* user names, as both panels fold them
    Accepted,       \* those with a status that is taken over
    MaxPage,        \* bound: pages of the list
    BatchSize,      \* WRITE_BATCH_SIZE
    Import,         \* tasks
    Fetcher,        \* workers of a task
    Panel           \* marks what an operator of this panel has entered

ASSUME ImportAssumption ==
    /\ Accepted \subseteq SourceUser /\ IsFiniteSet(SourceUser)
    /\ MaxPage \in Nat /\ BatchSize \in Nat \ {0}
    /\ Panel \notin Import /\ 0 \notin Fetcher

VARIABLES
    pageOf,         \* the page that lists each user of the Marzban panel
    sourceData,     \* its data there
    panelUser,      \* the HyUser documents
    import,         \* the tasks
    slot            \* what their workers do, and 0 for the flush at the end

importVars == <<pageOf, sourceData, panelUser, import, slot>>

NoUser   == [here |-> FALSE, secret |-> Panel, data |-> 0]
NoImport == [pc |-> "none", pages |-> 0, cursor |-> 0, known |-> {}, pending |-> {},
             erred |-> FALSE, steady |-> TRUE]
NoSlot   == [pc |-> "idle", page |-> 0, batch |-> {}]

Slots == Fetcher \cup {0}

ImportInit ==
    /\ pageOf \in [SourceUser -> 0 .. MaxPage]
    /\ sourceData = [u \in SourceUser |-> 0]
    /\ panelUser \in [SourceUser -> {NoUser, [here |-> TRUE, secret |-> Panel, data |-> 2]}]
    /\ import = [i \in Import |-> NoImport]
    /\ slot = [i \in Import |-> [s \in Slots |-> NoSlot]]

-----------------------------------------------------------------------------
\* startImport, then the number of users; the list may be empty, and a step up
\* to LoadExisting may fail.
Count(i) ==
    /\ import[i].pc = "none"
    /\ \E last \in 0 .. MaxPage :
        /\ \A u \in SourceUser : pageOf[u] <= last
        /\ last = 0 \/ \E u \in SourceUser : pageOf[u] = last
        /\ \E pc \in {IF last = 0 THEN "done" ELSE "load", "failed"} :
            import' = [import EXCEPT ![i].pc = pc, ![i].pages = last]
    /\ UNCHANGED <<pageOf, sourceData, panelUser, slot>>

\* The userIds of this panel, read once.
LoadExisting(i) ==
    /\ import[i].pc = "load"
    /\ import' = [import EXCEPT ![i].pc = "fetch",
                                ![i].known = {u \in SourceUser : panelUser[u].here}]
    /\ UNCHANGED <<pageOf, sourceData, panelUser, slot>>

\* A worker takes the next page.
TakePage(i, w) ==
    /\ import[i].pc = "fetch" /\ slot[i][w].pc = "idle"
    /\ import[i].cursor < import[i].pages
    /\ import' = [import EXCEPT ![i].cursor = @ + 1]
    /\ slot' = [slot EXCEPT ![i][w] = [pc |-> "fetch", page |-> import[i].cursor + 1,
                                       batch |-> {}]]
    /\ UNCHANGED <<pageOf, sourceData, panelUser>>

\* Mutant of Upserts: the users this panel has are taken over again.
UpsertsOfAll(i, page) ==
    {[user |-> u, data |-> sourceData[u]] : u \in {v \in Accepted : pageOf[v] = page}}

\* _mapMarzbanUser: no upsert for a user that is not accepted, or that the
\* panel had when the import began.
Upserts(i, page) ==
    {[user |-> u, data |-> sourceData[u]] :
        u \in {v \in Accepted \ import[i].known : pageOf[v] = page}}

\* The page arrives; a batch that is large enough is taken out of `pending`
\* in the same turn, so that another worker cannot write it too.
FetchPage(i, w) ==
    LET all == import[i].pending \cup Upserts(i, slot[i][w].page) IN
    /\ slot[i][w].pc = "fetch"
    /\ IF Cardinality(all) >= BatchSize
       THEN /\ import' = [import EXCEPT ![i].pending = {}]
            /\ slot' = [slot EXCEPT ![i][w] = [NoSlot EXCEPT !.pc = "write", !.batch = all]]
       ELSE /\ import' = [import EXCEPT ![i].pending = all]
            /\ slot' = [slot EXCEPT ![i][w] = NoSlot]
    /\ UNCHANGED <<pageOf, sourceData, panelUser>>

\* The page does not arrive: the worker goes on with the next one.
PageFails(i, w) ==
    /\ slot[i][w].pc = "fetch"
    /\ import' = [import EXCEPT ![i].erred = TRUE]
    /\ slot' = [slot EXCEPT ![i][w] = NoSlot]
    /\ UNCHANGED <<pageOf, sourceData, panelUser>>

\* Mutant of Written: the secrets are set like the rest.
WrittenAnew(i, op) == [here |-> TRUE, secret |-> i, data |-> op.data]

\* What an upsert makes of a user.
Written(i, op) ==
    IF panelUser[op.user].here THEN [panelUser[op.user] EXCEPT !.data = op.data]
    ELSE [here |-> TRUE, secret |-> i, data |-> op.data]

\* bulkWrite, unordered: one upsert after the other.
WriteOne(i, s) ==
    /\ slot[i][s].pc = "write"
    /\ \E op \in slot[i][s].batch :
        /\ panelUser' = [panelUser EXCEPT ![op.user] = Written(i, op)]
        /\ slot' = [slot EXCEPT ![i][s].batch = @ \ {op}]
    /\ UNCHANGED <<pageOf, sourceData, import>>

\* All of the batch is written, or the rest of it is given up.
BatchEnds(i, s) ==
    /\ slot[i][s].pc = "write"
    /\ slot' = [slot EXCEPT ![i][s] = NoSlot]
    /\ import' = [import EXCEPT ![i].pc = IF s = 0 THEN "done" ELSE @,
                                ![i].erred = @ \/ slot[i][s].batch # {}]
    /\ UNCHANGED <<pageOf, sourceData, panelUser>>

\* Mutant of AllFetched: the last flush does not wait for the workers.
PagesTaken(i) == import[i].cursor = import[i].pages

\* Every worker has found no page left.
AllFetched(i) ==
    /\ import[i].cursor = import[i].pages
    /\ \A w \in Fetcher : slot[i][w].pc = "idle"

LastFlush(i) ==
    /\ import[i].pc = "fetch" /\ AllFetched(i)
    /\ import' = [import EXCEPT ![i].pc = "flush", ![i].pending = {}]
    /\ slot' = [slot EXCEPT ![i][0] = [NoSlot EXCEPT !.pc = "write",
                                                     !.batch = import[i].pending]]
    /\ UNCHANGED <<pageOf, sourceData, panelUser>>

\* Users of the Marzban panel come and go and move to other pages, ...
SourceMoves ==
    /\ \E u \in SourceUser, p \in 0 .. MaxPage :
        p # pageOf[u] /\ pageOf' = [pageOf EXCEPT ![u] = p]
    /\ import' = [i \in Import |-> [import[i] EXCEPT !.steady = FALSE]]
    /\ UNCHANGED <<sourceData, panelUser, slot>>

\* ... or their traffic grows.
SourceChanges ==
    /\ \E u \in SourceUser :
        sourceData[u] = 0 /\ sourceData' = [sourceData EXCEPT ![u] = 1]
    /\ UNCHANGED <<pageOf, panelUser, import, slot>>

\* An operator of this panel enters, changes or deletes a user.
PanelEdit ==
    /\ \E u \in SourceUser :
        \/ /\ ~panelUser[u].here
           /\ panelUser' = [panelUser EXCEPT ![u] = [here |-> TRUE, secret |-> Panel, data |-> 2]]
           /\ UNCHANGED import
        \/ /\ panelUser[u].here
           /\ panelUser' = [panelUser EXCEPT ![u].data = 2]
           /\ UNCHANGED import
        \/ /\ panelUser[u].here
           /\ panelUser' = [panelUser EXCEPT ![u] = NoUser]
           /\ import' = [i \in Import |-> [import[i] EXCEPT !.steady = FALSE]]
    /\ UNCHANGED <<pageOf, sourceData, slot>>

ImportNext ==
    \/ \E i \in Import :
        \/ Count(i) \/ LoadExisting(i) \/ LastFlush(i)
        \/ \E w \in Fetcher : TakePage(i, w) \/ FetchPage(i, w) \/ PageFails(i, w)
        \/ \E s \in Slots : WriteOne(i, s) \/ BatchEnds(i, s)
    \/ SourceMoves \/ SourceChanges \/ PanelEdit

ImportSpec == ImportInit /\ [][ImportNext]_importVars

-----------------------------------------------------------------------------
\* An import that ends without an error has brought over every user the list
\* has and the panel accepts, however its workers shared the pages and the
\* batches; unless the list changed under it, or an operator deleted a user.
ImportIsComplete ==
    \A i \in Import :
        /\ import[i].pc = "flush" /\ import'[i].pc = "done"
        /\ import[i].steady /\ ~import'[i].erred
        => \A u \in Accepted : pageOf[u] # 0 => panelUser[u].here

\* An import changes no secret of a user that exists, and nothing at all of a
\* user the panel had when the import began.
ImportKeepsAccounts ==
    \A i \in Import, s \in Slots, u \in SourceUser :
        WriteOne(i, s) /\ panelUser[u].here =>
            /\ panelUser'[u].secret = panelUser[u].secret
            /\ u \in import[i].known => panelUser'[u] = panelUser[u]

\* An import loses none of the users it was asked for, and touches no other.
ImportsAreFaithful == [][ImportIsComplete /\ ImportKeepsAccounts]_importVars

\* "$set carries data that should be refreshed on every re-import": an import
\* that brought everything over leaves each accepted user with data of the
\* source.
ReimportRefreshes ==
    [][\A i \in Import :
        /\ import[i].pc = "flush" /\ import'[i].pc = "done"
        /\ import[i].steady /\ ~import'[i].erred
        => \A u \in Accepted : pageOf[u] # 0 => panelUser[u].data \in {0, 1}]_importVars
==============================================================================
