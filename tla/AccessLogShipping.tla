-------------------------- MODULE AccessLogShipping --------------------------
(***************************************************************************)
(* How a line of Xray's access log reaches ClickHouse: the agent's tailer  *)
(* and shipper (cc-agent/accesslog.go, shipper.go), the panel's ingest     *)
(* endpoint and spool (routes/accessLogsIngest.js, spoolService.js) and    *)
(* the processor that drains the spool (processService.js).                *)
(*                                                                         *)
(* Lines are numbered in the order Xray writes them; the log file holds    *)
(* the lines after logBase.  A batch is sealed once: its id is the digest  *)
(* of bytes that carry the time of reading, so lines read twice travel in  *)
(* two batches.  A graceful stop of the agent is Read, Seal, Spool and     *)
(* then StopAgent with nothing in memory.                                  *)
(***************************************************************************)
EXTENDS Integers, Sequences, FiniteSets

CONSTANTS
    MaxLines,      \* bound on the lines Xray writes
    MaxBatches,    \* bound on the batches the agent seals
    RotateAt,      \* lines after which the log is truncated (fileMaxBytes)
    SpoolCap,      \* batches the agent's spool holds (spoolMaxBytes)
    MaxShipFaults  \* bound on crashes, lost answers, refusals and purges

ASSUME ShippingBounds ==
    {MaxLines, MaxBatches, RotateAt, SpoolCap, MaxShipFaults} \subseteq Nat

VARIABLES
    logBase,    \* lines the tailer truncated away
    logEnd,     \* lines Xray has written
    cursor,     \* the tailer's offset, in lines of the present file
    cursorDisk, \* the offset in accesslog-cursor.json
    rotating,   \* the tailer decided to truncate, and has not yet
    pending,    \* lines emitted and not yet in a batch
    sealing,    \* the batch taken out of pending and not yet on disk
    shipSpool,  \* the agent's spool, oldest batch first
    post,       \* the request that carries the oldest batch
    inbox,      \* the panel's spool, oldest file first
    drain,      \* the file the processor works on
    markers,    \* batches marked processed
    tokens,     \* batches ClickHouse has seen as a deduplication token
    copies,     \* how many times each batch was stored
    stored,     \* the lines in the table
    emitted,    \* lines the tailer ever handed to the shipper
    given,      \* lines given up on for a reason the code names
    sealed,     \* batches sealed so far
    shipFaults

agentVars  == <<logBase, logEnd, cursor, cursorDisk, rotating, pending, sealing,
                shipSpool, emitted, sealed>>
ingestVars == <<inbox, drain, markers, tokens, copies, stored>>
shipVars   == <<agentVars, ingestVars, post, given, shipFaults>>

NoPost  == [at |-> "none"]
NoDrain == [at |-> "none"]

LinesOf(batches) == UNION {b.lines : b \in batches}
Items(s)         == {s[i] : i \in DOMAIN s}

ShippingInit ==
    /\ logBase = 0 /\ logEnd = 0 /\ cursor = 0 /\ cursorDisk = 0 /\ rotating = FALSE
    /\ pending = {} /\ sealing = {} /\ shipSpool = <<>> /\ post = NoPost
    /\ inbox = <<>> /\ drain = NoDrain /\ markers = {} /\ tokens = {}
    /\ copies = [b \in 1 .. MaxBatches |-> 0] /\ stored = {}
    /\ emitted = {} /\ given = {} /\ sealed = 0 /\ shipFaults = 0

ShipFault == shipFaults < MaxShipFaults /\ shipFaults' = shipFaults + 1

----------------------------------------------------------------------------
(* The agent: the tailer.                                                  *)

XrayWrites ==
    /\ logEnd < MaxLines
    /\ logEnd' = logEnd + 1
    /\ UNCHANGED <<logBase, cursor, cursorDisk, rotating, pending, sealing,
                   shipSpool, emitted, sealed, ingestVars, post, given, shipFaults>>

\* A file shorter than the offset was truncated: start again.
StartOffset == IF logEnd - logBase < cursor THEN 0 ELSE cursor

\* saveCursor says nothing of a write that failed.
SaveCursor(to) ==
    \/ cursorDisk' = to /\ UNCHANGED shipFaults
    \/ cursorDisk # to /\ UNCHANGED cursorDisk /\ ShipFault

\* readAvailable: the lines go to the shipper before the cursor moves.  The
\* cursor is on disk before they are: onLines only seals a full batch.
Read ==
    /\ ~rotating
    /\ logEnd - logBase > StartOffset
    /\ LET new == (logBase + StartOffset + 1) .. logEnd
       IN pending' = pending \cup new /\ emitted' = emitted \cup new
    /\ cursor' = logEnd - logBase
    /\ SaveCursor(cursor')
    /\ UNCHANGED <<logBase, logEnd, rotating, sealing, shipSpool, sealed,
                   ingestVars, post, given>>

\* maybeRotate: the file is large and fully read, and canTruncate finds
\* nothing pending and nothing spooled.  Xray writes on until the truncation.
DecideRotation ==
    /\ ~rotating
    /\ logEnd - logBase >= RotateAt
    /\ cursor = logEnd - logBase
    /\ pending = {} /\ shipSpool = <<>>
    /\ rotating' = TRUE
    /\ UNCHANGED <<logBase, logEnd, cursor, cursorDisk, pending, sealing, shipSpool,
                   emitted, sealed, ingestVars, post, given, shipFaults>>

Truncate ==
    /\ rotating
    /\ logBase' = logEnd
    /\ cursor' = 0
    /\ SaveCursor(0)
    /\ rotating' = FALSE
    /\ UNCHANGED <<logEnd, pending, sealing, shipSpool, emitted, sealed,
                   ingestVars, post, given>>

----------------------------------------------------------------------------
(* The agent: the shipper.                                                 *)

\* flush, first half: pending becomes a batch in memory.
Seal ==
    /\ pending # {} /\ sealing = {}
    /\ sealed < MaxBatches
    /\ sealed' = sealed + 1
    /\ sealing' = {[id |-> sealed + 1, lines |-> pending]}
    /\ pending' = {}
    /\ UNCHANGED <<logBase, logEnd, cursor, cursorDisk, rotating, shipSpool, emitted,
                   ingestVars, post, given, shipFaults>>

\* enforceSpoolCap: the oldest batches make room, and are counted dropped.
Capped(spool) ==
    IF Len(spool) <= SpoolCap THEN spool
    ELSE SubSeq(spool, Len(spool) - SpoolCap + 1, Len(spool))

\* flush, second half: the batch is written and renamed into the spool; a
\* failed write loses it.
Spool ==
    /\ \E b \in sealing :
          LET spool == Append(shipSpool, b)
          IN \/ /\ shipSpool' = Capped(spool)
                /\ given' = given \cup LinesOf(Items(spool) \ Items(Capped(spool)))
                /\ UNCHANGED shipFaults
             \/ /\ ShipFault
                /\ given' = given \cup b.lines
                /\ UNCHANGED shipSpool
    /\ sealing' = {}
    /\ UNCHANGED <<logBase, logEnd, cursor, cursorDisk, rotating, pending, emitted,
                   sealed, ingestVars, post>>

\* deliverBatch, in spool order: one request at a time.
Post ==
    /\ post = NoPost /\ shipSpool # <<>>
    /\ post' = [at |-> "sent", batch |-> Head(shipSpool)]
    /\ UNCHANGED <<agentVars, ingestVars, given, shipFaults>>

\* It is the oldest, unless the cap took it in the meantime.
Without(spool, b) == IF spool # <<>> /\ Head(spool) = b THEN Tail(spool) ELSE spool

\* 2xx: the file is removed.
Delivered ==
    /\ post.at = "accepted"
    /\ shipSpool' = Without(shipSpool, post.batch)
    /\ post' = NoPost
    /\ UNCHANGED <<logBase, logEnd, cursor, cursorDisk, rotating, pending, sealing,
                   emitted, sealed, ingestVars, given, shipFaults>>

\* A 4xx other than 429 (the panel stopped collecting, or revoked the token):
\* the file is set aside for good.
Quarantine ==
    /\ post.at = "sent"
    /\ ShipFault
    /\ shipSpool' = Without(shipSpool, post.batch)
    /\ given' = given \cup post.batch.lines
    /\ post' = NoPost
    /\ UNCHANGED <<logBase, logEnd, cursor, cursorDisk, rotating, pending, sealing,
                   emitted, sealed, ingestVars>>

\* The batch is dropped when no answer comes.
RetryableDrops ==
    /\ post.at # "none"
    /\ ShipFault
    /\ shipSpool' = Without(shipSpool, post.batch)
    /\ post' = NoPost
    /\ UNCHANGED <<logBase, logEnd, cursor, cursorDisk, rotating, pending, sealing,
                   emitted, sealed, ingestVars, given>>

\* 429, 5xx, or no answer at all, whether or not the panel has the batch: the
\* file stays first in the spool.
Retryable ==
    /\ post.at # "none"
    /\ ShipFault
    /\ post' = NoPost
    /\ UNCHANGED <<agentVars, ingestVars, given>>

\* The agent dies, or is replaced: what was in memory is lost, the cursor is
\* the one on disk.  A truncation that had not happened does not happen.
StopAgent ==
    /\ ShipFault
    /\ cursor' = cursorDisk
    /\ rotating' = FALSE
    /\ given' = given \cup pending \cup LinesOf(sealing)
    /\ pending' = {} /\ sealing' = {}
    /\ post' = NoPost
    /\ UNCHANGED <<logBase, logEnd, cursorDisk, shipSpool, emitted, sealed, ingestVars>>

----------------------------------------------------------------------------
(* The panel: the ingest endpoint.                                         *)

\* A batch already processed is acknowledged and not spooled again.
Duplicate ==
    /\ post.at = "sent"
    /\ post.batch.id \in markers
    /\ post' = [post EXCEPT !.at = "accepted"]
    /\ UNCHANGED <<agentVars, ingestVars, given, shipFaults>>

\* persistBatch renames the file into the spool before the answer is sent.
Persist ==
    /\ post.at = "sent"
    /\ post.batch.id \notin markers
    /\ inbox' = Append(inbox, post.batch)
    /\ post' = [post EXCEPT !.at = "accepted"]
    /\ UNCHANGED <<agentVars, drain, markers, tokens, copies, stored, given, shipFaults>>

----------------------------------------------------------------------------
(* The panel: the processor, single flight.                                *)

\* A file whose batch is marked already is only removed.
TakeFile ==
    /\ drain = NoDrain /\ inbox # <<>>
    /\ LET b == Head(inbox)
       IN IF b.id \in markers
          THEN inbox' = Tail(inbox) /\ UNCHANGED drain
          ELSE drain' = [at |-> "parsed", batch |-> b] /\ UNCHANGED inbox
    /\ UNCHANGED <<agentVars, markers, tokens, copies, stored, post, given, shipFaults>>

\* insertRaw: ClickHouse drops a block whose token it has seen.
Stored(b) ==
    /\ tokens' = tokens \cup {b.id}
    /\ IF b.id \in tokens THEN UNCHANGED <<copies, stored>>
       ELSE /\ copies' = [copies EXCEPT ![b.id] = @ + 1]
            /\ stored' = stored \cup b.lines

Insert ==
    /\ drain.at = "parsed"
    /\ Stored(drain.batch)
    /\ drain' = [drain EXCEPT !.at = "inserted"]
    /\ UNCHANGED <<agentVars, inbox, markers, post, given, shipFaults>>

\* The insert throws, applied or not: the run stops, the file stays.
InsertFails ==
    /\ drain.at = "parsed"
    /\ ShipFault
    /\ (Stored(drain.batch) \/ UNCHANGED <<tokens, copies, stored>>)
    /\ drain' = NoDrain
    /\ UNCHANGED <<agentVars, inbox, markers, post, given>>

\* markProcessed swallows its own failure.
MarkProcessed ==
    /\ drain.at = "inserted"
    /\ \/ markers' = markers \cup {drain.batch.id} /\ UNCHANGED shipFaults
       \/ UNCHANGED markers /\ ShipFault
    /\ drain' = [drain EXCEPT !.at = "marked"]
    /\ UNCHANGED <<agentVars, inbox, tokens, copies, stored, post, given>>

\* The file at the head: only the processor removes files, apart from a purge.
RemoveFile ==
    /\ drain.at = "marked"
    /\ inbox' = IF inbox # <<>> /\ Head(inbox) = drain.batch THEN Tail(inbox) ELSE inbox
    /\ drain' = NoDrain
    /\ UNCHANGED <<agentVars, markers, tokens, copies, stored, post, given, shipFaults>>

\* The panel dies: the spool and the markers are on its disk.
StopPanel ==
    /\ ShipFault
    /\ drain' = NoDrain
    /\ post' = NoPost
    /\ UNCHANGED <<agentVars, inbox, markers, tokens, copies, stored, given>>

\* POST /access-logs/api/purge: the table, the spool and the markers go.
Purge ==
    /\ ShipFault
    /\ inbox' = <<>> /\ markers' = {}
    /\ copies' = [b \in 1 .. MaxBatches |-> 0] /\ stored' = {}
    /\ given' = given \cup emitted
    /\ UNCHANGED <<agentVars, drain, tokens, post>>

\* Markers older than a week go: the agent has long had its answer.
PruneMarkers ==
    /\ \E b \in markers :
          /\ b \notin {x.id : x \in Items(shipSpool)}
          /\ markers' = markers \ {b}
    /\ UNCHANGED <<agentVars, inbox, drain, tokens, copies, stored, post, given, shipFaults>>

ShippingNext ==
    \/ XrayWrites \/ Read \/ DecideRotation \/ Truncate
    \/ Seal \/ Spool \/ Post \/ Delivered \/ Quarantine \/ Retryable \/ StopAgent
    \/ Duplicate \/ Persist
    \/ TakeFile \/ Insert \/ InsertFails \/ MarkProcessed \/ RemoveFile
    \/ StopPanel \/ Purge \/ PruneMarkers

ShippingSpec == ShippingInit /\ [][ShippingNext]_shipVars

----------------------------------------------------------------------------
\* Every line the tailer handed over is still somewhere on its way (in memory,
\* in the agent's spool, in the panel's spool), is stored, or was given up
\* for a reason the code names; and no batch is stored twice, whatever is
\* retried, answered too late or interrupted on either side.
OnTheWay ==
    pending \cup LinesOf(sealing) \cup LinesOf(Items(shipSpool)) \cup LinesOf(Items(inbox))

LinesConserved ==
    /\ emitted \subseteq OnTheWay \cup stored \cup given
    /\ \A b \in 1 .. MaxBatches : copies[b] <= 1

============================================================================
