------------------------------ MODULE Ingestion ------------------------------
(***************************************************************************)
(* One POST /tasks/* request (apps/api/src/services/                       *)
(* task-ingestion.service.ts) beside the three that may touch its task     *)
(* before it answers: the sweeper, which fails an ingestion that makes no  *)
(* progress, the retry endpoint, and the dispatcher with the runner it     *)
(* fires.  Every action is one statement with the code run on its reply.   *)
(*                                                                         *)
(* The body is abstracted to a bounded number of payloads, an end and a    *)
(* failure (an invalid line, an oversized body, a client that went away)   *)
(* at any point.  A run of the published task is two steps here, taking it *)
(* and ending it: module Runner has its inside, module Endpoints its rows. *)
(***************************************************************************)
EXTENDS TaskStore

CONSTANTS
  Batch,          \* INGEST_BATCH
  Threshold,      \* INLINE_THRESHOLD_ROWS
  MaxRows,        \* bound: payloads the body holds at most
  MaxReplays      \* bound: retries

ASSUME IngestionAssumption ==
  /\ Batch \in Nat \ {0} /\ Threshold \in Nat \ {0}
  /\ MaxRows \in Nat /\ MaxReplays \in Nat

Kinds == {"product_price_update", "catalogue_reindex"}

(* Where the request is: each value names the await due next.              *)
PC == {"read", "create", "insert", "touch", "size", "publish", "catch", "off"}

VARIABLES
  exists,      \* createTask has committed
  task,        \* the task record, once it exists
  touched,     \* its updated_at
  stored,      \* rows in task_row
  kind,        \* the kind the endpoint stands for
  pc,
  known,       \* taskId # null in the request
  count,       \* payloads consumed
  batch,       \* payloads of the batch under way
  ended,       \* the body was read to its end
  reply,       \* "none", "accepted" (201), "refused" (the stream or the store failed), "error"
  published,   \* history: the task has been claimable
  replays      \* retries so far (bound)

request == <<kind, pc, known, count, batch, ended, reply>>
vars    == <<exists, task, touched, stored, request, published, replays>>

Init ==
  /\ exists = FALSE /\ task = NewTask /\ touched = "fresh" /\ stored = 0
  /\ kind \in Kinds
  /\ pc = "read" /\ known = FALSE /\ count = 0 /\ batch = 0 /\ ended = FALSE
  /\ reply = "none"
  /\ published = FALSE /\ replays = 0

-----------------------------------------------------------------------------
(* The request.                                                            *)

Answer(r) == pc' = "off" /\ reply' = r

(* The re-index body is its single payload; a bulk body has any number.    *)
MorePayloads == count < (IF kind = "catalogue_reindex" THEN 1 ELSE MaxRows)

(* The loop gets a payload; the first one awaits createTask before it is   *)
(* counted.                                                                *)
Push ==
  /\ count' = count + 1
  /\ batch' = batch + 1
  /\ pc' = IF batch + 1 >= Batch THEN "insert" ELSE "read"

ReadPayload ==
  /\ pc = "read" /\ ~ended /\ MorePayloads
  /\ IF known THEN Push ELSE pc' = "create" /\ UNCHANGED <<count, batch>>
  /\ UNCHANGED <<exists, task, touched, stored, kind, known, ended, reply, published, replays>>

(* The guards of the two POST handlers, before ingest() is called: not     *)
(* NDJSON, or a re-index body that is not its payload.                     *)
BadRequest ==
  /\ pc = "read" /\ ~known /\ ~ended
  /\ Answer("refused")
  /\ UNCHANGED <<exists, task, touched, stored, kind, known, count, batch, ended, published,
                 replays>>

CreateTask ==
  /\ pc = "create"
  /\ exists' = TRUE /\ known' = TRUE /\ touched' = "fresh"
  /\ Push
  /\ UNCHANGED <<task, stored, kind, ended, reply, published, replays>>

(* Mutant: the rest of the last batch is forgotten.                        *)
ReadEndDrops ==
  /\ pc = "read" /\ ~ended /\ (kind = "catalogue_reindex" => count = 1)
  /\ ended' = TRUE
  /\ IF known THEN pc' = "size" /\ UNCHANGED reply ELSE Answer("refused")
  /\ UNCHANGED <<exists, task, touched, stored, kind, known, count, batch, published, replays>>

(* The body ends: the rest of the batch is flushed, or nothing was ever    *)
(* read and the job is empty.                                              *)
ReadEnd ==
  /\ pc = "read" /\ ~ended /\ (kind = "catalogue_reindex" => count = 1)
  /\ ended' = TRUE
  /\ IF known
     THEN /\ pc' = IF batch > 0 THEN "insert" ELSE "size"
          /\ UNCHANGED reply
     ELSE Answer("refused")
  /\ UNCHANGED <<exists, task, touched, stored, kind, known, count, batch, published, replays>>

(* addRows, first statement.                                               *)
InsertRows ==
  /\ pc = "insert"
  /\ stored' = stored + batch
  /\ pc' = "touch"
  /\ UNCHANGED <<exists, task, touched, kind, known, count, batch, ended, reply, published, replays>>

(* addRows, second statement.                                              *)
TouchTask ==
  /\ pc = "touch"
  /\ touched' = "fresh" /\ batch' = 0
  /\ pc' = IF ended THEN "size" ELSE "read"
  /\ UNCHANGED <<exists, task, stored, kind, known, count, ended, reply, published, replays>>

(* Anything inside the try throws: the stream, or a statement whose commit *)
(* may have landed all the same.                                           *)
StreamFails ==
  /\ \/ /\ pc = "read" /\ ~ended /\ kind # "catalogue_reindex"
        /\ UNCHANGED <<exists, touched, stored>>
     \/ pc = "create" /\ exists' \in BOOLEAN /\ UNCHANGED <<touched, stored>>
     \/ pc = "insert" /\ stored' \in {stored, stored + batch} /\ UNCHANGED <<exists, touched>>
     \/ pc = "touch" /\ touched' \in {touched, "fresh"} /\ UNCHANGED <<exists, stored>>
  /\ IF known THEN pc' = "catch" /\ UNCHANGED reply ELSE Answer("refused")
  /\ UNCHANGED <<task, kind, known, count, batch, ended, published, replays>>

(* The catch's markFailed, which carries no condition but the id; it may   *)
(* throw in its turn.                                                      *)
CatchFails ==
  /\ pc = "catch"
  /\ \/ task' = MarkFailed(task) /\ touched' = "fresh"
     \/ UNCHANGED <<task, touched>>
  /\ Answer("refused")
  /\ UNCHANGED <<exists, stored, kind, known, count, batch, ended, published, replays>>

(* Mutant: the rows alone decide.                                          *)
ClassifyByCount(k, n) == IF n <= Threshold THEN "light" ELSE "heavy"

ClassifyWeight(k, n) ==
  IF k = "catalogue_reindex" \/ n > Threshold THEN "heavy" ELSE "light"

SizeTask ==
  /\ pc = "size"
  /\ task' = SetTotalRows(task, count) /\ touched' = "fresh"
  /\ pc' = "publish"
  /\ UNCHANGED <<exists, stored, kind, known, count, batch, ended, reply, published, replays>>

(* Mutant: markPending without the status in its condition.                *)
PublishUnguarded ==
  /\ pc = "publish"
  /\ task' = MarkPending(task, ClassifyWeight(kind, count))
  /\ touched' = "fresh" /\ published' = TRUE
  /\ Answer("accepted")
  /\ UNCHANGED <<exists, stored, kind, known, count, batch, ended, replays>>

(* markPending only takes an ingesting task; its miss is not looked at.    *)
Publish ==
  /\ pc = "publish"
  /\ IF task.status = "ingesting"
     THEN /\ task' = MarkPending(task, ClassifyWeight(kind, count))
          /\ touched' = "fresh" /\ published' = TRUE
     ELSE UNCHANGED <<task, touched, published>>
  /\ Answer("accepted")
  /\ UNCHANGED <<exists, stored, kind, known, count, batch, ended, replays>>

(* One of the last two statements throws, committed or not: no catch.      *)
PublishFails ==
  /\ pc \in {"size", "publish"}
  /\ \/ UNCHANGED <<task, touched, published>>
     \/ /\ pc = "size"
        /\ task' = SetTotalRows(task, count) /\ touched' = "fresh" /\ UNCHANGED published
     \/ /\ pc = "publish" /\ task.status = "ingesting"
        /\ task' = MarkPending(task, ClassifyWeight(kind, count))
        /\ touched' = "fresh" /\ published' = TRUE
  /\ Answer("error")
  /\ UNCHANGED <<exists, stored, kind, known, count, batch, ended, replays>>

(* The API process dies.                                                   *)
Crash ==
  /\ pc # "off"
  /\ pc' = "off"
  /\ UNCHANGED <<exists, task, touched, stored, kind, known, count, batch, ended, reply,
                 published, replays>>

-----------------------------------------------------------------------------
(* The others.                                                             *)

(* Mutant: a task whose rows are counted is left alone.                    *)
FailStaleIngestingUnsized ==
  /\ exists /\ task.status = "ingesting" /\ touched = "stale" /\ task.total = 0
  /\ task' = MarkFailed(task) /\ touched' = "fresh"
  /\ UNCHANGED <<exists, stored, request, published, replays>>

FailStaleIngesting ==
  /\ exists /\ task.status = "ingesting" /\ touched = "stale"
  /\ task' = MarkFailed(task) /\ touched' = "fresh"
  /\ UNCHANGED <<exists, stored, request, published, replays>>

RetryFailed ==
  /\ exists /\ replays < MaxReplays /\ CanRetry(task)
  /\ task' = RetryTask(task) /\ touched' = "fresh"
  /\ published' = TRUE /\ replays' = replays + 1
  /\ UNCHANGED <<exists, stored, request>>

ClaimNextPending ==
  /\ exists /\ task.status = "pending"
  /\ task' = Claim(task) /\ touched' = "fresh"
  /\ UNCHANGED <<exists, stored, request, published, replays>>

(* The run of the claimed task ends with its verdict.                      *)
RunEnds ==
  /\ Claimed(task)
  /\ task' \in {MarkCompleted(MarkRunning(task)), MarkFailed(MarkRunning(task))}
  /\ touched' = "fresh"
  /\ UNCHANGED <<exists, stored, request, published, replays>>

(* The run dies, drains or never starts, and the sweeper takes the claim   *)
(* back: to the queue, or out of it once the restarts are used up.         *)
RunLost ==
  /\ Claimed(task)
  /\ task' = IF task.restarts < MaxRestarts THEN ReclaimStale(task) ELSE DeadLetterStale(task)
  /\ touched' = "fresh"
  /\ UNCHANGED <<exists, stored, request, published, replays>>

(* STALE_AFTER_MS goes by: a slow client, a stalled API or a dead one.     *)
Elapse ==
  /\ exists /\ task.status = "ingesting" /\ touched = "fresh"
  /\ touched' = "stale"
  /\ UNCHANGED <<exists, task, stored, request, published, replays>>

-----------------------------------------------------------------------------
Request ==
  \/ BadRequest \/ ReadPayload \/ CreateTask \/ ReadEnd \/ InsertRows \/ TouchTask
  \/ StreamFails \/ CatchFails \/ SizeTask \/ Publish \/ PublishFails

Next ==
  \/ Request \/ Crash
  \/ FailStaleIngesting \/ RetryFailed \/ ClaimNextPending \/ RunEnds \/ RunLost \/ Elapse

Spec == Init /\ [][Next]_vars

(* The sweeper ticks and time passes.  Nothing is assumed of the request:  *)
(* its client may stop sending and its process may die.                    *)
FairSpec == Spec /\ WF_vars(FailStaleIngesting) /\ WF_vars(Elapse)

-----------------------------------------------------------------------------
(* Properties.                                                             *)

(* Every variable has its type.                                            *)
TypeOK ==
  /\ exists \in BOOLEAN /\ task \in Task /\ touched \in {"fresh", "stale"}
  /\ stored \in Nat /\ count \in Nat /\ batch \in Nat /\ replays \in Nat
  /\ kind \in Kinds /\ pc \in PC
  /\ known \in BOOLEAN /\ ended \in BOOLEAN /\ published \in BOOLEAN
  /\ reply \in {"none", "accepted", "refused", "error"}

(* Only a whole job is ever claimable, claimed or completed: every payload *)
(* of a body read to its end is in the ledger and in total_rows, also when *)
(* the sweeper failed the ingestion under the request and a retry          *)
(* published the task in its place (task.repository.ts:78-84).             *)
ClaimableIsWhole ==
  task.status \in {"pending", "starting", "running", "completed"} =>
    ended /\ stored = count /\ task.total = count /\ count > 0

(* A request refused for its content or for a failed insert never runs,    *)
(* neither by itself nor by a retry (task.repository.ts:394-396).          *)
RefusedNeverRuns == reply = "refused" => ~published

(* Once the task has been published, by the request or by a retry, no late *)
(* step of the request moves it: markPending only leaves `ingesting`, and  *)
(* the unfenced markFailed of the catch comes too early to hit it.         *)
ApiLeavesPublishedAlone ==
  [][published /\ pc' # pc => task'.status = task.status]_vars

(* What runs inline is small and never a re-index, whichever of publish    *)
(* and retry made the task claimable (weight.ts:10-12).                    *)
InlineIsSmall ==
  Claimed(task) /\ task.weight = "light" =>
    kind = "product_price_update" /\ stored <= Threshold

(* No task is stuck `ingesting`: whatever became of the request, the task  *)
(* is published or failed (task.repository.ts:353-357).                    *)
IngestingEnds == (exists /\ task.status = "ingesting") ~> task.status # "ingesting"

(* dispatcher.service.ts:27-29: a job the API accepted is published.       *)
AcceptedIsPublished == reply = "accepted" => published

-----------------------------------------------------------------------------
(* The strengthening of the invariants above.                              *)

Open == {"pending", "starting", "running", "completed"}

(* Before createTask commits there is nothing, and a request that knows    *)
(* its task has a task.                                                    *)
NothingBefore ==
  /\ known => exists
  /\ ~exists => task = NewTask /\ stored = 0
  /\ ~known => stored = 0 /\ count = 0 /\ batch = 0

(* Where the payloads consumed so far are, at each await of the request.   *)
PayloadsKept ==
  /\ pc \in {"read", "create", "insert"} => stored + batch = count
  /\ pc = "touch" => stored = count
  /\ pc = "create" => ~known
  /\ pc \in {"insert", "touch", "size", "publish", "catch"} => known
  /\ pc \in {"read", "create"} => ~ended /\ (known \/ ~exists)
  /\ known => count > 0
  /\ pc \in {"size", "publish"} => ended /\ stored = count

(* total_rows is set once, over a ledger that is whole, after the last     *)
(* await whose failure the catch turns into markFailed.                    *)
SizedLast ==
  task.total > 0 =>
    /\ pc \in {"publish", "off"} /\ reply # "refused"
    /\ known /\ ended /\ stored = count /\ task.total = count

PublishedSized ==
  /\ published => task.total > 0
  /\ task.status \in Open => published
  /\ task.status = "ingesting" => ~published
  /\ pc = "publish" => task.total = count
  /\ task.weight = "light" => task.total > 0 /\ ClassifyWeight(kind, count) = "light"

Answered == reply = "none" \/ pc = "off"

IInv ==
  /\ TypeOK /\ NothingBefore /\ PayloadsKept /\ SizedLast /\ PublishedSized /\ Answered
=============================================================================
