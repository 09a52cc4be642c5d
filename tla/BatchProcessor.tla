--------------------------- MODULE BatchProcessor ---------------------------
(***************************************************************************)
(* BatchProcessor, engine "batch": one thread runs a batch in chunks, and  *)
(* others ask it to pause, to go on or to stop.  Requests are looked at    *)
(* between chunks only.  A batch that was paused has no runner any more:   *)
(* resume gives it its status back, nothing gives it a thread.             *)
(***************************************************************************)
EXTENDS Integers, FiniteSets, Sequences

CONSTANTS
  Total,       \* items of the batch
  Chunk,       \* chunk_size
  MaxFailures  \* max_failures

VARIABLES
  engine,
  status,      \* status of the batch
  runner,      \* where submit's thread is: "none", "submitted", "boundary", "items", "gone"
  index,       \* items the runner is done with
  chunkEnd,    \* chunk_end
  results,     \* the statuses in item_results
  pausing,     \* pause_requested
  cancelling,  \* cancel_requested
  late         \* history: items processed since cancel was called

vars == <<status, runner, index, chunkEnd, results, pausing, cancelling, late>>

Engines == {"batch"}

Start ==
  /\ status = "created" /\ runner = "none" /\ index = 0 /\ chunkEnd = 0
  /\ results = <<>> /\ pausing = FALSE /\ cancelling = FALSE /\ late = 0

Terminal == {"completed", "failed", "cancelled"}
Done(s)  == Cardinality({i \in DOMAIN results : results[i] = s})
Shorter(n, m) == IF n > m THEN m ELSE n

-----------------------------------------------------------------------------
(* The runner *)

\* The batch is in the table before _run_batch takes the lock again.
Submit ==
  /\ engine = "batch" /\ runner = "none"
  /\ runner' = "submitted"
  /\ UNCHANGED <<status, index, chunkEnd, results, pausing, cancelling, late>>

RunBatch ==
  /\ engine = "batch" /\ runner = "submitted"
  /\ status' = "running" /\ runner' = "boundary"
  /\ UNCHANGED <<index, chunkEnd, results, pausing, cancelling, late>>

\* FAULT: a pause is honoured before a cancellation is looked for.
PauseFirst ==
  CASE pausing    -> status' = "paused" /\ runner' = "gone" /\ UNCHANGED chunkEnd
    [] OTHER      -> runner' = "items" /\ chunkEnd' = Total /\ UNCHANGED status

\* Cancellation, then pause, then the next chunk.
Requests ==
  CASE cancelling -> status' = "cancelled" /\ runner' = "gone" /\ UNCHANGED chunkEnd
    [] pausing /\ ~cancelling -> status' = "paused" /\ runner' = "gone" /\ UNCHANGED chunkEnd
    [] OTHER      -> runner' = "items" /\ chunkEnd' = Shorter(index + Chunk, Total) /\ UNCHANGED status

Boundary ==
  /\ engine = "batch" /\ runner = "boundary"
  /\ IF index < Total THEN Requests
     ELSE status' = "completed" /\ runner' = "gone" /\ UNCHANGED chunkEnd
  /\ UNCHANGED <<index, results, pausing, cancelling, late>>

\* FAULT: the items that are skipped are not entered.
FailAlone == Append(results, "failed")

\* The items after the one failure too many are entered as skipped.
FailRest == Append(results, "failed") \o [i \in 1..(Total - index - 1) |-> "skipped"]

TooMany == Done("failed") + 1 > MaxFailures

\* _process_one; the callback runs without the lock.
ProcessOne(ok) ==
  /\ engine = "batch" /\ runner = "items"
  /\ index' = index + 1
  /\ late' = IF cancelling THEN late + 1 ELSE late
  /\ IF ok \/ ~TooMany
       THEN /\ results' = Append(results, IF ok THEN "succeeded" ELSE "failed")
            /\ runner' = IF index + 1 < chunkEnd THEN "items" ELSE "boundary"
            /\ UNCHANGED status
       ELSE results' = FailRest /\ status' = "failed" /\ runner' = "gone"
  /\ UNCHANGED <<chunkEnd, pausing, cancelling>>

-----------------------------------------------------------------------------
(* The other threads *)

Pause ==
  /\ engine = "batch" /\ runner # "none"
  /\ pausing' = (pausing \/ status = "running")
  /\ UNCHANGED <<status, runner, index, chunkEnd, results, cancelling, late>>

\* FAULT: whatever the status was, the batch runs again.
ResumeAny == status' = "running"

ResumePaused == status' = IF status = "paused" THEN "running" ELSE status

Resume ==
  /\ engine = "batch" /\ runner # "none"
  /\ pausing' = FALSE
  /\ ResumePaused
  /\ UNCHANGED <<runner, index, chunkEnd, results, cancelling, late>>

Cancel ==
  /\ engine = "batch" /\ runner # "none"
  /\ cancelling' = TRUE
  /\ UNCHANGED <<status, runner, index, chunkEnd, results, pausing, late>>

Next ==
  \/ Submit \/ RunBatch \/ Boundary \/ ProcessOne(TRUE) \/ ProcessOne(FALSE)
  \/ Pause \/ Resume \/ Cancel

-----------------------------------------------------------------------------
(* Properties *)

\* Every item is entered once, whatever was requested meanwhile: a result of a
\* completed or failed batch tells of all items, and at most max_failures of a
\* completed one failed.
BatchAccounted ==
  /\ status \in {"completed", "failed"} => Len(results) = Total
  /\ status = "completed" => Done("failed") <= MaxFailures /\ Done("skipped") = 0
  /\ status = "failed" => Done("failed") = MaxFailures + 1
  /\ status # "failed" => Len(results) = index

\* A batch that is cancelled processes no more than the rest of its chunk.
CancelStopsSoon == late <= Chunk

\* A batch that has ended never starts again.
EndedForGood == [][engine = "batch" /\ status \in Terminal => status' = status]_<<engine, vars>>
=============================================================================
