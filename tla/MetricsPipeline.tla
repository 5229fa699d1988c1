--------------------------- MODULE MetricsPipeline ---------------------------
(***************************************************************************)
(* The background batch writer (MetricsPipeline.cpp) between the monitor   *)
(* thread, which hands it one snapshot a tick, and the database of         *)
(* MetricsStorage, with the start and the shutdown of the application that *)
(* owns all three (main.cpp, main and WM_DESTROY).  A section under mutex_ *)
(* is one step; the worker writes a batch without holding it.              *)
(***************************************************************************)
EXTENDS Integers, Sequences

CONSTANTS
  BatchSize,     \* PIPELINE_BATCH_SIZE
  MaxSnapshots,  \* bound on the snapshots the monitor takes
  Faults         \* "open": the database cannot be opened; "write": a batch fails

ASSUME PipelineAssumption ==
  /\ BatchSize \in Nat \ {0}
  /\ MaxSnapshots \in Nat
  /\ Faults \subseteq {"open", "write"}

VARIABLES
  ui,          \* where the thread of the window is in starting and stopping
  monitor,     \* the monitor thread
  keepRunning, \* g_running
  taken,       \* snapshots taken so far; they are numbered from 1
  running,     \* running_
  attached,    \* storage_ # nullptr
  queue,       \* queue_
  worker,      \* the worker thread
  batch,       \* the batch the worker has taken from the queue
  dbOpen,      \* db_ of MetricsStorage
  logged,      \* history: the snapshots in the database, in order of insertion
  failed       \* history: the snapshots of batches the database refused

vars == <<ui, monitor, keepRunning, taken, running, attached, queue, worker,
          batch, dbOpen, logged, failed>>

pipeline == <<running, attached, queue>>
database == <<dbOpen, logged, failed>>

Elements(s) == {s[i] : i \in 1 .. Len(s)}

-----------------------------------------------------------------------------
\* main: storage is opened, the pipeline is started on it when it is ready, and
\* then the monitor thread.
OpenStorage ==
  /\ ui = "open"
  /\ dbOpen' \in {TRUE} \cup (IF "open" \in Faults THEN {FALSE} ELSE {})
  /\ ui' = "startPipeline"
  /\ UNCHANGED <<monitor, keepRunning, taken, pipeline, worker, batch, logged, failed>>

StartPipeline ==
  /\ ui = "startPipeline"
  /\ running' = dbOpen
  /\ attached' = dbOpen
  /\ worker' = IF dbOpen THEN "check" ELSE "none"
  /\ ui' = "startMonitor"
  /\ UNCHANGED <<monitor, keepRunning, taken, queue, batch, database>>

StartMonitor ==
  /\ ui = "startMonitor"
  /\ keepRunning' = TRUE
  /\ monitor' = "wait"
  /\ ui' = "messages"
  /\ UNCHANGED <<taken, pipeline, worker, batch, database>>

-----------------------------------------------------------------------------
\* The monitor thread waits for its tick, or ends.
MonitorWait ==
  /\ monitor = "wait"
  /\ \/ ~ keepRunning /\ monitor' = "ended" /\ UNCHANGED taken
     \/ keepRunning /\ taken < MaxSnapshots /\ monitor' = "enqueue" /\ taken' = taken + 1
  /\ UNCHANGED <<ui, keepRunning, pipeline, worker, batch, database>>

\* Enqueue, and then perhaps the alert, a message box the user has to dismiss.
Enqueue ==
  /\ monitor = "enqueue"
  /\ queue' = IF running THEN Append(queue, taken) ELSE queue
  /\ monitor' \in {"wait", "alert"}
  /\ UNCHANGED <<ui, keepRunning, taken, running, attached, worker, batch, database>>

DismissAlert ==
  /\ monitor = "alert"
  /\ monitor' = "wait"
  /\ UNCHANGED <<ui, keepRunning, taken, pipeline, worker, batch, database>>

-----------------------------------------------------------------------------
\* Fault: the loop ends with running_.
WorkerCheck_Running ==
  /\ worker = "check"
  /\ worker' = IF running THEN "wait" ELSE "ended"
  /\ UNCHANGED <<ui, monitor, keepRunning, taken, pipeline, batch, database>>

\* The condition of the worker's loop.
WorkerCheck ==
  /\ worker = "check"
  /\ worker' = IF running \/ queue # <<>> THEN "wait" ELSE "ended"
  /\ UNCHANGED <<ui, monitor, keepRunning, taken, pipeline, batch, database>>

\* Fault: the worker waits for a full batch.
WorkerTake_FullOnly ==
  /\ worker = "wait" /\ Len(queue) >= BatchSize
  /\ batch' = SubSeq(queue, 1, BatchSize)
  /\ queue' = SubSeq(queue, BatchSize + 1, Len(queue))
  /\ worker' = "write"
  /\ UNCHANGED <<ui, monitor, keepRunning, taken, running, attached, database>>

\* Fault: the batch is not bounded.
WorkerTake_All ==
  /\ worker = "wait"
  /\ batch' = queue /\ queue' = <<>>
  /\ worker' = IF queue = <<>> THEN "check" ELSE "write"
  /\ UNCHANGED <<ui, monitor, keepRunning, taken, running, attached, database>>

\* wait_for returns for a full batch, for the stop, or after the flush interval.
WorkerTake ==
  /\ worker = "wait"
  /\ LET n == IF Len(queue) < BatchSize THEN Len(queue) ELSE BatchSize
     IN  /\ batch' = SubSeq(queue, 1, n)
         /\ queue' = SubSeq(queue, n + 1, Len(queue))
         /\ worker' = IF n = 0 THEN "check" ELSE "write"
  /\ UNCHANGED <<ui, monitor, keepRunning, taken, running, attached, database>>

\* Fault: a batch that fails goes back into the queue.
WorkerWrite_Requeues ==
  /\ worker = "write"
  /\ \/ attached /\ dbOpen /\ logged' = logged \o batch /\ UNCHANGED queue
     \/ (attached => (~ dbOpen \/ "write" \in Faults)) /\ queue' = queue \o batch /\ UNCHANGED logged
  /\ batch' = <<>>
  /\ worker' = "check"
  /\ UNCHANGED <<ui, monitor, keepRunning, taken, running, attached, dbOpen, failed>>

\* LogBatch inserts a batch in one transaction; the result is not looked at.
WorkerWrite ==
  /\ worker = "write"
  /\ \/ /\ attached /\ dbOpen
        /\ logged' = logged \o batch
        /\ UNCHANGED failed
     \/ /\ attached => (~ dbOpen \/ "write" \in Faults)
        /\ failed' = failed \cup Elements(batch)
        /\ UNCHANGED logged
  /\ batch' = <<>>
  /\ worker' = "check"
  /\ UNCHANGED <<ui, monitor, keepRunning, taken, pipeline, dbOpen>>

-----------------------------------------------------------------------------
\* WM_DESTROY: the monitor is told to end and joined, then the pipeline is
\* stopped, then the database is closed.
\* Fault: the pipeline is stopped before the monitor.
Destroy_PipelineFirst ==
  /\ ui = "messages"
  /\ ui' = "stopPipeline"
  /\ UNCHANGED <<monitor, keepRunning, taken, pipeline, worker, batch, database>>

Destroy ==
  /\ ui = "messages"
  /\ keepRunning' = FALSE
  /\ ui' = "joinMonitor"
  /\ UNCHANGED <<monitor, taken, pipeline, worker, batch, database>>

JoinMonitor ==
  /\ ui = "joinMonitor" /\ monitor = "ended"
  /\ ui' = "stopPipeline"
  /\ UNCHANGED <<monitor, keepRunning, taken, pipeline, worker, batch, database>>

\* Stop of the pipeline: ask, join the worker, drop what is left.
StopPipeline ==
  /\ ui = "stopPipeline"
  /\ running' = FALSE
  /\ ui' = "joinWorker"
  /\ UNCHANGED <<monitor, keepRunning, taken, attached, queue, worker, batch, database>>

JoinWorker ==
  /\ ui = "joinWorker" /\ worker \in {"none", "ended"}
  /\ queue' = <<>>
  /\ attached' = FALSE
  /\ ui' = "closeStorage"
  /\ UNCHANGED <<monitor, keepRunning, taken, running, worker, batch, database>>

CloseStorage ==
  /\ ui = "closeStorage"
  /\ dbOpen' = FALSE
  /\ ui' = "done"
  /\ UNCHANGED <<monitor, keepRunning, taken, pipeline, worker, batch, logged, failed>>

-----------------------------------------------------------------------------
Init ==
  /\ ui = "open"
  /\ monitor = "none"
  /\ keepRunning = FALSE
  /\ taken = 0
  /\ running = FALSE
  /\ attached = FALSE
  /\ queue = <<>>
  /\ worker = "none"
  /\ batch = <<>>
  /\ dbOpen = FALSE
  /\ logged = <<>>
  /\ failed = {}

Window == OpenStorage \/ StartPipeline \/ StartMonitor \/ JoinMonitor \/ StopPipeline
          \/ JoinWorker \/ CloseStorage
MonitorStep == MonitorWait \/ Enqueue
WorkerStep == WorkerCheck \/ WorkerTake \/ WorkerWrite

Next == Window \/ Destroy \/ MonitorStep \/ DismissAlert \/ WorkerStep

Spec == Init /\ [][Next]_vars

\* The three threads are scheduled, and the user answers an alert; when the
\* user closes the application is up to the user.
Fairness == /\ WF_vars(Window) /\ WF_vars(MonitorStep) /\ WF_vars(WorkerStep)
            /\ WF_vars(DismissAlert)

FairSpec == Spec /\ Fairness

-----------------------------------------------------------------------------
Numbers == 1 .. MaxSnapshots

TypeOK ==
  /\ ui \in {"open", "startPipeline", "startMonitor", "messages", "joinMonitor",
             "stopPipeline", "joinWorker", "closeStorage", "done"}
  /\ monitor \in {"none", "wait", "enqueue", "alert", "ended"}
  /\ worker \in {"none", "check", "wait", "write", "ended"}
  /\ keepRunning \in BOOLEAN /\ running \in BOOLEAN /\ attached \in BOOLEAN
  /\ dbOpen \in BOOLEAN
  /\ taken \in 0 .. MaxSnapshots
  /\ queue \in Seq(Numbers) /\ batch \in Seq(Numbers) /\ logged \in Seq(Numbers)
  /\ Len(batch) <= BatchSize
  /\ failed \subseteq Numbers

\* Snapshots reach the database at most once and in the order they were taken,
\* whatever batches they travelled in and whatever batches failed between.
InOrder == \A i, j \in 1 .. Len(logged \o batch \o queue) :
             i < j => (logged \o batch \o queue)[i] < (logged \o batch \o queue)[j]

\* A snapshot handed to a pipeline that runs is never lost inside it: it is in
\* the queue, in the batch, in the database, or in a batch the database refused.
HandedOver == IF monitor = "enqueue" THEN taken - 1 ELSE taken
NothingLost ==
  attached \/ (ui \in {"closeStorage", "done"} /\ worker # "none") =>
    1 .. HandedOver = Elements(queue) \cup Elements(batch) \cup Elements(logged) \cup failed

\* Nobody who writes to the database finds it closed by the shutdown: a batch in
\* the worker's hands still has its storage, and the monitor, which writes its
\* audits directly, has ended before the database is closed.
StorageOutlivesWriters ==
  /\ batch # <<>> => attached /\ dbOpen
  /\ ui = "done" => monitor = "ended"

\* Closing the application ends: the two joins wait for threads that come to
\* their ends, provided that an alert on the screen is dismissed.
Shutdown == ui = "joinMonitor" ~> ui = "done"
=============================================================================
