----------------------- MODULE MetricsPipelineProofs -----------------------
(***************************************************************************)
(* What MetricsPipeline promises about its snapshots, for any batch size,  *)
(* any number of snapshots and any faults.                                 *)
(***************************************************************************)
EXTENDS MetricsPipeline, TLAPS

\* The sequence goes up.
Rising(s) == \A i, j \in 1 .. Len(s) : i < j => s[i] < s[j]

\* Everything in s was taken before everything in t.
Earlier(s, t) == \A i \in 1 .. Len(s), j \in 1 .. Len(t) : s[i] < t[j]

HandedOverOnly(s) == \A i \in 1 .. Len(s) : s[i] <= HandedOver

Ordered ==
  /\ Rising(logged) /\ Rising(batch) /\ Rising(queue)
  /\ Earlier(logged, batch) /\ Earlier(logged, queue) /\ Earlier(batch, queue)
  /\ HandedOverOnly(logged) /\ HandedOverOnly(batch) /\ HandedOverOnly(queue)

Starting == ui \in {"open", "startPipeline", "startMonitor"}

\* What the threads know of each other.
ControlOK ==
  /\ monitor = "none" <=> Starting
  /\ ui \in {"stopPipeline", "joinWorker", "closeStorage", "done"} => monitor = "ended"
  /\ monitor = "ended" => ~ keepRunning
  /\ ui = "messages" => keepRunning
  /\ monitor = "enqueue" => taken > 0
  /\ Starting => taken = 0 /\ logged = <<>> /\ queue = <<>> /\ failed = {}
  /\ worker = "none" => queue = <<>> /\ ~ running /\ ~ attached
  /\ worker # "none" => ui \notin {"open", "startPipeline"}
  /\ worker # "none" /\ ui \notin {"closeStorage", "done"} => attached /\ dbOpen
  /\ running => attached /\ worker \notin {"none", "ended"}
               /\ ui \in {"startMonitor", "messages", "joinMonitor", "stopPipeline"}
  /\ worker # "none" /\ ui \in {"startMonitor", "messages", "joinMonitor", "stopPipeline"} => running
  /\ worker = "ended" => queue = <<>>
  /\ ui \in {"closeStorage", "done"} => worker \in {"none", "ended"}
  /\ batch # <<>> => worker = "write"
  /\ worker = "write" => ~ Starting
  /\ attached => worker # "none" /\ ui \notin {"open", "startPipeline", "closeStorage", "done"}

IInv == TypeOK /\ ControlOK /\ Ordered /\ NothingLost

-----------------------------------------------------------------------------
(* Sequences: taking a batch off the front, and adding at the end. *)

\* Enqueue adds one element.
LEMMA ElementsOfAppend ==
  ASSUME NEW S, NEW s \in Seq(S), NEW e \in S
  PROVE  Elements(Append(s, e)) = Elements(s) \cup {e}
BY DEF Elements

\* The elements of two sequences in a row.
LEMMA ElementsOfConcatenation ==
  ASSUME NEW S, NEW s \in Seq(S), NEW t \in Seq(S)
  PROVE  Elements(s \o t) = Elements(s) \cup Elements(t)
<1>1. \A i \in 1 .. Len(s) : (s \o t)[i] = s[i]
  OBVIOUS
<1>2. \A i \in 1 .. Len(t) : (s \o t)[Len(s) + i] = t[i] /\ Len(s) + i \in 1 .. Len(s \o t)
  OBVIOUS
<1>3. \A i \in 1 .. Len(s \o t) : i \in 1 .. Len(s) \/ \E j \in 1 .. Len(t) : i = Len(s) + j
  <2>1. SUFFICES ASSUME NEW i \in 1 .. Len(s \o t), i \notin 1 .. Len(s)
                 PROVE  i - Len(s) \in 1 .. Len(t) /\ i = Len(s) + (i - Len(s))
    OBVIOUS
  <2> QED  BY <2>1
<1>4. 1 .. Len(s) \subseteq 1 .. Len(s \o t)
  OBVIOUS
<1>5. \A i \in 1 .. Len(s \o t) : (s \o t)[i] \in Elements(s) \cup Elements(t)
  BY <1>1, <1>2, <1>3 DEF Elements
<1>6. Elements(s) \subseteq Elements(s \o t)
  BY <1>1, <1>4 DEF Elements
<1>7. Elements(t) \subseteq Elements(s \o t)
  BY <1>2 DEF Elements
<1> QED  BY <1>5, <1>6, <1>7 DEF Elements

\* SubSeq as WorkerTake uses it.
LEMMA Split ==
  ASSUME NEW S, NEW s \in Seq(S), NEW n \in 0 .. Len(s)
  PROVE  LET front == SubSeq(s, 1, n)
             rest  == SubSeq(s, n + 1, Len(s))
         IN  /\ front \in Seq(S) /\ rest \in Seq(S)
             /\ Len(front) = n /\ Len(rest) = Len(s) - n
             /\ \A i \in 1 .. n : front[i] = s[i]
             /\ \A i \in 1 .. Len(s) - n : rest[i] = s[n + i]
             /\ Elements(s) = Elements(front) \cup Elements(rest)
<1> DEFINE front == SubSeq(s, 1, n)
           rest  == SubSeq(s, n + 1, Len(s))
<1>1. front \in Seq(S) /\ Len(front) = n /\ \A i \in 1 .. n : front[i] = s[i]
  OBVIOUS
<1>2. rest \in Seq(S) /\ Len(rest) = Len(s) - n
  OBVIOUS
<1>3. \A i \in 1 .. Len(s) - n : rest[i] = s[n + i]
  OBVIOUS
<1>4. Elements(s) = Elements(front) \cup Elements(rest)
  <2>1. ASSUME NEW i \in 1 .. Len(s)
        PROVE  s[i] \in Elements(front) \cup Elements(rest)
    <3>1. CASE i <= n
      BY <1>1, <3>1 DEF Elements
    <3>2. CASE i > n
      <4>1. i - n \in 1 .. Len(s) - n /\ n + (i - n) = i
        BY <3>2
      <4> QED  BY <1>2, <1>3, <4>1 DEF Elements
    <3> QED  BY <3>1, <3>2
  <2>2. Elements(front) \subseteq Elements(s)
    BY <1>1 DEF Elements
  <2>3. Elements(rest) \subseteq Elements(s)
    <3>1. \A i \in 1 .. Len(s) - n : n + i \in 1 .. Len(s)
      OBVIOUS
    <3> QED  BY <1>2, <1>3, <3>1 DEF Elements
  <2> QED  BY <2>1, <2>2, <2>3 DEF Elements
<1> QED  BY <1>1, <1>2, <1>3, <1>4

-----------------------------------------------------------------------------
\* The invariant holds initially.
LEMMA InitOK == Init => IInv
<1> SUFFICES ASSUME Init PROVE IInv
  OBVIOUS
<1>1. TypeOK
  <2>1. queue \in Seq(Numbers) /\ batch \in Seq(Numbers) /\ logged \in Seq(Numbers)
    BY DEF Init
  <2>2. Len(batch) <= BatchSize /\ taken \in 0 .. MaxSnapshots /\ failed \subseteq Numbers
    BY PipelineAssumption DEF Init
  <2>3. /\ keepRunning \in BOOLEAN /\ running \in BOOLEAN /\ attached \in BOOLEAN
        /\ dbOpen \in BOOLEAN
    BY DEF Init
  <2> QED  BY <2>1, <2>2, <2>3 DEF Init, TypeOK
<1>2. ControlOK
  BY DEF Init, ControlOK, Starting
<1>3. Ordered
  BY DEF Init, Ordered, Rising, Earlier, HandedOverOnly
<1>4. NothingLost
  BY DEF Init, NothingLost
<1> QED  BY <1>1, <1>2, <1>3, <1>4 DEF IInv

\* Every step keeps the state well typed.
LEMMA TypeStep == TypeOK /\ ControlOK /\ [Next]_vars => TypeOK'
<1> SUFFICES ASSUME TypeOK, ControlOK, [Next]_vars PROVE TypeOK'
  OBVIOUS
<1> USE PipelineAssumption DEF TypeOK, Numbers, pipeline, database
<1>1. CASE OpenStorage    BY <1>1 DEF OpenStorage
<1>2. CASE StartPipeline  BY <1>2 DEF StartPipeline
<1>3. CASE StartMonitor   BY <1>3 DEF StartMonitor
<1>4. CASE MonitorWait    BY <1>4 DEF MonitorWait
<1>5. CASE Enqueue
  <2>1. taken \in 1 .. MaxSnapshots
    BY <1>5 DEF Enqueue, ControlOK
  <2>2. Append(queue, taken) \in Seq(Numbers)
    BY <2>1
  <2>3. queue' \in {queue, Append(queue, taken)}
    BY <1>5 DEF Enqueue
  <2> QED  BY <1>5, <2>2, <2>3 DEF Enqueue
<1>6. CASE DismissAlert   BY <1>6 DEF DismissAlert
<1>7. CASE WorkerCheck    BY <1>7 DEF WorkerCheck
<1>8. CASE WorkerTake
  <2> DEFINE n == IF Len(queue) < BatchSize THEN Len(queue) ELSE BatchSize
  <2>1. n \in 0 .. Len(queue) /\ n <= BatchSize
    OBVIOUS
  <2>2. /\ SubSeq(queue, 1, n) \in Seq(Numbers) /\ Len(SubSeq(queue, 1, n)) = n
        /\ SubSeq(queue, n + 1, Len(queue)) \in Seq(Numbers)
    BY <2>1, Split
  <2> HIDE DEF n
  <2>3. /\ batch' = SubSeq(queue, 1, n) /\ queue' = SubSeq(queue, n + 1, Len(queue))
        /\ worker' \in {"check", "write"}
        /\ UNCHANGED <<ui, monitor, keepRunning, taken, running, attached, database>>
    BY <1>8 DEF WorkerTake, n
  <2> QED  BY <2>1, <2>2, <2>3
<1>9. CASE WorkerWrite
  <2>1. Elements(batch) \subseteq Numbers
    BY DEF Elements
  <2>2. logged \o batch \in Seq(Numbers)
    OBVIOUS
  <2>3. <<>> \in Seq(Numbers) /\ Len(<<>>) = 0
    OBVIOUS
  <2>4. logged' \in Seq(Numbers) /\ failed' \subseteq Numbers
    BY <1>9, <2>1, <2>2 DEF WorkerWrite
  <2>5. batch' \in Seq(Numbers) /\ Len(batch') <= BatchSize
    BY <1>9, <2>3 DEF WorkerWrite
  <2> QED  BY <1>9, <2>4, <2>5 DEF WorkerWrite
<1>10. CASE Destroy       BY <1>10 DEF Destroy
<1>11. CASE JoinMonitor   BY <1>11 DEF JoinMonitor
<1>12. CASE StopPipeline  BY <1>12 DEF StopPipeline
<1>13. CASE JoinWorker
  <2>1. queue' \in Seq(Numbers)
    BY <1>13 DEF JoinWorker
  <2> QED  BY <1>13, <2>1 DEF JoinWorker
<1>14. CASE CloseStorage  BY <1>14 DEF CloseStorage
<1>15. CASE UNCHANGED vars BY <1>15 DEF vars
<1> QED
  BY <1>1, <1>2, <1>3, <1>4, <1>5, <1>6, <1>7, <1>8, <1>9, <1>10, <1>11, <1>12,
     <1>13, <1>14, <1>15 DEF Next, Window, MonitorStep, WorkerStep

\* What the threads know of each other stays right.
LEMMA ControlStep == TypeOK /\ ControlOK /\ [Next]_vars => ControlOK'
<1> SUFFICES ASSUME TypeOK, ControlOK, [Next]_vars PROVE ControlOK'
  OBVIOUS
<1> USE DEF ControlOK, Starting, pipeline, database
<1>1. CASE OpenStorage    BY <1>1 DEF OpenStorage
<1>2. CASE StartPipeline  BY <1>2 DEF StartPipeline
<1>3. CASE StartMonitor   BY <1>3 DEF StartMonitor
<1>4. CASE MonitorWait    BY <1>4 DEF MonitorWait, TypeOK
<1>5. CASE Enqueue        BY <1>5 DEF Enqueue
<1>6. CASE DismissAlert   BY <1>6 DEF DismissAlert
<1>7. CASE WorkerCheck    BY <1>7 DEF WorkerCheck
<1>8. CASE WorkerTake
  <2> DEFINE n == IF Len(queue) < BatchSize THEN Len(queue) ELSE BatchSize
  <2>1. n \in 0 .. Len(queue)
    BY PipelineAssumption DEF TypeOK
  <2>2. n = 0 => SubSeq(queue, 1, n) = <<>>
    BY DEF TypeOK
  <2>3. queue = <<>> => n = 0 /\ SubSeq(queue, n + 1, Len(queue)) = <<>>
    BY <2>1, Split DEF TypeOK
  <2>4. /\ worker = "wait" /\ worker' = IF n = 0 THEN "check" ELSE "write"
        /\ batch' = SubSeq(queue, 1, n) /\ queue' = SubSeq(queue, n + 1, Len(queue))
        /\ UNCHANGED <<ui, monitor, keepRunning, taken, running, attached, database>>
    BY <1>8 DEF WorkerTake
  <2> HIDE DEF n
  <2> QED  BY <2>2, <2>3, <2>4
<1>9. CASE WorkerWrite
  <2>1. worker = "write" /\ worker' = "check" /\ batch' = <<>>
    BY <1>9 DEF WorkerWrite
  <2> QED  BY <1>9, <2>1 DEF WorkerWrite
<1>10. CASE Destroy       BY <1>10 DEF Destroy
<1>11. CASE JoinMonitor   BY <1>11 DEF JoinMonitor
<1>12. CASE StopPipeline  BY <1>12 DEF StopPipeline
<1>13. CASE JoinWorker    BY <1>13 DEF JoinWorker
<1>14. CASE CloseStorage  BY <1>14 DEF CloseStorage
<1>15. CASE UNCHANGED vars BY <1>15 DEF vars
<1> QED
  BY <1>1, <1>2, <1>3, <1>4, <1>5, <1>6, <1>7, <1>8, <1>9, <1>10, <1>11, <1>12,
     <1>13, <1>14, <1>15 DEF Next, Window, MonitorStep, WorkerStep

-----------------------------------------------------------------------------
(* Order. *)

\* Every step keeps queue, batch and stored snapshots in order.
LEMMA OrderStep == TypeOK /\ ControlOK /\ Ordered /\ [Next]_vars => Ordered'
<1> SUFFICES ASSUME TypeOK, ControlOK, Ordered, [Next]_vars PROVE Ordered'
  OBVIOUS
<1>a. ASSUME UNCHANGED <<monitor, taken, logged, batch, queue>> PROVE Ordered'
  BY <1>a DEF Ordered, Rising, Earlier, HandedOverOnly, HandedOver
<1>b. ASSUME UNCHANGED <<logged, batch, queue>>, HandedOver' = HandedOver PROVE Ordered'
  BY <1>b DEF Ordered, Rising, Earlier, HandedOverOnly
<1>c. /\ \A i \in 1 .. Len(logged) : logged[i] \in Nat
      /\ \A i \in 1 .. Len(batch) : batch[i] \in Nat
      /\ \A i \in 1 .. Len(queue) : queue[i] \in Nat
      /\ Len(logged) \in Nat /\ Len(batch) \in Nat /\ Len(queue) \in Nat
  <2>1. ASSUME NEW s \in Seq(Numbers), NEW i \in 1 .. Len(s)
        PROVE  s[i] \in Numbers
    OBVIOUS
  <2>2. Numbers \subseteq Nat
    BY DEF Numbers
  <2>3. \A s \in Seq(Numbers) : Len(s) \in Nat
    OBVIOUS
  <2> QED  BY <2>1, <2>2, <2>3 DEF TypeOK
<1>1. CASE Window
  <2>1. CASE StartMonitor
    BY <2>1, <1>b DEF StartMonitor, pipeline, database, HandedOver, ControlOK, Starting
  <2>2. CASE JoinWorker
    <3>1. queue = <<>> /\ queue' = <<>>
      BY <2>2 DEF JoinWorker, ControlOK
    <3> QED  BY <2>2, <3>1, <1>a DEF JoinWorker, database
  <2> QED  BY <1>1, <2>1, <2>2, <1>a DEF Window, OpenStorage, StartPipeline, JoinMonitor,
            StopPipeline, CloseStorage, pipeline, database
<1>2. CASE MonitorWait
  BY <1>2, <1>b DEF MonitorWait, HandedOver, TypeOK, pipeline, database
<1>3. CASE Enqueue
  <2>1. taken \in 1 .. MaxSnapshots /\ HandedOver = taken - 1 /\ HandedOver' = taken
    BY <1>3 DEF Enqueue, ControlOK, HandedOver, TypeOK
  <2>2. UNCHANGED <<logged, batch>>
    BY <1>3 DEF Enqueue, database
  <2>3. CASE ~ running
    <3>1. queue' = queue
      BY <1>3, <2>3 DEF Enqueue
    <3>2. HandedOverOnly(logged)' /\ HandedOverOnly(batch)' /\ HandedOverOnly(queue)'
      BY <1>c, <2>1, <2>2, <3>1 DEF Ordered, HandedOverOnly
    <3> QED  BY <2>2, <3>1, <3>2 DEF Ordered, Rising, Earlier
  <2>4. CASE running
    <3>1. queue' = Append(queue, taken)
      BY <1>3, <2>4 DEF Enqueue
    <3>2. /\ Len(queue') = Len(queue) + 1
          /\ \A i \in 1 .. Len(queue') :
               \/ i \in 1 .. Len(queue) /\ queue'[i] = queue[i]
               \/ i = Len(queue) + 1 /\ queue'[i] = taken
      BY <3>1 DEF TypeOK
    <3>3. /\ \A i \in 1 .. Len(logged) : logged[i] < taken
          /\ \A i \in 1 .. Len(batch) : batch[i] < taken
          /\ \A i \in 1 .. Len(queue) : queue[i] < taken
      BY <1>c, <2>1 DEF Ordered, HandedOverOnly
    <3>4. Rising(queue')
      <4>1. SUFFICES ASSUME NEW i \in 1 .. Len(queue'), NEW j \in 1 .. Len(queue'), i < j
                     PROVE  queue'[i] < queue'[j]
        BY DEF Rising
      <4>2. i \in 1 .. Len(queue) /\ queue'[i] = queue[i]
        BY <1>c, <3>2, <4>1
      <4>3. CASE j \in 1 .. Len(queue) /\ queue'[j] = queue[j]
        BY <4>1, <4>2, <4>3 DEF Ordered, Rising
      <4>4. CASE queue'[j] = taken
        BY <3>3, <4>2, <4>4
      <4> QED  BY <3>2, <4>3, <4>4
    <3>5. Earlier(logged, queue')
      BY <3>2, <3>3 DEF Ordered, Earlier
    <3>7. Earlier(batch, queue')
      BY <3>2, <3>3 DEF Ordered, Earlier
    <3>6. HandedOverOnly(logged)' /\ HandedOverOnly(batch)' /\ HandedOverOnly(queue)'
      <4>1. HandedOverOnly(logged)' /\ HandedOverOnly(batch)'
        BY <1>c, <2>1, <2>2, <3>3 DEF HandedOverOnly
      <4>2. HandedOverOnly(queue)'
        BY <1>c, <2>1, <3>2, <3>3 DEF HandedOverOnly
      <4> QED  BY <4>1, <4>2
    <3> QED  BY <2>2, <3>4, <3>5, <3>6, <3>7 DEF Ordered, Rising, Earlier
  <2> QED  BY <2>3, <2>4
<1>4. CASE DismissAlert
  BY <1>4, <1>b DEF DismissAlert, HandedOver, pipeline, database
<1>5. CASE WorkerCheck
  BY <1>5, <1>a DEF WorkerCheck, pipeline, database
<1>6. CASE WorkerTake
  <2> DEFINE n == IF Len(queue) < BatchSize THEN Len(queue) ELSE BatchSize
  <2>1. n \in 0 .. Len(queue)
    BY PipelineAssumption DEF TypeOK
  <2>2. /\ batch' = SubSeq(queue, 1, n) /\ queue' = SubSeq(queue, n + 1, Len(queue))
        /\ batch = <<>> /\ UNCHANGED <<logged, monitor, taken>>
    BY <1>6 DEF WorkerTake, database, ControlOK
  <2> HIDE DEF n
  <2>3. /\ Len(batch') = n /\ Len(queue') = Len(queue) - n
        /\ \A i \in 1 .. n : batch'[i] = queue[i]
        /\ \A i \in 1 .. Len(queue) - n : queue'[i] = queue[n + i]
        /\ Len(queue) \in Nat
    BY <2>1, <2>2, Split DEF TypeOK
  <2>4. \A i \in 1 .. n : i \in 1 .. Len(queue)
    BY <2>1, <2>3
  <2>5. \A i \in 1 .. Len(queue) - n : n + i \in 1 .. Len(queue)
    BY <2>1, <2>3
  <2>6. Rising(batch') /\ Earlier(logged, batch')
    BY <2>3, <2>4 DEF Ordered, Rising, Earlier
  <2>11. HandedOver' = HandedOver
    BY <2>2 DEF HandedOver
  <2>12. HandedOverOnly(batch)'
    BY <2>3, <2>4, <2>11 DEF Ordered, HandedOverOnly
  <2>7. HandedOverOnly(queue)' /\ Earlier(logged, queue')
    BY <2>2, <2>3, <2>5 DEF Ordered, HandedOverOnly, HandedOver, Earlier
  <2>8. Rising(queue')
    BY <2>1, <2>3, <2>5 DEF Ordered, Rising
  <2>9. Earlier(batch', queue')
    BY <2>1, <2>3, <2>4, <2>5 DEF Ordered, Rising, Earlier
  <2>10. Rising(logged)' /\ HandedOverOnly(logged)'
    BY <2>2 DEF Ordered, Rising, HandedOverOnly, HandedOver
  <2> QED  BY <2>2, <2>6, <2>7, <2>8, <2>9, <2>10, <2>12 DEF Ordered, Rising, Earlier
<1>7. CASE WorkerWrite
  <2>1. batch' = <<>> /\ UNCHANGED <<queue, monitor, taken>> /\ logged' \in {logged, logged \o batch}
    BY <1>7 DEF WorkerWrite, pipeline
  <2>2. CASE logged' = logged
    BY <2>1, <2>2 DEF Ordered, Rising, Earlier, HandedOverOnly, HandedOver
  <2>3. CASE logged' = logged \o batch
    <3>1. /\ Len(logged') = Len(logged) + Len(batch)
          /\ \A i \in 1 .. Len(logged') :
               \/ i \in 1 .. Len(logged) /\ logged'[i] = logged[i]
               \/ i - Len(logged) \in 1 .. Len(batch) /\ logged'[i] = batch[i - Len(logged)]
          /\ Len(logged) \in Nat /\ Len(batch) \in Nat
      BY <2>3 DEF TypeOK
    <3>2. Rising(logged')
      <4>1. SUFFICES ASSUME NEW i \in 1 .. Len(logged'), NEW j \in 1 .. Len(logged'), i < j
                     PROVE  logged'[i] < logged'[j]
        BY DEF Rising
      <4>2. CASE i \in 1 .. Len(logged)
        <5>1. logged'[i] = logged[i]
          BY <1>c, <3>1, <4>2
        <5>2. CASE j \in 1 .. Len(logged) /\ logged'[j] = logged[j]
          BY <4>1, <4>2, <5>1, <5>2 DEF Ordered, Rising
        <5>3. CASE j - Len(logged) \in 1 .. Len(batch) /\ logged'[j] = batch[j - Len(logged)]
          BY <4>2, <5>1, <5>3 DEF Ordered, Earlier
        <5> QED  BY <3>1, <5>2, <5>3
      <4>3. CASE i \notin 1 .. Len(logged)
        <5>1. /\ i - Len(logged) \in 1 .. Len(batch) /\ j - Len(logged) \in 1 .. Len(batch)
              /\ i - Len(logged) < j - Len(logged)
              /\ logged'[i] = batch[i - Len(logged)] /\ logged'[j] = batch[j - Len(logged)]
          BY <1>c, <3>1, <4>1, <4>3
        <5> QED  BY <5>1 DEF Ordered, Rising
      <4> QED  BY <4>2, <4>3
    <3>3. Earlier(logged', queue')
      BY <2>1, <3>1 DEF Ordered, Earlier
    <3>4. HandedOverOnly(logged)'
      BY <2>1, <3>1 DEF Ordered, HandedOverOnly, HandedOver
    <3> QED  BY <2>1, <3>2, <3>3, <3>4 DEF Ordered, Rising, Earlier, HandedOverOnly, HandedOver
  <2> QED  BY <2>1, <2>2, <2>3
<1>8. CASE Destroy
  BY <1>8, <1>a DEF Destroy, pipeline, database
<1>9. CASE UNCHANGED vars
  BY <1>9, <1>a DEF vars
<1> QED
  BY <1>1, <1>2, <1>3, <1>4, <1>5, <1>6, <1>7, <1>8, <1>9 DEF Next, MonitorStep, WorkerStep

-----------------------------------------------------------------------------
(* Completeness. *)

Known == Elements(queue) \cup Elements(batch) \cup Elements(logged) \cup failed

Kept == attached \/ (ui \in {"closeStorage", "done"} /\ worker # "none")

\* No step loses a snapshot other than by a refused batch.
LEMMA LossStep ==
  TypeOK /\ ControlOK /\ NothingLost /\ [Next]_vars => NothingLost'
<1> SUFFICES ASSUME TypeOK, ControlOK, NothingLost, [Next]_vars, Kept'
             PROVE  1 .. HandedOver' = Known'
  BY DEF NothingLost, Kept, Known
<1>n. Kept => 1 .. HandedOver = Known
  BY DEF NothingLost, Kept, Known
<1>a. ASSUME UNCHANGED <<logged, batch, queue, failed>>, HandedOver' = HandedOver, Kept
      PROVE  1 .. HandedOver' = Known'
  BY <1>a, <1>n DEF Known
<1>e. Elements(<<>>) = {}
  BY DEF Elements
<1>1. CASE OpenStorage
  BY <1>1 DEF OpenStorage, Kept, pipeline, ControlOK
<1>2. CASE StartPipeline
  <2>1. /\ queue' = <<>> /\ batch' = <<>> /\ logged' = <<>> /\ failed' = {}
        /\ taken' = 0 /\ monitor' = "none"
    BY <1>2 DEF StartPipeline, ControlOK, Starting, database
  <2> QED  BY <2>1, <1>e DEF Known, HandedOver, Elements
<1>3. CASE StartMonitor
  <2>1. HandedOver' = HandedOver
    BY <1>3 DEF StartMonitor, HandedOver, ControlOK, Starting
  <2>2. Kept
    BY <1>3 DEF StartMonitor, Kept, pipeline
  <2> QED  BY <1>3, <2>1, <2>2, <1>a DEF StartMonitor, pipeline, database
<1>4. CASE JoinMonitor \/ StopPipeline \/ CloseStorage \/ Destroy
  <2>1. HandedOver' = HandedOver
    BY <1>4 DEF JoinMonitor, StopPipeline, CloseStorage, Destroy, HandedOver
  <2>2. Kept
    BY <1>4 DEF JoinMonitor, StopPipeline, CloseStorage, Destroy, Kept, pipeline
  <2> QED
    BY <1>4, <2>1, <2>2, <1>a
    DEF JoinMonitor, StopPipeline, CloseStorage, Destroy, pipeline, database
<1>5. CASE JoinWorker
  <2>1. /\ queue = <<>> /\ queue' = <<>> /\ UNCHANGED <<monitor, taken, batch, logged, failed>>
        /\ Kept
    BY <1>5 DEF JoinWorker, ControlOK, Kept, database
  <2> QED  BY <2>1, <1>a DEF HandedOver
<1>6. CASE MonitorWait
  <2>1. HandedOver' = HandedOver
    BY <1>6 DEF MonitorWait, HandedOver, TypeOK
  <2>2. Kept
    BY <1>6 DEF MonitorWait, Kept, pipeline
  <2> QED  BY <1>6, <2>1, <2>2, <1>a DEF MonitorWait, pipeline, database
<1>7. CASE Enqueue
  <2>1. taken \in 1 .. MaxSnapshots /\ HandedOver = taken - 1 /\ HandedOver' = taken
    BY <1>7 DEF Enqueue, ControlOK, HandedOver, TypeOK
  <2>2. Kept /\ UNCHANGED <<batch, logged, failed>>
    BY <1>7 DEF Enqueue, Kept, database
  <2>3. running
    <3>1. ui \in {"messages", "joinMonitor"}
      BY <1>7 DEF Enqueue, ControlOK, Starting, TypeOK
    <3> QED  BY <2>2, <3>1 DEF Kept, ControlOK
  <2>4. Elements(queue') = Elements(queue) \cup {taken}
    <3>1. queue' = Append(queue, taken)
      BY <1>7, <2>3 DEF Enqueue
    <3>2. queue \in Seq(Numbers) /\ taken \in Numbers
      BY <2>1 DEF TypeOK, Numbers
    <3> QED  BY <3>1, <3>2, ElementsOfAppend
  <2>5. Known' = Known \cup {taken}
    BY <2>2, <2>4 DEF Known
  <2>6. 1 .. taken = (1 .. taken - 1) \cup {taken}
    BY <2>1
  <2> QED  BY <2>1, <2>2, <2>5, <2>6, <1>n
<1>8. CASE DismissAlert
  <2>1. HandedOver' = HandedOver
    BY <1>8 DEF DismissAlert, HandedOver
  <2>2. Kept
    BY <1>8 DEF DismissAlert, Kept, pipeline
  <2> QED  BY <1>8, <2>1, <2>2, <1>a DEF DismissAlert, pipeline, database
<1>9. CASE WorkerStep
  <2>1. Kept /\ UNCHANGED <<monitor, taken>>
    BY <1>9 DEF WorkerStep, WorkerCheck, WorkerTake, WorkerWrite, Kept, pipeline
  <2>2. HandedOver' = HandedOver
    BY <2>1 DEF HandedOver
  <2>3. Known' = Known
    <3>1. CASE WorkerCheck
      BY <3>1 DEF WorkerCheck, Known, pipeline, database
    <3>2. CASE WorkerTake
      <4> DEFINE n == IF Len(queue) < BatchSize THEN Len(queue) ELSE BatchSize
      <4>1. n \in 0 .. Len(queue)
        BY PipelineAssumption DEF TypeOK
      <4>2. /\ batch' = SubSeq(queue, 1, n) /\ queue' = SubSeq(queue, n + 1, Len(queue))
            /\ batch = <<>> /\ UNCHANGED <<logged, failed>>
        BY <3>2 DEF WorkerTake, database, ControlOK
      <4> HIDE DEF n
      <4>3. Elements(queue) = Elements(batch') \cup Elements(queue')
        BY <4>1, <4>2, Split DEF TypeOK
      <4> QED  BY <4>2, <4>3, <1>e DEF Known
    <3>3. CASE WorkerWrite
      <4>1. batch' = <<>> /\ UNCHANGED queue
        BY <3>3 DEF WorkerWrite, pipeline
      <4>2. Elements(logged \o batch) = Elements(logged) \cup Elements(batch)
        BY ElementsOfConcatenation DEF TypeOK
      <4>3. \/ logged' = logged \o batch /\ failed' = failed
            \/ logged' = logged /\ failed' = failed \cup Elements(batch)
        BY <3>3 DEF WorkerWrite
      <4> QED  BY <4>1, <4>2, <4>3, <1>e DEF Known
    <3> QED  BY <1>9, <3>1, <3>2, <3>3 DEF WorkerStep
  <2> QED  BY <2>1, <2>2, <2>3, <1>n
<1>10. CASE UNCHANGED vars
  BY <1>10, <1>a DEF vars, Kept, HandedOver
<1> QED
  BY <1>1, <1>2, <1>3, <1>4, <1>5, <1>6, <1>7, <1>8, <1>9, <1>10
  DEF Next, Window, MonitorStep

-----------------------------------------------------------------------------
LEMMA Invariant == Spec => []IInv
<1>1. IInv /\ [Next]_vars => IInv'
  BY TypeStep, ControlStep, OrderStep, LossStep DEF IInv
<1> QED  BY InitOK, <1>1, PTL DEF Spec

\* Ordered, said of the one sequence that InOrder looks at.
LEMMA OrderedInOrder == TypeOK /\ Ordered => InOrder
<1> SUFFICES ASSUME TypeOK, Ordered,
                    NEW i \in 1 .. Len(logged \o batch \o queue),
                    NEW j \in 1 .. Len(logged \o batch \o queue), i < j
             PROVE  (logged \o batch \o queue)[i] < (logged \o batch \o queue)[j]
  BY DEF InOrder
<1> DEFINE a == Len(logged)
           b == Len(batch)
           all == logged \o batch \o queue
           In(k, e) == \/ k \in 1 .. a /\ e = logged[k]
                       \/ k - a \in 1 .. b /\ e = batch[k - a]
                       \/ k - a - b \in 1 .. Len(queue) /\ e = queue[k - a - b]
<1>1. a \in Nat /\ b \in Nat /\ Len(queue) \in Nat
  BY DEF TypeOK
<1>2. In(i, all[i]) /\ In(j, all[j])
  BY DEF TypeOK
<1> HIDE DEF all
<1>3. CASE i \in 1 .. a /\ all[i] = logged[i]
  BY <1>1, <1>2, <1>3 DEF Ordered, Rising, Earlier
<1>4. CASE i - a \in 1 .. b /\ all[i] = batch[i - a]
  <2>1. CASE j - a \in 1 .. b /\ all[j] = batch[j - a]
    <3>1. i - a < j - a
      BY <1>1, <1>4
    <3> QED  BY <1>4, <2>1, <3>1 DEF Ordered, Rising
  <2>2. CASE j - a - b \in 1 .. Len(queue) /\ all[j] = queue[j - a - b]
    BY <1>4, <2>2 DEF Ordered, Earlier
  <2> QED  BY <1>1, <1>2, <1>4, <2>1, <2>2
<1>5. CASE i - a - b \in 1 .. Len(queue) /\ all[i] = queue[i - a - b]
  <2>1. /\ j - a - b \in 1 .. Len(queue) /\ all[j] = queue[j - a - b]
        /\ i - a - b < j - a - b
    BY <1>1, <1>2, <1>5
  <2> QED  BY <1>5, <2>1 DEF Ordered, Rising
<1>6. all[i] < all[j]
  BY <1>2, <1>3, <1>4, <1>5
<1> QED  BY <1>6 DEF all

\* Snapshots reach the database at most once and in order, for any batch size
\* and whatever batches the database refuses.
THEOREM SnapshotsInOrder == Spec => []InOrder
<1>1. IInv => InOrder
  BY OrderedInOrder DEF IInv
<1> QED  BY Invariant, <1>1, PTL

\* No snapshot handed to a running pipeline is lost inside it, up to and
\* including the drain at the shutdown.
THEOREM SnapshotsKept == Spec => []NothingLost
<1>1. IInv => NothingLost
  BY DEF IInv
<1> QED  BY Invariant, <1>1, PTL

\* The shutdown closes the database under nobody who still writes to it.
THEOREM ClosedLast == Spec => []StorageOutlivesWriters
<1>1. IInv => StorageOutlivesWriters
  BY DEF IInv, ControlOK, StorageOutlivesWriters
<1> QED  BY Invariant, <1>1, PTL

=============================================================================
