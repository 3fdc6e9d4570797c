-------------------------- MODULE VideoCacheProofs --------------------------
(***************************************************************************)
(* What VideoCache guarantees for every set of keys, extensions, contents  *)
(* and readers, for every choice of faults and for every bound.            *)
(*                                                                         *)
(* A clear takes several steps and the reports about it come later still,  *)
(* so neither safety property is inductive.  Both rest on the order of the *)
(* serial queue: a block is never asked before one that is ahead of it     *)
(* (QueueOrdered), and while the sweep runs no file is made that it has    *)
(* not listed (SweepCovers).                                               *)
(***************************************************************************)
EXTENDS VideoCache, DataFacts

-----------------------------------------------------------------------------
\* Typing.

LEMMA HeadJob ==
  ASSUME queue \in Seq(Job), NEW op, NEW ph, Running(op, ph)
  PROVE  /\ queue # <<>>
         /\ Head(queue) \in Job
         /\ Head(queue).op = op
         /\ Head(queue).epoch \in Epochs
         /\ op \in {"store", "query"} => Head(queue).path \in Paths
         /\ op = "store" => Head(queue).data \in Values
         /\ Tail(queue) \in Seq(Job)
<1>1. queue # <<>> /\ Head(queue) \in Job /\ Head(queue).op = op /\ Tail(queue) \in Seq(Job)
  BY DEF Running
<1> QED BY <1>1 DEF Job, StoreJob, QueryJob, ClearJob

LEMMA ReportTypes ==
  ASSUME TypeOK, NEW ok \in BOOLEAN, NEW ph, Running("clear", ph), ReportClear(ok)
  PROVE  TypeOK'
<1>1. Head(queue).epoch \in Epochs /\ Tail(queue) \in Seq(Job)
  BY HeadJob DEF TypeOK
<1>2. [op |-> "report", ok |-> ok, epoch |-> Head(queue).epoch] \in ReportBlock
  BY <1>1 DEF ReportBlock
<1> QED BY <1>1, <1>2 DEF ReportClear, TypeOK

\* Every step keeps the types.
LEMMA TypeStep == TypeOK /\ [Next]_vars => TypeOK'
<1> SUFFICES ASSUME TypeOK, [Next]_vars PROVE TypeOK'
  OBVIOUS
<1> USE BoundsAssumption
<1>1. CASE StoreDataToMemoryCache
  <2>1. Head(queue).path[1] \in Keys /\ Head(queue).epoch \in Epochs
        /\ AsObject(Head(queue).data) \in Contents \cup {Null}
    BY <1>1, HeadJob DEF StoreDataToMemoryCache, TypeOK, Paths, AsObject, Values
  <2>2. IsMap(memoryCache', Keys, Objects)
    BY <1>1, <2>1, PutIsMap DEF StoreDataToMemoryCache, TypeOK, Objects
  <2> QED BY <1>1, <2>2 DEF StoreDataToMemoryCache, TypeOK
<1>2. CASE StoreDataToDiskCache
  <2>1. Head(queue).path \in Paths /\ Head(queue).epoch \in Epochs
        /\ FileContents(Head(queue).data) \in Contents
        /\ Tail(queue) \in Seq(Job)
    BY <1>2, HeadJob DEF StoreDataToDiskCache, TypeOK, FileContents, Values, Contents
  <2>2. IsMap(disk', Paths, Files)
    BY <1>2, <2>1, PutIsMap DEF StoreDataToDiskCache, TypeOK, Files
  <2> QED BY <1>2, <2>1, <2>2 DEF StoreDataToDiskCache, TypeOK
<1>3. CASE QueryURLFromCache
  <2>1. Head(queue).path \in Paths /\ Head(queue).epoch \in Epochs /\ Tail(queue) \in Seq(Job)
    BY <1>3, HeadJob DEF QueryURLFromCache, TypeOK
  <2>2. [op |-> "use", path |-> Head(queue).path, hit |-> Head(queue).path \in DOMAIN disk,
         epoch |-> Head(queue).epoch] \in UseBlock
    BY <2>1 DEF UseBlock
  <2> QED BY <1>3, <2>1, <2>2 DEF QueryURLFromCache, TypeOK
<1>4. CASE ClearMemoryCache
  BY <1>4, NoEntriesIsMap DEF ClearMemoryCache, TypeOK
<1>5. CASE ListDiskCache
  BY <1>5 DEF ListDiskCache, TypeOK, IsMap
<1>6. CASE ListDiskCacheFails
  BY <1>6, ReportTypes DEF ListDiskCacheFails
<1>7. ASSUME NEW path \in Paths, RemoveItem(path) PROVE TypeOK'
  BY <1>7, DropIsMap DEF RemoveItem, TypeOK
<1>8. CASE RemoveItemFails
  BY <1>8, ReportTypes DEF RemoveItemFails
<1>9. CASE ClearDiskCacheReturns
  BY <1>9, ReportTypes DEF ClearDiskCacheReturns
<1>10. ASSUME NEW key \in Keys, NEW ext \in Exts, NEW data \in Values, AskStore(key, ext, data)
       PROVE  TypeOK'
  <2>1. [op |-> "store", path |-> DiskPath(key, ext), data |-> data, epoch |-> clears] \in Job
    BY DEF Job, StoreJob, DiskPath, Paths, TypeOK
  <2> QED BY <1>10, <2>1 DEF AskStore, Enqueue, TypeOK
<1>11. ASSUME NEW key \in Keys, NEW ext \in Exts, AskQuery(key, ext) PROVE TypeOK'
  <2>1. [op |-> "query", path |-> DiskPath(key, ext), epoch |-> clears] \in Job
    BY DEF Job, QueryJob, DiskPath, Paths, TypeOK
  <2> QED BY <1>11, <2>1 DEF AskQuery, Enqueue, TypeOK
<1>12. CASE AskClear
  <2>1. clears' \in Epochs
    BY <1>12 DEF AskClear, TypeOK, Epochs
  <2>2. [op |-> "clear", epoch |-> clears'] \in Job
    BY <2>1 DEF Job, ClearJob
  <2> QED BY <1>12, <2>1, <2>2 DEF AskClear, Enqueue, TypeOK
<1>13. CASE RunMainBlock
  BY <1>13 DEF RunMainBlock, TypeOK
<1>14. ASSUME NEW t \in Readers, NEW key \in Keys, NEW ext \in Exts, LookInMemory(t, key, ext)
       PROVE  TypeOK'
  <2>1. [pc |-> "disk", path |-> DiskPath(key, ext)] \in ReaderState
    BY DEF ReaderState, DiskPath, Paths
  <2> QED BY <1>14, <2>1 DEF LookInMemory, TypeOK
<1>15. ASSUME NEW t \in Readers, DataFromDiskCache(t) PROVE TypeOK'
  <2>1. reader[t].path \in Paths
    BY <1>15 DEF DataFromDiskCache, TypeOK, ReaderState
  <2>2. reader[t].path \in DOMAIN disk => disk[reader[t].path] \in Files
    BY DEF TypeOK, IsMap
  <2>3. (IF reader[t].path \in DOMAIN disk
         THEN [pc |-> "fill", path |-> reader[t].path, file |-> disk[reader[t].path]]
         ELSE [pc |-> "idle"]) \in ReaderState
    BY <2>1, <2>2 DEF ReaderState
  <2> QED BY <1>15, <2>3 DEF DataFromDiskCache, TypeOK
<1>16. ASSUME NEW t \in Readers, FillMemoryCache(t) PROVE TypeOK'
  <2>1. reader[t].path[1] \in Keys /\ reader[t].file \in Files
    BY <1>16 DEF FillMemoryCache, TypeOK, ReaderState, Paths
  <2>2. reader[t].file \in Objects
    BY <2>1 DEF Files, Objects
  <2>3. IsMap(memoryCache', Keys, Objects)
    BY <1>16, <2>1, <2>2, PutIsMap DEF FillMemoryCache, TypeOK
  <2>4. [pc |-> "idle"] \in ReaderState
    BY DEF ReaderState
  <2> QED BY <1>16, <2>3, <2>4 DEF FillMemoryCache, TypeOK
<1>17. ASSUME NEW key \in Keys, Evict(key) PROVE TypeOK'
  BY <1>17, DropIsMap DEF Evict, TypeOK
<1>18. CASE Relaunch
  <2>1. [pc |-> "idle"] \in ReaderState
    BY DEF ReaderState
  <2> QED BY <1>18, <2>1, NoEntriesIsMap DEF Relaunch, TypeOK
<1>19. CASE UNCHANGED vars
  BY <1>19 DEF vars, TypeOK
<1> QED
  BY <1>1, <1>2, <1>3, <1>4, <1>5, <1>6, <1>7, <1>8, <1>9, <1>10, <1>11, <1>12, <1>13,
     <1>14, <1>15, <1>16, <1>17, <1>18, <1>19
  DEF Next, Worker, Calls, QueryDataFromCache, System

LEMMA InitTypes == Init => TypeOK
<1> SUFFICES ASSUME Init PROVE TypeOK
  OBVIOUS
<1>1. [pc |-> "idle"] \in ReaderState
  BY DEF ReaderState
<1> QED BY <1>1, NoEntriesIsMap, BoundsAssumption DEF Init, TypeOK, Epochs

\* The variables of the cache keep their types, whatever the interleaving.
THEOREM TypeCorrect == Spec => []TypeOK
BY InitTypes, TypeStep, PTL DEF Spec

-----------------------------------------------------------------------------
\* The inductive invariants.

\* Blocks are queued in the order of history, a clear after all it can see.
QueueOrdered ==
  \A i, j \in DOMAIN queue :
    i < j => /\ queue[i].epoch <= queue[j].epoch
             /\ queue[j].op = "clear" => queue[i].epoch < queue[j].epoch

\* No block of the queue is older than the last clear reported complete.
QueueIsCurrent ==
  /\ swept <= clears
  /\ \A i \in DOMAIN queue : swept <= queue[i].epoch /\ queue[i].epoch <= clears

\* No file is made while a clear runs: what is left is what it listed.
SweepCovers == phase = "sweep" => DOMAIN disk \subseteq todo

\* What is still queued was asked no earlier than any answer main has not run yet, a clear
\* later.
AnswersAreOlder ==
  \A i \in DOMAIN mainQueue :
    /\ mainQueue[i].epoch <= clears
    /\ \A j \in DOMAIN queue :
         /\ mainQueue[i].epoch <= queue[j].epoch
         /\ queue[j].op = "clear" => mainQueue[i].epoch < queue[j].epoch

Inv ==
  /\ TypeOK
  /\ QueueOrdered
  /\ QueueIsCurrent
  /\ SweepCovers
  /\ AnswersAreOlder
  /\ ReportedClearIsComplete
  /\ HandedPathIsLive
  /\ AnswersInOrder

\* What a step does to the queue and to history.
QueueKept == UNCHANGED <<queue, clears, swept>>
JobQueued ==
  \E job \in Job :
    /\ queue' = Append(queue, job)
    /\ job.epoch = clears'
    /\ IF job.op = "clear" THEN clears' = clears + 1 ELSE clears' = clears
    /\ UNCHANGED <<swept, disk, mainQueue>>
JobDone ==
  /\ queue # <<>>
  /\ queue' = Tail(queue)
  /\ swept' \in {swept, Head(queue).epoch}
  /\ UNCHANGED clears
QueueLost == queue' = <<>> /\ mainQueue' = <<>> /\ UNCHANGED <<clears, swept, disk>>

\* Every call but the run of a main block asks one block.
LEMMA CallsQueueJobs ==
  ASSUME TypeOK, Calls
  PROVE  JobQueued \/ RunMainBlock
<1>1. ASSUME NEW key \in Keys, NEW ext \in Exts, NEW data \in Values, AskStore(key, ext, data)
      PROVE  JobQueued
  <2> DEFINE job == [op |-> "store", path |-> DiskPath(key, ext), data |-> data, epoch |-> clears]
  <2>1. job \in Job
    BY DEF Job, StoreJob, DiskPath, Paths, TypeOK
  <2> QED BY <1>1, <2>1 DEF AskStore, Enqueue, JobQueued
<1>2. ASSUME NEW key \in Keys, NEW ext \in Exts, AskQuery(key, ext) PROVE JobQueued
  <2> DEFINE job == [op |-> "query", path |-> DiskPath(key, ext), epoch |-> clears]
  <2>1. job \in Job
    BY DEF Job, QueryJob, DiskPath, Paths, TypeOK
  <2> QED BY <1>2, <2>1 DEF AskQuery, Enqueue, JobQueued
<1>3. CASE AskClear
  <2> DEFINE job == [op |-> "clear", epoch |-> clears']
  <2>1. job \in Job
    BY <1>3, BoundsAssumption DEF AskClear, Job, ClearJob, TypeOK, Epochs
  <2> QED BY <1>3, <2>1 DEF AskClear, Enqueue, JobQueued
<1> QED BY <1>1, <1>2, <1>3 DEF Calls

\* Every step asks one block, ends one, loses all of them or leaves them alone.
LEMMA QueueSteps ==
  ASSUME TypeOK, [Next]_vars
  PROVE  QueueKept \/ JobQueued \/ JobDone \/ QueueLost
<1>1. CASE Worker
  BY <1>1 DEF Worker, StoreDataToMemoryCache, StoreDataToDiskCache, QueryURLFromCache,
     ClearMemoryCache, ListDiskCache, ListDiskCacheFails, RemoveItem, RemoveItemFails,
     ClearDiskCacheReturns, ReportClear, Running, QueueKept, JobDone
<1>2. CASE RunMainBlock
  BY <1>2 DEF RunMainBlock, QueueKept
<1>3. CASE QueryDataFromCache
  BY <1>3 DEF QueryDataFromCache, LookInMemory, DataFromDiskCache, FillMemoryCache, QueueKept
<1>4. CASE System
  BY <1>4 DEF System, Evict, Relaunch, QueueKept, QueueLost
<1>5. CASE UNCHANGED vars
  BY <1>5 DEF vars, QueueKept
<1> QED BY <1>1, <1>2, <1>3, <1>4, <1>5, CallsQueueJobs DEF Next

\* The order of the queue is kept.
LEMMA OrderStep ==
  ASSUME TypeOK, TypeOK', QueueOrdered, QueueIsCurrent, [Next]_vars
  PROVE  QueueOrdered' /\ QueueIsCurrent'
<1> USE DEF TypeOK, Epochs
<1>0. \A i \in DOMAIN queue : queue[i] \in Job /\ queue[i].epoch \in Nat
  BY BoundsAssumption DEF Job, StoreJob, QueryJob, ClearJob
<1>1. CASE QueueKept
  BY <1>1 DEF QueueKept, QueueOrdered, QueueIsCurrent
<1>2. CASE JobQueued
  <2>1. PICK job \in Job :
          /\ queue' = Append(queue, job)
          /\ job.epoch = clears'
          /\ IF job.op = "clear" THEN clears' = clears + 1 ELSE clears' = clears
          /\ UNCHANGED swept
    BY <1>2 DEF JobQueued
  <2>2. /\ DOMAIN queue' = DOMAIN queue \cup {Len(queue) + 1}
        /\ queue'[Len(queue) + 1] = job
        /\ \A i \in DOMAIN queue : i < Len(queue) + 1 /\ queue'[i] = queue[i]
    BY <2>1, AppendSeq
  <2>3. QueueOrdered'
    <3> SUFFICES ASSUME NEW i \in DOMAIN queue', NEW j \in DOMAIN queue', i < j
                 PROVE  /\ queue'[i].epoch <= queue'[j].epoch
                        /\ queue'[j].op = "clear" => queue'[i].epoch < queue'[j].epoch
      BY DEF QueueOrdered
    <3>1. i \in DOMAIN queue
      BY <2>2
    <3>2. CASE j \in DOMAIN queue
      BY <2>2, <3>1, <3>2 DEF QueueOrdered
    <3>3. CASE j = Len(queue) + 1
      BY <1>0, <2>1, <2>2, <3>1, <3>3 DEF QueueIsCurrent
    <3> QED BY <2>2, <3>2, <3>3
  <2>4. QueueIsCurrent'
    BY <1>0, <2>1, <2>2 DEF QueueIsCurrent
  <2> QED BY <2>3, <2>4
<1>3. CASE JobDone
  <2>1. /\ 1 \in DOMAIN queue
        /\ Head(queue) = queue[1]
        /\ \A i \in DOMAIN queue' : i \in Nat /\ i >= 1 /\ i + 1 \in DOMAIN queue /\ queue'[i] = queue[i + 1]
    BY <1>3, TailSeq DEF JobDone
  <2>2. QueueOrdered'
    <3> SUFFICES ASSUME NEW i \in DOMAIN queue', NEW j \in DOMAIN queue', i < j
                 PROVE  /\ queue'[i].epoch <= queue'[j].epoch
                        /\ queue'[j].op = "clear" => queue'[i].epoch < queue'[j].epoch
      BY DEF QueueOrdered
    <3>1. i + 1 \in DOMAIN queue /\ j + 1 \in DOMAIN queue /\ i + 1 < j + 1
      BY <2>1
    <3>2. queue'[i] = queue[i + 1] /\ queue'[j] = queue[j + 1]
      BY <2>1
    <3> QED BY <3>1, <3>2 DEF QueueOrdered
  <2>3. ASSUME NEW i \in DOMAIN queue' PROVE Head(queue).epoch <= queue'[i].epoch
    <3>1. 1 < i + 1 /\ i + 1 \in DOMAIN queue /\ queue'[i] = queue[i + 1]
      BY <2>1
    <3> QED BY <2>1, <3>1 DEF QueueOrdered
  <2>4. QueueIsCurrent'
    BY <1>0, <1>3, <2>1, <2>3 DEF JobDone, QueueIsCurrent
  <2> QED BY <2>2, <2>4
<1>4. CASE QueueLost
  BY <1>4 DEF QueueLost, QueueOrdered, QueueIsCurrent
<1> QED BY <1>1, <1>2, <1>3, <1>4, QueueSteps

-----------------------------------------------------------------------------
\* A step that keeps phase, or leaves "sweep", can only shrink what the sweep covers.
LEMMA SweepStep ==
  ASSUME TypeOK, SweepCovers, [Next]_vars
  PROVE  SweepCovers'
<1> USE DEF SweepCovers
<1>1. CASE Worker
  <2>1. ASSUME NEW path \in Paths, RemoveItem(path) PROVE SweepCovers'
    BY <2>1 DEF RemoveItem, Drop, Running
  <2>2. CASE ListDiskCache
    BY <2>2 DEF ListDiskCache
  <2> QED BY <1>1, <2>1, <2>2 DEF Worker, StoreDataToMemoryCache, StoreDataToDiskCache,
       QueryURLFromCache, ClearMemoryCache, ListDiskCacheFails, RemoveItemFails,
       ClearDiskCacheReturns, ReportClear, Running
<1>2. CASE Calls
  BY <1>2 DEF Calls, AskStore, AskQuery, AskClear, RunMainBlock
<1>3. CASE QueryDataFromCache
  BY <1>3 DEF QueryDataFromCache, LookInMemory, DataFromDiskCache, FillMemoryCache
<1>4. CASE System
  BY <1>4 DEF System, Evict, Relaunch
<1>5. CASE UNCHANGED vars
  BY <1>5 DEF vars
<1> QED BY <1>1, <1>2, <1>3, <1>4, <1>5 DEF Next

\* The files left after a step were there before, or were just stored.
LEMMA CompleteStep ==
  ASSUME TypeOK, QueueIsCurrent, SweepCovers, ReportedClearIsComplete, [Next]_vars
  PROVE  ReportedClearIsComplete'
<1> USE DEF ReportedClearIsComplete
<1>1. CASE Worker
  <2>1. CASE StoreDataToDiskCache
    <3>1. 1 \in DOMAIN queue /\ Head(queue) = queue[1]
      BY <2>1, TailSeq DEF StoreDataToDiskCache, Running, TypeOK
    <3>2. swept <= Head(queue).epoch
      BY <3>1 DEF QueueIsCurrent
    <3> QED BY <2>1, <3>2 DEF StoreDataToDiskCache, Put
  <2>2. ASSUME NEW path \in Paths, RemoveItem(path) PROVE ReportedClearIsComplete'
    BY <2>2 DEF RemoveItem, Drop
  <2>3. CASE ClearDiskCacheReturns
    <3>1. DOMAIN disk = {}
      BY <2>3 DEF ClearDiskCacheReturns, Running, SweepCovers
    <3> QED BY <2>3, <3>1 DEF ClearDiskCacheReturns, ReportClear
  <2> QED BY <1>1, <2>1, <2>2, <2>3 DEF Worker, StoreDataToMemoryCache, QueryURLFromCache,
       ClearMemoryCache, ListDiskCache, ListDiskCacheFails, RemoveItemFails, ReportClear
<1>2. CASE Calls
  BY <1>2 DEF Calls, AskStore, AskQuery, AskClear, RunMainBlock
<1>3. CASE QueryDataFromCache
  BY <1>3 DEF QueryDataFromCache, LookInMemory, DataFromDiskCache, FillMemoryCache
<1>4. CASE System
  BY <1>4 DEF System, Evict, Relaunch
<1>5. CASE UNCHANGED vars
  BY <1>5 DEF vars
<1> QED BY <1>1, <1>2, <1>3, <1>4, <1>5 DEF Next

\* Answers and clears: main's queue is appended to by the block that ends, so an
\* answer is older than every clear behind its query.
LEMMA AnswersStep ==
  ASSUME TypeOK, TypeOK', QueueOrdered, QueueIsCurrent, AnswersAreOlder, [Next]_vars
  PROVE  AnswersAreOlder'
<1> USE DEF AnswersAreOlder
<1> DEFINE Block == UseBlock \cup ReportBlock
<1>0. mainQueue \in Seq(Block) /\ queue \in Seq(Job) /\ clears \in Nat
      /\ (\A i \in DOMAIN queue : queue[i].epoch \in Nat)
  BY BoundsAssumption DEF TypeOK, Epochs, Job, StoreJob, QueryJob, ClearJob
<1>1. ASSUME NEW block \in Block, queue # <<>>, queue' = Tail(queue), UNCHANGED clears,
             mainQueue' = Append(mainQueue, block), block.epoch = Head(queue).epoch
      PROVE  AnswersAreOlder'
  <2>1. /\ 1 \in DOMAIN queue
        /\ Head(queue) = queue[1]
        /\ \A j \in DOMAIN queue' : 1 < j + 1 /\ j + 1 \in DOMAIN queue /\ queue'[j] = queue[j + 1]
    BY <1>0, <1>1, TailSeq
  <2>2. /\ DOMAIN mainQueue' = DOMAIN mainQueue \cup {Len(mainQueue) + 1}
        /\ mainQueue'[Len(mainQueue) + 1] = block
        /\ \A i \in DOMAIN mainQueue : mainQueue'[i] = mainQueue[i]
    BY <1>0, <1>1, AppendSeq
  <2> SUFFICES ASSUME NEW i \in DOMAIN mainQueue'
               PROVE  /\ mainQueue'[i].epoch <= clears'
                      /\ \A j \in DOMAIN queue' :
                           /\ mainQueue'[i].epoch <= queue'[j].epoch
                           /\ queue'[j].op = "clear" => mainQueue'[i].epoch < queue'[j].epoch
    OBVIOUS
  <2>3. CASE i \in DOMAIN mainQueue
    BY <1>1, <2>1, <2>2, <2>3
  <2>4. CASE i = Len(mainQueue) + 1
    <3>1. \A j \in DOMAIN queue' :
            /\ Head(queue).epoch <= queue'[j].epoch
            /\ queue'[j].op = "clear" => Head(queue).epoch < queue'[j].epoch
      BY <2>1 DEF QueueOrdered
    <3>2. Head(queue).epoch <= clears
      BY <2>1 DEF QueueIsCurrent
    <3> QED BY <1>1, <2>2, <2>4, <3>1, <3>2
  <2> QED BY <2>2, <2>3, <2>4
<1>2. ASSUME NEW ok \in BOOLEAN, NEW ph, Running("clear", ph), ReportClear(ok)
      PROVE  AnswersAreOlder'
  <2> DEFINE block == [op |-> "report", ok |-> ok, epoch |-> Head(queue).epoch]
  <2>1. block \in Block /\ queue # <<>>
    BY <1>2, HeadJob DEF TypeOK, ReportBlock
  <2> QED BY <1>1, <1>2, <2>1 DEF ReportClear
<1>3. CASE Worker
  <2>1. CASE StoreDataToDiskCache
    <3>1. \A j \in DOMAIN queue' : j + 1 \in DOMAIN queue /\ queue'[j] = queue[j + 1]
      BY <1>0, <2>1, TailSeq DEF StoreDataToDiskCache, Running
    <3> QED BY <2>1, <3>1 DEF StoreDataToDiskCache
  <2>2. CASE QueryURLFromCache
    <3> DEFINE block == [op |-> "use", path |-> Head(queue).path,
                         hit |-> Head(queue).path \in DOMAIN disk, epoch |-> Head(queue).epoch]
    <3>1. block \in Block /\ queue # <<>>
      BY <2>2, HeadJob DEF QueryURLFromCache, TypeOK, UseBlock
    <3> QED BY <1>1, <2>2, <3>1 DEF QueryURLFromCache
  <2> QED BY <1>2, <1>3, <2>1, <2>2 DEF Worker, StoreDataToMemoryCache, ClearMemoryCache,
       ListDiskCache, ListDiskCacheFails, RemoveItem, RemoveItemFails, ClearDiskCacheReturns
<1>4. CASE JobQueued
  <2>1. PICK job \in Job :
          /\ queue' = Append(queue, job)
          /\ job.epoch = clears'
          /\ IF job.op = "clear" THEN clears' = clears + 1 ELSE clears' = clears
          /\ UNCHANGED mainQueue
    BY <1>4 DEF JobQueued
  <2>2. /\ DOMAIN queue' = DOMAIN queue \cup {Len(queue) + 1}
        /\ queue'[Len(queue) + 1] = job
        /\ \A i \in DOMAIN queue : queue'[i] = queue[i]
    BY <1>0, <2>1, AppendSeq
  <2> SUFFICES ASSUME NEW i \in DOMAIN mainQueue
               PROVE  /\ mainQueue[i].epoch <= clears'
                      /\ \A j \in DOMAIN queue' :
                           /\ mainQueue[i].epoch <= queue'[j].epoch
                           /\ queue'[j].op = "clear" => mainQueue[i].epoch < queue'[j].epoch
    BY <2>1
  <2>3. mainQueue[i].epoch \in Nat
    BY BoundsAssumption DEF TypeOK, Epochs, UseBlock, ReportBlock
  <2>4. mainQueue[i].epoch <= clears /\ clears <= clears'
    BY <1>0, <2>1
  <2> QED BY <1>0, <2>1, <2>2, <2>3, <2>4
<1>5. CASE RunMainBlock
  <2>1. \A i \in DOMAIN mainQueue' :
          i + 1 \in DOMAIN mainQueue /\ mainQueue'[i] = mainQueue[i + 1]
    BY <1>0, <1>5, TailSeq DEF RunMainBlock
  <2> QED BY <1>5, <2>1 DEF RunMainBlock
<1>6. CASE QueryDataFromCache
  BY <1>6 DEF QueryDataFromCache, LookInMemory, DataFromDiskCache, FillMemoryCache
<1>7. CASE System
  <2>1. CASE Relaunch
    BY <2>1 DEF Relaunch
  <2> QED BY <1>7, <2>1 DEF System, Evict
<1>8. CASE UNCHANGED vars
  BY <1>8 DEF vars
<1>9. Calls => JobQueued \/ RunMainBlock
  BY CallsQueueJobs
<1> QED BY <1>3, <1>4, <1>5, <1>6, <1>7, <1>8, <1>9 DEF Next

\* Main's queue is in the order of history: the block that ends was asked no earlier than
\* those that ended before, a clear later.
LEMMA InOrderStep ==
  ASSUME TypeOK, AnswersAreOlder, AnswersAreOlder', AnswersInOrder, [Next]_vars
  PROVE  AnswersInOrder'
<1> DEFINE Block == UseBlock \cup ReportBlock
           Ordered == \A i, j \in DOMAIN mainQueue :
             i < j => /\ mainQueue[i].epoch <= mainQueue[j].epoch
                      /\ mainQueue[j].op = "report" => mainQueue[i].epoch < mainQueue[j].epoch
<1>0. mainQueue \in Seq(Block) /\ Ordered
  BY DEF TypeOK, AnswersInOrder
<1> SUFFICES Ordered'
  BY DEF AnswersInOrder, AnswersAreOlder
<1>1. ASSUME NEW block \in Block, queue # <<>>, mainQueue' = Append(mainQueue, block),
             block.epoch = Head(queue).epoch, block.op = "report" => Head(queue).op = "clear"
      PROVE  Ordered'
  <2>1. 1 \in DOMAIN queue /\ Head(queue) = queue[1]
    BY <1>1, TailSeq DEF TypeOK
  <2>2. /\ DOMAIN mainQueue' = DOMAIN mainQueue \cup {Len(mainQueue) + 1}
        /\ mainQueue'[Len(mainQueue) + 1] = block
        /\ \A i \in DOMAIN mainQueue : i < Len(mainQueue) + 1 /\ mainQueue'[i] = mainQueue[i]
    BY <1>0, <1>1, AppendSeq
  <2> SUFFICES ASSUME NEW i \in DOMAIN mainQueue', NEW j \in DOMAIN mainQueue', i < j
               PROVE  /\ mainQueue'[i].epoch <= mainQueue'[j].epoch
                      /\ mainQueue'[j].op = "report" => mainQueue'[i].epoch < mainQueue'[j].epoch
    OBVIOUS
  <2>3. i \in DOMAIN mainQueue
    BY <2>2
  <2>4. CASE j \in DOMAIN mainQueue
    BY <1>0, <2>2, <2>3, <2>4
  <2>5. CASE j = Len(mainQueue) + 1
    <3>1. /\ mainQueue[i].epoch <= Head(queue).epoch
          /\ Head(queue).op = "clear" => mainQueue[i].epoch < Head(queue).epoch
      BY <2>1, <2>3 DEF AnswersAreOlder
    <3> QED BY <1>1, <2>2, <2>3, <2>5, <3>1
  <2> QED BY <2>2, <2>4, <2>5
<1>2. ASSUME NEW ok \in BOOLEAN, NEW ph, Running("clear", ph), ReportClear(ok)
      PROVE  Ordered'
  <2> DEFINE block == [op |-> "report", ok |-> ok, epoch |-> Head(queue).epoch]
  <2>1. block \in Block /\ queue # <<>> /\ Head(queue).op = "clear"
    BY <1>2, HeadJob DEF TypeOK, ReportBlock
  <2> HIDE DEF Ordered
  <2> QED BY <1>1, <1>2, <2>1 DEF ReportClear
<1>3. CASE QueryURLFromCache
  <2> DEFINE block == [op |-> "use", path |-> Head(queue).path,
                       hit |-> Head(queue).path \in DOMAIN disk, epoch |-> Head(queue).epoch]
  <2>1. block \in Block /\ queue # <<>>
    BY <1>3, HeadJob DEF QueryURLFromCache, TypeOK, UseBlock
  <2> HIDE DEF Ordered
  <2> QED BY <1>1, <1>3, <2>1 DEF QueryURLFromCache
<1>4. CASE RunMainBlock
  <2>1. \A i \in DOMAIN mainQueue' :
          i \in Nat /\ i + 1 \in DOMAIN mainQueue /\ mainQueue'[i] = mainQueue[i + 1]
    BY <1>0, <1>4, TailSeq DEF RunMainBlock
  <2> SUFFICES ASSUME NEW i \in DOMAIN mainQueue', NEW j \in DOMAIN mainQueue', i < j
               PROVE  /\ mainQueue'[i].epoch <= mainQueue'[j].epoch
                      /\ mainQueue'[j].op = "report" => mainQueue'[i].epoch < mainQueue'[j].epoch
    OBVIOUS
  <2>2. i + 1 < j + 1 /\ i + 1 \in DOMAIN mainQueue /\ j + 1 \in DOMAIN mainQueue
    BY <2>1
  <2> QED BY <1>0, <2>1, <2>2
<1>5. CASE Relaunch
  BY <1>5 DEF Relaunch
<1>6. mainQueue' = mainQueue => Ordered'
  BY <1>0
<1> HIDE DEF Ordered
<1>7. CASE Worker
  BY <1>2, <1>3, <1>6, <1>7 DEF Worker, StoreDataToMemoryCache, StoreDataToDiskCache,
     ClearMemoryCache, ListDiskCache, ListDiskCacheFails, RemoveItem, RemoveItemFails,
     ClearDiskCacheReturns
<1>8. CASE Calls
  BY <1>4, <1>6, <1>8, CallsQueueJobs DEF JobQueued
<1>9. CASE QueryDataFromCache \/ (\E key \in Keys : Evict(key)) \/ UNCHANGED vars
  BY <1>6, <1>9 DEF QueryDataFromCache, LookInMemory, DataFromDiskCache, FillMemoryCache, Evict,
     vars
<1> QED BY <1>5, <1>7, <1>8, <1>9 DEF Next, System

\* A path handed out stays: only a clear asked after its query could remove it.
LEMMA HandedStep ==
  ASSUME TypeOK, QueueIsCurrent, AnswersAreOlder, HandedPathIsLive, [Next]_vars
  PROVE  HandedPathIsLive'
<1> USE DEF HandedPathIsLive
<1> DEFINE Block == UseBlock \cup ReportBlock
<1>0. mainQueue \in Seq(Block) /\ clears \in Nat
  BY BoundsAssumption DEF TypeOK, Epochs
<1>1. ASSUME NEW block \in Block, mainQueue' = Append(mainQueue, block),
             UNCHANGED <<clears, disk>>,
             block.op = "use" /\ block.hit => block.path \in DOMAIN disk
      PROVE  HandedPathIsLive'
  <2>1. /\ DOMAIN mainQueue' = DOMAIN mainQueue \cup {Len(mainQueue) + 1}
        /\ mainQueue'[Len(mainQueue) + 1] = block
        /\ \A i \in DOMAIN mainQueue : mainQueue'[i] = mainQueue[i]
    BY <1>0, <1>1, AppendSeq
  <2> QED BY <1>1, <2>1
<1>2. ASSUME NEW ok \in BOOLEAN, NEW ph, Running("clear", ph), ReportClear(ok)
      PROVE  HandedPathIsLive'
  <2> DEFINE block == [op |-> "report", ok |-> ok, epoch |-> Head(queue).epoch]
  <2>1. block \in Block
    BY <1>2, HeadJob DEF TypeOK, ReportBlock
  <2> QED BY <1>1, <1>2, <2>1 DEF ReportClear
<1>3. CASE Worker
  <2>1. CASE StoreDataToDiskCache
    BY <2>1 DEF StoreDataToDiskCache, Put
  <2>2. CASE QueryURLFromCache
    <3> DEFINE block == [op |-> "use", path |-> Head(queue).path,
                         hit |-> Head(queue).path \in DOMAIN disk, epoch |-> Head(queue).epoch]
    <3>1. block \in Block
      BY <2>2, HeadJob DEF QueryURLFromCache, TypeOK, UseBlock
    <3> QED BY <1>1, <2>2, <3>1 DEF QueryURLFromCache
  <2>3. ASSUME NEW path \in Paths, RemoveItem(path) PROVE HandedPathIsLive'
    <3>1. 1 \in DOMAIN queue /\ Head(queue) = queue[1] /\ Head(queue).op = "clear"
          /\ Head(queue).epoch \in Epochs
      BY <2>3, TailSeq, HeadJob DEF RemoveItem, Running, TypeOK
    <3>2. Head(queue).epoch <= clears
      BY <3>1 DEF QueueIsCurrent
    <3>3. ASSUME NEW i \in DOMAIN mainQueue, mainQueue[i].op = "use"
          PROVE  mainQueue[i].epoch # clears
      <4>1. mainQueue[i].epoch < Head(queue).epoch
        BY <3>1, <3>3 DEF AnswersAreOlder
      <4>2. mainQueue[i].epoch \in Nat /\ Head(queue).epoch \in Nat
        BY <3>1, BoundsAssumption DEF TypeOK, Epochs, UseBlock, ReportBlock
      <4> QED BY <1>0, <3>2, <4>1, <4>2
    <3> QED BY <2>3, <3>3 DEF RemoveItem
  <2> QED BY <1>2, <1>3, <2>1, <2>2, <2>3 DEF Worker, StoreDataToMemoryCache, ClearMemoryCache,
       ListDiskCache, ListDiskCacheFails, RemoveItemFails, ClearDiskCacheReturns
<1>4. CASE Calls
  <2>1. CASE AskClear
    <3>1. \A i \in DOMAIN mainQueue : mainQueue[i].op = "use" => mainQueue[i].epoch # clears + 1
      <4>1. \A i \in DOMAIN mainQueue : mainQueue[i].epoch \in Nat
        BY BoundsAssumption DEF TypeOK, Epochs, UseBlock, ReportBlock
      <4> QED BY <1>0, <4>1 DEF AnswersAreOlder
    <3> QED BY <2>1, <3>1 DEF AskClear
  <2>2. CASE RunMainBlock
    <3>1. \A i \in DOMAIN mainQueue' :
            i + 1 \in DOMAIN mainQueue /\ mainQueue'[i] = mainQueue[i + 1]
      BY <1>0, <2>2, TailSeq DEF RunMainBlock
    <3> QED BY <2>2, <3>1 DEF RunMainBlock
  <2> QED BY <1>4, <2>1, <2>2 DEF Calls, AskStore, AskQuery
<1>5. CASE QueryDataFromCache
  BY <1>5 DEF QueryDataFromCache, LookInMemory, DataFromDiskCache, FillMemoryCache
<1>6. CASE System
  <2>1. CASE Relaunch
    BY <2>1 DEF Relaunch
  <2> QED BY <1>6, <2>1 DEF System, Evict
<1>7. CASE UNCHANGED vars
  BY <1>7 DEF vars
<1> QED BY <1>3, <1>4, <1>5, <1>6, <1>7 DEF Next

-----------------------------------------------------------------------------
LEMMA InvInit == Init => Inv
<1> SUFFICES ASSUME Init PROVE Inv
  OBVIOUS
<1>1. TypeOK
  BY InitTypes
<1> QED BY <1>1 DEF Init, Inv, QueueOrdered, QueueIsCurrent, SweepCovers, AnswersAreOlder,
     ReportedClearIsComplete, HandedPathIsLive, AnswersInOrder, NoEntries

LEMMA InvStep == Inv /\ [Next]_vars => Inv'
BY TypeStep, OrderStep, SweepStep, CompleteStep, AnswersStep, InOrderStep, HandedStep DEF Inv

LEMMA InvCorrect == Spec => []Inv
BY InvInit, InvStep, PTL DEF Spec

\* A clear reported complete left no file that was stored before it was asked,
\* for every interleaving of stores, queries, failures, kills and direct reads.
THEOREM ClearsAreComplete == Spec => []ReportedClearIsComplete
<1>1. Inv => ReportedClearIsComplete
  BY DEF Inv
<1> QED BY <1>1, InvCorrect, PTL

\* A path handed to a player names a file until main asks for a clear.
THEOREM HandedPathsAreLive == Spec => []HandedPathIsLive
<1>1. Inv => HandedPathIsLive
  BY DEF Inv
<1> QED BY <1>1, InvCorrect, PTL

\* Main hears in the order it asked, and once of each clear, for every number of calls.
THEOREM MainHearsInOrder == Spec => []AnswersInOrder
<1>1. Inv => AnswersInOrder
  BY DEF Inv
<1> QED BY <1>1, InvCorrect, PTL

-----------------------------------------------------------------------------
\* The two levels.

\* The disk has what the memory cache has for a key, under some extension.
OnDisk(key) ==
  \E ext \in Exts :
    LET path == DiskPath(key, ext) IN
      /\ path \in DOMAIN disk
      /\ disk[path].epoch = memoryCache[key].epoch
      /\ disk[path].data = IF memoryCache[key].data = Null
                           THEN Empty ELSE memoryCache[key].data

\* Between the two halves of a store the memory cache is ahead by its key, and
\* while a clear runs it is empty.
LevelsFollow ==
  /\ phase = "start" => \A key \in DOMAIN memoryCache : OnDisk(key)
  /\ phase = "disk" =>
       /\ queue # <<>> /\ Head(queue).op = "store"
       /\ \A key \in DOMAIN memoryCache :
            IF key = Head(queue).path[1]
            THEN memoryCache[key] = [data |-> AsObject(Head(queue).data),
                                     epoch |-> Head(queue).epoch]
            ELSE OnDisk(key)
  /\ phase \in {"list", "sweep"} => memoryCache = NoEntries

\* Calls append to the queue; its head stays.
LEMMA HeadStays ==
  ASSUME TypeOK, JobQueued, queue # <<>>
  PROVE  queue' # <<>> /\ Head(queue') = Head(queue)
<1>1. PICK job \in Job : queue' = Append(queue, job)
  BY DEF JobQueued
<1>2. /\ queue' \in Seq(Job) /\ 1 \in DOMAIN queue /\ queue'[1] = queue[1]
      /\ Len(queue') = Len(queue) + 1 /\ Len(queue) \in Nat
  BY <1>1, AppendSeq, TailSeq, SeqIsFunction DEF TypeOK
<1>3. queue' # <<>> /\ Head(queue') = queue'[1] /\ Head(queue) = queue[1]
  BY <1>2
<1> QED BY <1>2, <1>3

\* A store to the disk catches up with the memory cache.
LEMMA StoreCatchesUp ==
  ASSUME TypeOK, LevelsFollow, StoreDataToDiskCache, "write" \notin Faults
  PROVE  LevelsFollow'
<1> DEFINE job == Head(queue)
           file == [data |-> FileContents(job.data), epoch |-> job.epoch]
<1>1. /\ job \in Job /\ job.op = "store" /\ job.path \in Paths /\ job.data \in Values
      /\ phase = "disk" /\ phase' = "start" /\ memoryCache' = memoryCache
      /\ disk' = Put(disk, job.path, file)
  BY HeadJob DEF StoreDataToDiskCache, Running, TypeOK
<1>2. /\ DOMAIN disk' = DOMAIN disk \cup {job.path} /\ disk'[job.path] = file
      /\ \A path \in DOMAIN disk : path # job.path => disk'[path] = disk[path]
  BY <1>1 DEF Put
<1>3. job.path[1] \in Keys /\ job.path[2] \in Exts
      /\ job.path = DiskPath(job.path[1], job.path[2])
  BY <1>1 DEF Paths, DiskPath
<1>4. file.epoch = job.epoch /\ file.data = FileContents(job.data)
  OBVIOUS
<1>5. FileContents(job.data) = IF AsObject(job.data) = Null THEN Empty ELSE AsObject(job.data)
  BY <1>1, NilAssumption DEF FileContents, AsObject, Values, Contents
<1> HIDE DEF job, file
<1>6. ASSUME NEW key \in DOMAIN memoryCache PROVE OnDisk(key)'
  <2>1. CASE key = job.path[1]
    <3>1. memoryCache[key] = [data |-> AsObject(job.data), epoch |-> job.epoch]
      BY <1>1, <2>1 DEF LevelsFollow, job
    <3>2. memoryCache[key].data = AsObject(job.data) /\ memoryCache[key].epoch = job.epoch
      BY <3>1
    <3> QED BY <1>1, <1>2, <1>3, <1>4, <1>5, <2>1, <3>2 DEF OnDisk
  <2>2. CASE key # job.path[1]
    <3>0. OnDisk(key)
      BY <1>1, <2>2 DEF LevelsFollow, job
    <3>1. PICK ext \in Exts :
            /\ DiskPath(key, ext) \in DOMAIN disk
            /\ disk[DiskPath(key, ext)].epoch = memoryCache[key].epoch
            /\ disk[DiskPath(key, ext)].data = IF memoryCache[key].data = Null
                                               THEN Empty ELSE memoryCache[key].data
      BY <3>0 DEF OnDisk
    <3>2. DiskPath(key, ext) # job.path
      BY <1>3, <2>2 DEF DiskPath
    <3> QED BY <1>1, <1>2, <3>1, <3>2 DEF OnDisk
  <2> QED BY <2>1, <2>2
<1> QED BY <1>1, <1>6 DEF LevelsFollow

LEMMA LevelsStep ==
  ASSUME TypeOK, LevelsFollow, [Next]_vars, Readers = {}, "write" \notin Faults
  PROVE  LevelsFollow'
<1>1. CASE StoreDataToMemoryCache
  <2> DEFINE object == [data |-> AsObject(Head(queue).data), epoch |-> Head(queue).epoch]
  <2>1. /\ phase = "start" /\ phase' = "disk" /\ queue # <<>> /\ Head(queue).op = "store"
        /\ memoryCache' = Put(memoryCache, Head(queue).path[1], object)
        /\ disk' = disk /\ queue' = queue
    BY <1>1 DEF StoreDataToMemoryCache, Running
  <2> HIDE DEF object
  <2>2. /\ DOMAIN memoryCache' = DOMAIN memoryCache \cup {Head(queue).path[1]}
        /\ memoryCache'[Head(queue).path[1]] = object
        /\ \A key \in DOMAIN memoryCache :
             key # Head(queue).path[1] => memoryCache'[key] = memoryCache[key]
    BY <2>1 DEF Put
  <2>3. \A key \in DOMAIN memoryCache : key # Head(queue).path[1] => OnDisk(key)'
    BY <2>1, <2>2 DEF LevelsFollow, OnDisk
  <2> QED BY <2>1, <2>2, <2>3 DEF LevelsFollow, object
<1>2. CASE StoreDataToDiskCache
  BY <1>2, StoreCatchesUp
<1>3. ASSUME UNCHANGED <<memoryCache, disk, phase>>,
             phase = "disk" => queue' # <<>> /\ Head(queue') = Head(queue)
      PROVE  LevelsFollow'
  BY <1>3 DEF LevelsFollow, OnDisk
<1>4. ASSUME memoryCache' = NoEntries, phase' # "disk" PROVE LevelsFollow'
  BY <1>4 DEF LevelsFollow, NoEntries
<1>5. ASSUME NEW ok, NEW ph \in {"list", "sweep"}, Running("clear", ph), ReportClear(ok)
      PROVE  LevelsFollow'
  BY <1>4, <1>5 DEF LevelsFollow, Running, ReportClear
<1>6. CASE Worker
  <2>1. QueryURLFromCache => LevelsFollow'
    BY <1>3 DEF QueryURLFromCache, Running
  <2>2. ClearMemoryCache => LevelsFollow'
    BY <1>4 DEF ClearMemoryCache
  <2>3. ListDiskCache => LevelsFollow'
    BY <1>4 DEF ListDiskCache, Running, LevelsFollow
  <2>4. ListDiskCacheFails \/ RemoveItemFails \/ ClearDiskCacheReturns => LevelsFollow'
    BY <1>5 DEF ListDiskCacheFails, RemoveItemFails, ClearDiskCacheReturns
  <2>5. ASSUME NEW path \in Paths, RemoveItem(path) PROVE LevelsFollow'
    BY <1>4, <2>5 DEF RemoveItem, Running, LevelsFollow
  <2> QED BY <1>1, <1>2, <1>6, <2>1, <2>2, <2>3, <2>4, <2>5 DEF Worker
<1>7. CASE Calls
  <2>1. UNCHANGED <<memoryCache, disk, phase>>
    BY <1>7 DEF Calls, AskStore, AskQuery, AskClear, RunMainBlock
  <2>2. queue # <<>> => queue' # <<>> /\ Head(queue') = Head(queue)
    BY <1>7, CallsQueueJobs, HeadStays DEF RunMainBlock
  <2> QED BY <1>3, <2>1, <2>2 DEF LevelsFollow
<1>8. CASE QueryDataFromCache
  BY <1>8 DEF QueryDataFromCache
<1>9. ASSUME NEW key \in Keys, Evict(key) PROVE LevelsFollow'
  <2>1. /\ DOMAIN memoryCache' \subseteq DOMAIN memoryCache /\ UNCHANGED <<disk, phase, queue>>
        /\ \A k \in DOMAIN memoryCache' : memoryCache'[k] = memoryCache[k]
        /\ key \in DOMAIN memoryCache
    BY <1>9 DEF Evict, Drop
  <2>2. phase \notin {"list", "sweep"}
    BY <2>1 DEF LevelsFollow, NoEntries
  <2> QED BY <2>1, <2>2 DEF LevelsFollow, OnDisk
<1>10. CASE Relaunch
  BY <1>4, <1>10 DEF Relaunch
<1>11. CASE UNCHANGED vars
  BY <1>3, <1>11 DEF vars, LevelsFollow
<1> QED BY <1>6, <1>7, <1>8, <1>9, <1>10, <1>11 DEF Next, System

\* storeDataToCache and clearCache keep the memory cache a part of the disk cache, if
\* createFile never fails and nobody calls queryDataFromCache (nobody does).
THEOREM LevelsStayTogether ==
  ASSUME Readers = {}, "write" \notin Faults
  PROVE  Spec => []LevelsAgree
<1>1. Init => LevelsFollow
  BY DEF Init, LevelsFollow, NoEntries
<1>2. TypeOK /\ LevelsFollow /\ [Next]_vars => LevelsFollow'
  BY LevelsStep
<1>3. LevelsFollow => LevelsAgree
  BY DEF LevelsFollow, LevelsAgree, OnDisk
<1> QED BY <1>1, <1>2, <1>3, TypeCorrect, PTL DEF Spec

-----------------------------------------------------------------------------
\* The refinement.  CacheStore sees contents only.

ContentsOf(files) == [path \in DOMAIN files |-> files[path].data]

LEMMA ContentsOfPut ==
  ASSUME NEW files, NEW path, NEW data, NEW epoch
  PROVE  ContentsOf(Put(files, path, [data |-> data, epoch |-> epoch]))
           = Put(ContentsOf(files), path, data)
BY DEF ContentsOf, Put

LEMMA ContentsOfDrop ==
  ASSUME NEW files, NEW S
  PROVE  ContentsOf(Drop(files, S)) = Drop(ContentsOf(files), S)
BY DEF ContentsOf, Drop

\* The maps of the instance are those of this module.
LEMMA SameMaps ==
  /\ Store!NoEntries = NoEntries
  /\ \A f, x, v : Store!Put(f, x, v) = Put(f, x, v)
  /\ \A f, S : Store!Drop(f, S) = Drop(f, S)
BY DEF NoEntries, Put, Drop, Store!NoEntries, Store!Put, Store!Drop

\* A call of storeDataToCache, queryURLFromCache or clearCache asks a request.
LEMMA CallsAsk ==
  ASSUME TypeOK, Calls
  PROVE  Store!RunAnswer \/ \E job \in Job : Store!Ask(job)
<1> USE DEF Store!Ask, Store!QueryPending, MainBlocked
<1>1. ASSUME NEW key \in Keys, NEW ext \in Exts, NEW data \in Values, AskStore(key, ext, data)
      PROVE  \E job \in Job : Store!Ask(job)
  <2> DEFINE job == [op |-> "store", path |-> DiskPath(key, ext), data |-> data, epoch |-> clears]
  <2>1. job \in Job
    BY DEF Job, StoreJob, DiskPath, Paths, TypeOK
  <2>2. Store!Ask(job)
    BY <1>1 DEF AskStore, Enqueue
  <2> QED BY <2>1, <2>2
<1>2. ASSUME NEW key \in Keys, NEW ext \in Exts, AskQuery(key, ext)
      PROVE  \E job \in Job : Store!Ask(job)
  <2> DEFINE job == [op |-> "query", path |-> DiskPath(key, ext), epoch |-> clears]
  <2>1. job \in Job
    BY DEF Job, QueryJob, DiskPath, Paths, TypeOK
  <2>2. Store!Ask(job)
    BY <1>2 DEF AskQuery, Enqueue
  <2> QED BY <2>1, <2>2
<1>3. CASE AskClear
  <2> DEFINE job == [op |-> "clear", epoch |-> clears']
  <2>1. job \in Job
    BY <1>3, BoundsAssumption DEF AskClear, Job, ClearJob, TypeOK, Epochs
  <2>2. Store!Ask(job)
    BY <1>3 DEF AskClear, Enqueue
  <2> QED BY <2>1, <2>2
<1>4. CASE RunMainBlock
  BY <1>4 DEF RunMainBlock, Store!RunAnswer
<1> QED BY <1>1, <1>2, <1>3, <1>4 DEF Calls

\* A step of the worker serves the request at the head, removes a file, or is
\* not seen (the memory cache, the listing).
LEMMA WorkerServes ==
  ASSUME TypeOK, SweepCovers, Worker
  PROVE  Store!Next \/ UNCHANGED Store!storeVars
<1> USE DEF Store!Next, Store!Serving, Running
<1>1. CASE StoreDataToMemoryCache
  BY <1>1 DEF StoreDataToMemoryCache, Store!storeVars
<1>2. CASE StoreDataToDiskCache
  <2>1. CASE UNCHANGED disk
    BY <1>2, <2>1 DEF StoreDataToDiskCache, Store!ServeStore
  <2>2. CASE disk' = Put(disk, Head(queue).path,
                         [data |-> FileContents(Head(queue).data), epoch |-> Head(queue).epoch])
    <3>1. ContentsOf(disk') = Put(ContentsOf(disk), Head(queue).path, FileContents(Head(queue).data))
      BY <2>2, ContentsOfPut
    <3>2. FileContents(Head(queue).data) = Store!FileContents(Head(queue).data)
      BY DEF FileContents, Store!FileContents
    <3>3. [path \in DOMAIN disk' |-> disk'[path].data]
            = Put([path \in DOMAIN disk |-> disk[path].data], Head(queue).path,
                  Store!FileContents(Head(queue).data))
      BY <3>1, <3>2, Zenon DEF ContentsOf
    <3>4. Store!ServeStore
      BY <1>2, <3>3, SameMaps DEF StoreDataToDiskCache, Store!ServeStore
    <3> QED BY <3>4
  <2> QED BY <1>2, <2>1, <2>2 DEF StoreDataToDiskCache
<1>3. CASE QueryURLFromCache
  BY <1>3 DEF QueryURLFromCache, Store!ServeQuery
<1>4. CASE ClearMemoryCache
  BY <1>4 DEF ClearMemoryCache, Store!storeVars
<1>5. CASE ListDiskCache
  BY <1>5 DEF ListDiskCache, Store!storeVars
<1>6. CASE ListDiskCacheFails
  BY <1>6 DEF ListDiskCacheFails, ReportClear, Store!ServeClear
<1>7. ASSUME NEW path \in Paths, RemoveItem(path)
      PROVE  Store!RemoveFile \/ UNCHANGED Store!storeVars
  <2>1. CASE path \in DOMAIN disk
    <3>1. ContentsOf(disk') = Drop(ContentsOf(disk), {path})
      BY <1>7, ContentsOfDrop DEF RemoveItem
    <3>2. path \in DOMAIN ContentsOf(disk)
      BY <2>1 DEF ContentsOf
    <3>3. PICK p \in DOMAIN ContentsOf(disk) : ContentsOf(disk') = Drop(ContentsOf(disk), {p})
      BY <3>1, <3>2
    <3> QED BY <1>7, <3>3, SameMaps, Zenon DEF RemoveItem, Store!RemoveFile, ContentsOf
  <2>2. CASE path \notin DOMAIN disk
    BY <1>7, <2>2 DEF RemoveItem, Drop, TypeOK, IsMap, Store!storeVars
  <2> QED BY <2>1, <2>2
<1>8. CASE RemoveItemFails
  BY <1>8 DEF RemoveItemFails, ReportClear, Store!ServeClear
<1>9. CASE ClearDiskCacheReturns
  <2>1. DOMAIN disk = {}
    BY <1>9 DEF ClearDiskCacheReturns, SweepCovers
  <2>2. ContentsOf(disk) = NoEntries
    BY <2>1 DEF ContentsOf, NoEntries
  <2>3. [path \in DOMAIN disk |-> disk[path].data] = NoEntries
    BY <2>2 DEF ContentsOf
  <2>4. Store!ServeClear(TRUE)
    BY <1>9, <2>3, SameMaps DEF ClearDiskCacheReturns, ReportClear, Store!ServeClear
  <2> QED BY <2>4
<1> QED BY <1>1, <1>2, <1>3, <1>4, <1>5, <1>6, <1>7, <1>8, <1>9 DEF Worker

\* Every behaviour of the cache is one of CacheStore.
THEOREM CacheImplementsStore == Spec => ImplementsCacheStore
<1>1. Init => Store!Init
  <2>1. DOMAIN NoEntries = {}
    BY DEF NoEntries
  <2>2. ContentsOf(NoEntries) = NoEntries
    BY <2>1 DEF ContentsOf, NoEntries
  <2> QED BY <2>2, SameMaps DEF Init, Store!Init, ContentsOf
<1>2. ASSUME Inv, [Next]_vars PROVE [Store!Next]_(Store!storeVars)
  <2>1. CASE Worker
    BY <1>2, <2>1, WorkerServes DEF Inv
  <2>2. CASE Calls
    BY <1>2, <2>2, CallsAsk DEF Inv, Store!Next
  <2>3. CASE QueryDataFromCache
    BY <2>3 DEF QueryDataFromCache, LookInMemory, DataFromDiskCache, FillMemoryCache,
       Store!storeVars
  <2>4. ASSUME NEW key \in Keys, Evict(key) PROVE UNCHANGED Store!storeVars
    BY <2>4 DEF Evict, Store!storeVars
  <2>5. CASE Relaunch
    BY <2>5 DEF Relaunch, Store!Next, Store!Restart
  <2>6. CASE UNCHANGED vars
    BY <2>6 DEF vars, Store!storeVars
  <2> QED BY <1>2, <2>1, <2>2, <2>3, <2>4, <2>5, <2>6 DEF Next, System
<1> QED BY <1>1, <1>2, InvCorrect, PTL DEF Spec, ImplementsCacheStore, Store!Spec
=============================================================================
