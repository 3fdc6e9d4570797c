----------------------------- MODULE VideoCache -----------------------------
(***************************************************************************)
(* VideoCacheManager: the two-level video cache, a singleton shared by     *)
(* every cell of the feed.  A memory cache (NSCache) and a directory hold  *)
(* videos by URL; stores, URL queries and clears run one after the other   *)
(* on the serial queue "com.VideoCache".  queryDataFromCache alone runs on *)
(* its caller's thread, beside that queue.                                 *)
(*                                                                         *)
(* A block stays at the head of `queue' while it runs; `phase' says how    *)
(* far it is.  `epoch' and `swept' are history: they number the clears and *)
(* mark every entry with the number of clears asked before its store.      *)
(***************************************************************************)
EXTENDS Integers, Sequences, PartialMaps

CONSTANTS
  Keys,       \* absolute strings of video URLs
  Exts,       \* file extensions
  Videos,     \* non-empty contents of video files
  Empty,      \* contents of a file of no bytes
  Nil,        \* Swift's nil, as the data of a store or the result of a lookup
  Null,       \* the NSNull object that nil becomes in an NSCache
  Readers,    \* threads that call queryDataFromCache (no caller in the app)
  Faults,     \* what may go wrong: failing file operations, the end of the process
  MaxJobs,    \* bound: blocks on the cache queue
  MaxBlocks,  \* bound: blocks on the main queue before main asks again
  MaxClears   \* bound: clears asked

FaultKinds == {"write", "list", "sweep", "kill"}

ASSUME FaultsAssumption == Faults \subseteq FaultKinds
ASSUME BoundsAssumption == MaxJobs \in Nat /\ MaxBlocks \in Nat /\ MaxClears \in Nat
ASSUME NilAssumption == Nil \notin Videos \cup {Empty, Null} /\ Null \notin Videos

VARIABLES
  memoryCache,  \* NSCache: key -> object
  disk,         \* files of diskDirectoryURL: path -> contents
  queue,        \* blocks of dispatchQueue, the running one first
  phase,        \* progress of the running block
  todo,         \* files the running clear has still to remove
  mainQueue,    \* blocks on DispatchQueue.main: answers and clear reports
  reader,       \* progress of each call of queryDataFromCache
  clears,       \* history: number of clears asked so far
  swept         \* history: number of the last clear reported complete

vars == <<memoryCache, disk, queue, phase, todo, mainQueue, reader, clears, swept>>

-----------------------------------------------------------------------------
\* Data, paths and blocks.

\* The number of clears asked before something, its place in history.
Epochs == 0 .. MaxClears

Contents == Videos \cup {Empty}
Values == Contents \cup {Nil}

\* sha2(key) with the extension appended.  SHA-256 is taken to be injective.
DiskPath(key, ext) == <<key, ext>>
Paths == Keys \X Exts

\* `data as AnyObject': nil is boxed as NSNull.
AsObject(data) == IF data = Nil THEN Null ELSE data
\* `object as? Data': neither a missing object nor NSNull is Data.
AsData(key) ==
  IF key \in DOMAIN memoryCache /\ memoryCache[key].data # Null
  THEN memoryCache[key].data ELSE Nil

\* createFile(contents: nil) makes an empty file.
FileContents(data) == IF data = Nil THEN Empty ELSE data

Objects == [data : Contents \cup {Null}, epoch : Epochs]
Files == [data : Contents, epoch : Epochs]

StoreJob == [op : {"store"}, path : Paths, data : Values, epoch : Epochs]
QueryJob == [op : {"query"}, path : Paths, epoch : Epochs]
ClearJob == [op : {"clear"}, epoch : Epochs]
Job == StoreJob \cup QueryJob \cup ClearJob

UseBlock == [op : {"use"}, path : Paths, hit : BOOLEAN, epoch : Epochs]
ReportBlock == [op : {"report"}, ok : BOOLEAN, epoch : Epochs]

ReaderState ==
  [pc : {"idle"}] \cup [pc : {"disk"}, path : Paths]
    \cup [pc : {"fill"}, path : Paths, file : Files]

\* dispatchQueue.sync: main waits until its query has run.
MainBlocked == \E i \in DOMAIN queue : queue[i].op = "query"

\* The block at the head of the queue is of kind op and has got as far as ph.
Running(op, ph) == queue # <<>> /\ Head(queue).op = op /\ phase = ph

Enqueue(job) ==
  /\ Len(queue) < MaxJobs
  /\ queue' = Append(queue, job)

-----------------------------------------------------------------------------
\* init: an empty memory cache, the directory created when it is missing.
Init ==
  /\ memoryCache = NoEntries
  /\ disk = NoEntries
  /\ queue = <<>>
  /\ phase = "start"
  /\ todo = {}
  /\ mainQueue = <<>>
  /\ reader = [t \in Readers |-> [pc |-> "idle"]]
  /\ clears = 0
  /\ swept = 0

-----------------------------------------------------------------------------
\* Calls.

\* storeDataToCache, from the delegate queue of some player.
AskStore(key, ext, data) ==
  /\ Enqueue([op |-> "store", path |-> DiskPath(key, ext), data |-> data,
              epoch |-> clears])
  /\ UNCHANGED <<memoryCache, disk, phase, todo, mainQueue, reader, clears, swept>>

\* Mutant: the lookup is made at once on the caller's thread, ahead of the queue.
AskQueryOffQueue(key, ext) ==
  /\ ~MainBlocked
  /\ Len(mainQueue) < MaxBlocks
  /\ mainQueue' = Append(mainQueue,
       [op |-> "use", path |-> DiskPath(key, ext),
        hit |-> DiskPath(key, ext) \in DOMAIN disk, epoch |-> clears])
  /\ UNCHANGED <<memoryCache, disk, queue, phase, todo, reader, clears, swept>>

\* queryURLFromCache, from main, which then waits.
AskQuery(key, ext) ==
  /\ ~MainBlocked
  /\ Len(mainQueue) < MaxBlocks
  /\ Enqueue([op |-> "query", path |-> DiskPath(key, ext), epoch |-> clears])
  /\ UNCHANGED <<memoryCache, disk, phase, todo, mainQueue, reader, clears, swept>>

\* clearCache, from main (the trash button).
AskClear ==
  /\ ~MainBlocked
  /\ Len(mainQueue) < MaxBlocks
  /\ clears < MaxClears
  /\ clears' = clears + 1
  /\ Enqueue([op |-> "clear", epoch |-> clears'])
  /\ UNCHANGED <<memoryCache, disk, phase, todo, mainQueue, reader, swept>>

\* Main runs the next block dispatched to it: a player opens the path it was
\* given, or the profile page shows the report of a clear.
RunMainBlock ==
  /\ ~MainBlocked
  /\ mainQueue # <<>>
  /\ mainQueue' = Tail(mainQueue)
  /\ UNCHANGED <<memoryCache, disk, queue, phase, todo, reader, clears, swept>>

-----------------------------------------------------------------------------
\* The serial queue.

StoreDataToMemoryCache ==
  /\ Running("store", "start")
  /\ LET job == Head(queue) IN
       memoryCache' = Put(memoryCache, job.path[1],
                          [data |-> AsObject(job.data), epoch |-> job.epoch])
  /\ phase' = "disk"
  /\ UNCHANGED <<disk, queue, todo, mainQueue, reader, clears, swept>>

\* Mutant: no file for nil data.
StoreDataToDiskCacheUnlessNil ==
  /\ Running("store", "disk")
  /\ LET job == Head(queue) IN
       IF job.data = Nil THEN UNCHANGED disk
       ELSE disk' = Put(disk, job.path, [data |-> job.data, epoch |-> job.epoch])
  /\ queue' = Tail(queue)
  /\ phase' = "start"
  /\ UNCHANGED <<memoryCache, todo, mainQueue, reader, clears, swept>>

\* createFile is atomic; when it fails nobody looks at its result.
StoreDataToDiskCache ==
  /\ Running("store", "disk")
  /\ LET job == Head(queue) IN
       \/ disk' = Put(disk, job.path,
                      [data |-> FileContents(job.data), epoch |-> job.epoch])
       \/ "write" \in Faults /\ UNCHANGED disk
  /\ queue' = Tail(queue)
  /\ phase' = "start"
  /\ UNCHANGED <<memoryCache, todo, mainQueue, reader, clears, swept>>

\* The block of queryURLFromCache: its completion sends the answer to main.
QueryURLFromCache ==
  /\ Running("query", "start")
  /\ LET job == Head(queue) IN
       mainQueue' = Append(mainQueue,
         [op |-> "use", path |-> job.path, hit |-> job.path \in DOMAIN disk,
          epoch |-> job.epoch])
  /\ queue' = Tail(queue)
  /\ UNCHANGED <<memoryCache, disk, phase, todo, reader, clears, swept>>

ClearMemoryCache ==
  /\ Running("clear", "start")
  /\ memoryCache' = NoEntries
  /\ phase' = "list"
  /\ UNCHANGED <<disk, queue, todo, mainQueue, reader, clears, swept>>

\* clearDiskCache returned: "0" after an error, else the size of what it removed
\* (never the string "0": one decimal is always printed).
ReportClear(ok) ==
  /\ mainQueue' = Append(mainQueue,
       [op |-> "report", ok |-> ok, epoch |-> Head(queue).epoch])
  /\ swept' = IF ok THEN Head(queue).epoch ELSE swept
  /\ queue' = Tail(queue)
  /\ phase' = "start"
  /\ todo' = {}
  /\ UNCHANGED <<memoryCache, disk, reader, clears>>

ListDiskCache ==
  /\ Running("clear", "list")
  /\ todo' = DOMAIN disk
  /\ phase' = "sweep"
  /\ UNCHANGED <<memoryCache, disk, queue, mainQueue, reader, clears, swept>>

ListDiskCacheFails ==
  /\ Running("clear", "list")
  /\ "list" \in Faults
  /\ ReportClear(FALSE)

RemoveItem(path) ==
  /\ Running("clear", "sweep")
  /\ path \in todo
  /\ disk' = Drop(disk, {path})
  /\ todo' = todo \ {path}
  /\ UNCHANGED <<memoryCache, queue, phase, mainQueue, reader, clears, swept>>

\* Mutant: the loop gives up but the size of what it removed is returned.
RemoveItemFailsQuietly ==
  /\ Running("clear", "sweep")
  /\ todo # {}
  /\ "sweep" \in Faults
  /\ ReportClear(TRUE)

\* Mutant: the sweep begins again after an error.
RemoveItemFailsAndRetries ==
  /\ Running("clear", "sweep")
  /\ todo # {}
  /\ "sweep" \in Faults
  /\ phase' = "list"
  /\ todo' = {}
  /\ UNCHANGED <<memoryCache, disk, queue, mainQueue, reader, clears, swept>>

\* Mutant: the error is caught in the loop, which goes on with the next file.
RemoveItemFailsAndGoesOn ==
  /\ Running("clear", "sweep")
  /\ todo # {}
  /\ "sweep" \in Faults
  /\ mainQueue' = Append(mainQueue,
       [op |-> "report", ok |-> FALSE, epoch |-> Head(queue).epoch])
  /\ UNCHANGED <<memoryCache, disk, queue, phase, todo, reader, clears, swept>>

\* attributesOfItem or removeItem throws: the files left are not tried.
RemoveItemFails ==
  /\ Running("clear", "sweep")
  /\ todo # {}
  /\ "sweep" \in Faults
  /\ ReportClear(FALSE)

ClearDiskCacheReturns ==
  /\ Running("clear", "sweep")
  /\ todo = {}
  /\ ReportClear(TRUE)

-----------------------------------------------------------------------------
\* queryDataFromCache, on thread t.  A hit in memory changes nothing.

LookInMemory(t, key, ext) ==
  /\ reader[t].pc = "idle"
  /\ AsData(key) = Nil
  /\ reader' = [reader EXCEPT ![t] = [pc |-> "disk", path |-> DiskPath(key, ext)]]
  /\ UNCHANGED <<memoryCache, disk, queue, phase, todo, mainQueue, clears, swept>>

DataFromDiskCache(t) ==
  /\ reader[t].pc = "disk"
  /\ LET path == reader[t].path IN
       reader' = [reader EXCEPT ![t] =
         IF path \in DOMAIN disk
         THEN [pc |-> "fill", path |-> path, file |-> disk[path]]
         ELSE [pc |-> "idle"]]
  /\ UNCHANGED <<memoryCache, disk, queue, phase, todo, mainQueue, clears, swept>>

FillMemoryCache(t) ==
  /\ reader[t].pc = "fill"
  /\ memoryCache' = Put(memoryCache, reader[t].path[1], reader[t].file)
  /\ reader' = [reader EXCEPT ![t] = [pc |-> "idle"]]
  /\ UNCHANGED <<disk, queue, phase, todo, mainQueue, clears, swept>>

-----------------------------------------------------------------------------
\* The system.

\* NSCache drops an object when it likes.
Evict(key) ==
  /\ key \in DOMAIN memoryCache
  /\ memoryCache' = Drop(memoryCache, {key})
  /\ UNCHANGED <<disk, queue, phase, todo, mainQueue, reader, clears, swept>>

\* The process ends, killed by the system or by a trap (the forced cast of a
\* file size no Float represents is one), and is launched again: only files stay.
Relaunch ==
  /\ "kill" \in Faults
  /\ memoryCache' = NoEntries
  /\ queue' = <<>>
  /\ phase' = "start"
  /\ todo' = {}
  /\ mainQueue' = <<>>
  /\ reader' = [t \in Readers |-> [pc |-> "idle"]]
  /\ UNCHANGED <<disk, clears, swept>>

-----------------------------------------------------------------------------
Worker ==
  \/ StoreDataToMemoryCache
  \/ StoreDataToDiskCache
  \/ QueryURLFromCache
  \/ ClearMemoryCache
  \/ ListDiskCache
  \/ ListDiskCacheFails
  \/ \E path \in Paths : RemoveItem(path)
  \/ RemoveItemFails
  \/ ClearDiskCacheReturns

Calls ==
  \/ \E key \in Keys, ext \in Exts, data \in Values : AskStore(key, ext, data)
  \/ \E key \in Keys, ext \in Exts : AskQuery(key, ext)
  \/ AskClear
  \/ RunMainBlock

QueryDataFromCache ==
  \E t \in Readers :
    \/ \E key \in Keys, ext \in Exts : LookInMemory(t, key, ext)
    \/ DataFromDiskCache(t)
    \/ FillMemoryCache(t)

System == Relaunch \/ \E key \in Keys : Evict(key)

Next == Worker \/ Calls \/ QueryDataFromCache \/ System

Spec == Init /\ [][Next]_vars

\* GCD runs the blocks of a serial queue, and the run loop of the main thread
\* comes back to the main queue between two events.  No fairness for the user,
\* the players, NSCache or the end of the process.
Fairness == WF_vars(Worker) /\ SF_vars(RunMainBlock)

FairSpec == Spec /\ Fairness

-----------------------------------------------------------------------------
TypeOK ==
  /\ IsMap(memoryCache, Keys, Objects)
  /\ IsMap(disk, Paths, Files)
  /\ queue \in Seq(Job)
  /\ phase \in {"start", "disk", "list", "sweep"}
  /\ todo \subseteq Paths
  /\ mainQueue \in Seq(UseBlock \cup ReportBlock)
  /\ reader \in [Readers -> ReaderState]
  /\ clears \in Epochs
  /\ swept \in Epochs

\* When the profile page is told a size removed (clearCache's completion, not
\* the "0" of an error), no file stored before that clear was asked is left,
\* whatever stores were queued around it and wherever the process was killed.
ReportedClearIsComplete == \A path \in DOMAIN disk : disk[path].epoch >= swept

\* The path queryURLFromCache gives a player names a file until main asks for
\* a clear: clears asked before the query cannot remove it any more.
HandedPathIsLive ==
  \A i \in DOMAIN mainQueue :
    LET block == mainQueue[i] IN
      (block.op = "use" /\ block.hit /\ block.epoch = clears)
        => block.path \in DOMAIN disk

\* Main hears in the order it asked, and once of each clear: the answer about a path comes
\* before the report of any clear asked after that query, and a clear is not reported
\* again, nor while it still runs, whatever fails in it.
AnswersInOrder ==
  /\ \A i, j \in DOMAIN mainQueue :
       i < j => /\ mainQueue[i].epoch <= mainQueue[j].epoch
                /\ mainQueue[j].op = "report" => mainQueue[i].epoch < mainQueue[j].epoch
  /\ \A i \in DOMAIN mainQueue, j \in DOMAIN queue :
       queue[j].op = "clear" => mainQueue[i].epoch < queue[j].epoch

\* Between two blocks of the queue, what the memory cache has for a key is what
\* the disk has for it under some extension: the two levels of storeDataToCache
\* and clearCache never drift apart (when no write fails and no reader runs: its
\* writes to the memory cache are not on the serial queue).
LevelsAgree ==
  phase = "start" =>
    \A key \in DOMAIN memoryCache : \E ext \in Exts :
      LET path == DiskPath(key, ext) IN
        /\ path \in DOMAIN disk
        /\ disk[path].epoch = memoryCache[key].epoch
        /\ disk[path].data = IF memoryCache[key].data = Null
                             THEN Empty ELSE memoryCache[key].data

-----------------------------------------------------------------------------
\* Main, blocked in dispatchQueue.sync behind stores and clears, gets its answer:
\* no block of the queue waits for main.
MainIsReleased == MainBlocked ~> ~MainBlocked

ClearQueued(n) == \E i \in DOMAIN queue : queue[i].op = "clear" /\ queue[i].epoch = n

ReportDue(n) ==
  /\ ~MainBlocked
  /\ mainQueue # <<>> /\ Head(mainQueue).op = "report" /\ Head(mainQueue).epoch = n

\* Every clear asked comes to be reported on main, whatever fails in it and
\* whatever main asks meanwhile (while the process lives).
ClearIsReported == \A n \in 1 .. MaxClears : ClearQueued(n) ~> ReportDue(n)

\* The cache as its clients see it: the files' contents without their history,
\* the blocks not finished yet as requests.  RemoveItem and the step that ends a
\* block are steps of CacheStore; the memory cache and the listing are not seen.
Store == INSTANCE CacheStore WITH
  requests <- queue,
  files <- [path \in DOMAIN disk |-> disk[path].data]

\* Every behaviour of the cache, with failures, kills and direct readers, is one
\* of CacheStore: FIFO service, files lost only to clears, answers that are true.
ImplementsCacheStore == Store!Spec

\* Notes.md: "If found in disk cache, return the url path of the file location
\* and store data in memory cache."  No step of queryURLFromCache does the second.
HitIsStoredInMemory ==
  [][(QueryURLFromCache /\ Head(queue).path \in DOMAIN disk)
       => Head(queue).path[1] \in DOMAIN memoryCache']_vars
=============================================================================
