----------------------------- MODULE CacheStore -----------------------------
(***************************************************************************)
(* What VideoCacheManager promises the players and the profile page, with  *)
(* no memory cache and no steps inside a block: requests are served one at *)
(* a time in the order they were asked, on a directory that survives the   *)
(* process; a file appears when its store is served, goes only while a     *)
(* clear is served, and every answer tells the state of the directory at   *)
(* the moment it is given.  VideoCache implements this module.             *)
(***************************************************************************)
EXTENDS Sequences, PartialMaps

CONSTANTS
  Job,    \* requests: records with op and epoch; path and data where they apply
  Empty,  \* contents of a file of no bytes
  Nil     \* the data of a store that has none

VARIABLES
  requests,   \* asked and not yet served, oldest first
  files,      \* path -> contents
  mainQueue   \* answers on their way to the main thread

storeVars == <<requests, files, mainQueue>>

FileContents(data) == IF data = Nil THEN Empty ELSE data

QueryPending == \E i \in DOMAIN requests : requests[i].op = "query"

Serving(op) == requests # <<>> /\ Head(requests).op = op

Init == requests = <<>> /\ files = NoEntries /\ mainQueue = <<>>

\* A request is asked.  Main asks queries and clears, and waits for its query.
Ask(job) ==
  /\ job.op \in {"query", "clear"} => ~QueryPending
  /\ requests' = Append(requests, job)
  /\ UNCHANGED <<files, mainQueue>>

\* A store makes the file, or leaves the directory as it was.
ServeStore ==
  /\ Serving("store")
  /\ files' \in {Put(files, Head(requests).path, FileContents(Head(requests).data)),
                 files}
  /\ requests' = Tail(requests)
  /\ UNCHANGED mainQueue

\* A query is answered with the directory of that moment.
ServeQuery ==
  /\ Serving("query")
  /\ mainQueue' = Append(mainQueue,
       [op |-> "use", path |-> Head(requests).path,
        hit |-> Head(requests).path \in DOMAIN files, epoch |-> Head(requests).epoch])
  /\ requests' = Tail(requests)
  /\ UNCHANGED files

\* A clear removes files one by one...
RemoveFile ==
  /\ Serving("clear")
  /\ \E path \in DOMAIN files : files' = Drop(files, {path})
  /\ UNCHANGED <<requests, mainQueue>>

\* ...and reports success only when none is left.
ServeClear(ok) ==
  /\ Serving("clear")
  /\ ok => files = NoEntries
  /\ mainQueue' = Append(mainQueue,
       [op |-> "report", ok |-> ok, epoch |-> Head(requests).epoch])
  /\ requests' = Tail(requests)
  /\ UNCHANGED files

\* Main runs the next answer, never while it waits for a query.
RunAnswer ==
  /\ ~QueryPending
  /\ mainQueue # <<>>
  /\ mainQueue' = Tail(mainQueue)
  /\ UNCHANGED <<requests, files>>

\* The process ends and starts again: requests and answers are lost, files stay.
Restart ==
  /\ requests' = <<>>
  /\ mainQueue' = <<>>
  /\ UNCHANGED files

Next ==
  \/ \E job \in Job : Ask(job)
  \/ ServeStore
  \/ ServeQuery
  \/ RemoveFile
  \/ \E ok \in BOOLEAN : ServeClear(ok)
  \/ RunAnswer
  \/ Restart

Spec == Init /\ [][Next]_storeVars
=============================================================================
