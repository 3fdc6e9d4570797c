---------------------------- MODULE VideoPlayer ----------------------------
(***************************************************************************)
(* VideoPlayerView: one cell's player, from the post it is configured with *)
(* to the file in the cache.  It composes the player with CacheStore (what *)
(* VideoCacheManager promises) and with what the player needs of URLSession*)
(* and AVFoundation.  Four threads share the fields of the view:           *)
(*   - main: table view, answers of the cache, resource loader callbacks;  *)
(*   - the session's delegate queue (serial): the events of the download;  *)
(*   - cancelLoadingQueue (serial): the block of cancelAllLoadingRequest;  *)
(*   - the cache's serial queue.                                           *)
(* No lock protects loadingRequests, task, session or videoData.           *)
(***************************************************************************)
EXTENDS Naturals, Sequences, PartialMaps

CONSTANTS
  Urls,       \* URLs of posts; the extension of a post goes with its URL
  NoURL,      \* a post without a URL
  Size,       \* units of data in a video: chunks of the download
  Requests,   \* AVAssetResourceLoadingRequest objects
  Nil,        \* Swift's nil
  Empty,      \* contents of a file of no bytes
  MaxReuses   \* bound: times the cell is reused

ASSUME SizeAssumption == Size \in Nat \ {0}
ASSUME ReusesAssumption == MaxReuses \in Nat

\* A video is the sequence of its units; data is a sequence of units.
Unit == Urls \X (1 .. Size)
Whole(url) == [i \in 1 .. Size |-> <<url, i>>]

StoreJob == [op : {"store"}, path : Urls, data : Seq(Unit) \cup {Nil}, epoch : {0}]
QueryJob == [op : {"query"}, path : Urls, epoch : {0}]
Job == StoreJob \cup QueryJob

Answer == [op : {"use"}, path : Urls, hit : BOOLEAN, epoch : {0}]
Item == [url : Urls, file : BOOLEAN]

ASSUME NilAssumption ==
  /\ NoURL \notin Urls /\ Nil \notin Urls \cup {NoURL}
  /\ Nil \notin Item /\ Nil \notin Seq(Unit) /\ \A S \in SUBSET Requests : S # Nil

VARIABLES
  \* the cache
  requests, files, mainQueue,
  \* the view
  post,             \* what the cell was last configured with; Nil: never
  originalURL,      \* originalURL; videoURL, asset and playerItem come and go with it
  item,             \* current item of queuePlayer
  session,          \* "open", "invalid" (invalidated, not yet nil) or "none"
  task,             \* URL of the data task, or Nil
  videoData,        \* units received, or Nil
  loadingRequests,  \* the requests the view still answers
  kept,             \* the filter of processLoadingRequest, computed and not yet assigned
  \* cancelLoadingQueue
  cancels,          \* blocks of cancelAllLoadingRequest, the running one included
  cancelStep,       \* progress of the running block
  \* outside
  net,              \* the server's side of the data task
  events,           \* URLSession's calls waiting on the delegate queue
  request,          \* AVFoundation's side of the loading requests
  \* history
  reuses,           \* times the cell was reused
  raced             \* requests listed while another thread was rewriting the list

cacheVars == <<requests, files, mainQueue>>
cellVars == <<post, originalURL, item>>
listVars == <<loadingRequests, kept, request, raced>>
cancelVars == <<cancels, cancelStep>>
netVars == <<net, events>>
vars == <<cacheVars, cellVars, session, task, videoData, listVars, cancelVars, netVars, reuses>>

Cache == INSTANCE CacheStore

Idle == [status |-> "new", url |-> Nil, first |-> 0, last |-> 0, got |-> <<>>]
NoTask == [url |-> Nil, sent |-> 0, status |-> "over"]

\* dataRequest.currentOffset: the offset after the last byte given.
CurrentOffset(r) == request[r].first + Len(request[r].got)

MainIsFree == ~Cache!QueryPending

-----------------------------------------------------------------------------
\* A view as awakeFromNib makes it.
FreshView ==
  /\ post = Nil /\ originalURL = Nil /\ item = Nil
  /\ session = "open" /\ task = Nil /\ videoData = <<>>
  /\ loadingRequests = {} /\ kept = Nil
  /\ cancels = 0 /\ cancelStep = "session"
  /\ net = NoTask /\ events = <<>>
  /\ request = [r \in Requests |-> Idle]
  /\ reuses = 0 /\ raced = {}

Init == Cache!Init /\ FreshView

-----------------------------------------------------------------------------
\* Main: the table view and the cache's answers.

\* The query of configure; a post without a URL returns before it.
QueryURL(url) ==
  IF url = NoURL THEN UNCHANGED cacheVars
  ELSE Cache!Ask([op |-> "query", path |-> url, epoch |-> 0])

\* cellForRowAt with a new cell.
CellForRow(url) ==
  /\ MainIsFree
  /\ post = Nil
  /\ post' = url
  /\ QueryURL(url)
  /\ UNCHANGED <<originalURL, item, session, task, videoData, listVars, cancelVars,
                 netVars, reuses>>

\* cellForRowAt with a cell of the reuse queue: prepareForReuse forgets the
\* video and sends the rest of cancelAllLoadingRequest to its queue, then the
\* cell is configured.  The old item stays in queuePlayer.
ReuseCell(url) ==
  /\ MainIsFree
  /\ post # Nil
  /\ reuses < MaxReuses
  /\ reuses' = reuses + 1
  /\ post' = url
  /\ originalURL' = Nil
  /\ cancels' = cancels + 1
  /\ QueryURL(url)
  /\ UNCHANGED <<item, session, task, videoData, listVars, cancelStep, netVars>>

\* The block of configure on main: a cached video is played from its file, any
\* other through a redirect URL whose requests come to this view.
ShowVideo ==
  /\ Cache!RunAnswer
  /\ originalURL' = Head(mainQueue).path
  /\ item' = [url |-> Head(mainQueue).path, file |-> Head(mainQueue).hit]
  /\ UNCHANGED <<post, session, task, videoData, listVars, cancelVars, netVars, reuses>>

-----------------------------------------------------------------------------
\* Main: the resource loader.

\* Another thread is between reading loadingRequests and assigning it.
ListIsBeingRewritten == kept # Nil \/ cancelStep = "remove"

\* Mutant: a request that finds the task running is not listed.
ListRequestOfNewTask(r, first, last) ==
  /\ request' = [request EXCEPT ![r] =
       [status |-> "waiting", url |-> item.url, first |-> first, last |-> last, got |-> <<>>]]
  /\ loadingRequests' = IF task = Nil THEN loadingRequests \cup {r} ELSE loadingRequests
  /\ raced' = IF ListIsBeingRewritten THEN raced \cup {r} ELSE raced
  /\ UNCHANGED kept

\* AVFoundation asks units first + 1 .. last of the video of the item.
ListRequest(r, first, last) ==
  /\ request' = [request EXCEPT ![r] =
       [status |-> "waiting", url |-> item.url, first |-> first, last |-> last, got |-> <<>>]]
  /\ loadingRequests' = loadingRequests \cup {r}
  /\ raced' = IF ListIsBeingRewritten THEN raced \cup {r} ELSE raced
  /\ UNCHANGED kept

\* The first request starts the download, if the view still has a session.
NeedsTask == task = Nil /\ originalURL # Nil

ShouldWaitForLoading(r, first, last) ==
  /\ MainIsFree
  /\ item # Nil /\ ~item.file
  /\ request[r].status = "new"
  /\ ListRequest(r, first, last)
  /\ \/ /\ NeedsTask /\ session = "open"
        /\ task' = originalURL
        /\ net' = [url |-> originalURL, sent |-> 0, status |-> "asked"]
     \/ /\ ~NeedsTask \/ session = "none"
        /\ UNCHANGED <<task, net>>
  /\ UNCHANGED <<cacheVars, cellVars, session, videoData, cancelVars, events, reuses>>

\* AVFoundation gives a request up.
DidCancel(r) ==
  /\ MainIsFree
  /\ request[r].status = "waiting"
  /\ request' = [request EXCEPT ![r].status = "cancelled"]
  /\ loadingRequests' = loadingRequests \ {r}
  /\ UNCHANGED <<cacheVars, cellVars, session, task, videoData, kept, raced, cancelVars,
                 netVars, reuses>>

-----------------------------------------------------------------------------
\* The server and URLSession: events are delivered in order on a serial queue.

Deliver(event) == events' = Append(events, event)

Downloading == net.status \in {"asked", "responded", "allowed"}

Respond ==
  /\ net.status = "asked"
  /\ net' = [net EXCEPT !.status = "responded"]
  /\ Deliver([op |-> "response"])

SendData ==
  /\ net.status = "allowed" /\ net.sent < Size
  /\ net' = [net EXCEPT !.sent = @ + 1]
  /\ Deliver([op |-> "data", unit |-> <<net.url, net.sent + 1>>])

EndOfData ==
  /\ net.status = "allowed" /\ net.sent = Size
  /\ net' = [net EXCEPT !.status = "over"]
  /\ Deliver([op |-> "done"])

\* The connection fails or times out.
NetworkFails ==
  /\ Downloading
  /\ net' = [net EXCEPT !.status = "failed"]
  /\ Deliver([op |-> "error"])

Server ==
  /\ Respond \/ SendData \/ EndOfData
  /\ UNCHANGED <<cacheVars, cellVars, session, task, videoData, listVars, cancelVars, reuses>>

Disconnection ==
  /\ NetworkFails
  /\ UNCHANGED <<cacheVars, cellVars, session, task, videoData, listVars, cancelVars, reuses>>

-----------------------------------------------------------------------------
\* The delegate queue.

NextEvent(op) == kept = Nil /\ events # <<>> /\ Head(events).op = op

\* processLoadingRequest up to the assignment of its filter, on the data
\* received so far.  checkAndRespond gives each request the units it lacks, and
\* tells finished those that lacked none before.
Answerable(data) ==
  {r \in loadingRequests : data # Nil /\ Len(data) >= CurrentOffset(r)}
Finished(data) == {r \in Answerable(data) : CurrentOffset(r) >= request[r].last}

\* Mutant: the data is read from the offset the request began with.
FromRequestedOffset(r, data) ==
  SubSeq(data, request[r].first + 1,
         IF Len(data) < request[r].last THEN Len(data) ELSE request[r].last)

UnitsFor(r, data) ==
  SubSeq(data, CurrentOffset(r) + 1,
         IF Len(data) < request[r].last THEN Len(data) ELSE request[r].last)

ProcessLoadingRequest(data) ==
  /\ request' = [r \in Requests |->
       IF r \notin Answerable(data) \/ request[r].status # "waiting" THEN request[r]
       ELSE [request[r] EXCEPT
               !.got = @ \o UnitsFor(r, data),
               !.status = IF r \in Finished(data) THEN "finished" ELSE @]]
  /\ kept' = loadingRequests \ Finished(data)

\* self.loadingRequests = the filter.
AssignFilter ==
  /\ kept # Nil
  /\ loadingRequests' = kept
  /\ kept' = Nil
  /\ UNCHANGED <<cacheVars, cellVars, session, task, videoData, request, raced, cancelVars,
                 netVars, reuses>>

\* Mutant: completionHandler is not called.
DidReceiveResponseOnly ==
  /\ NextEvent("response")
  /\ events' = Tail(events)
  /\ ProcessLoadingRequest(videoData)
  /\ UNCHANGED <<cacheVars, cellVars, session, task, videoData, loadingRequests, raced,
                 cancelVars, net, reuses>>

\* The response lets the data come.
DidReceiveResponse ==
  /\ NextEvent("response")
  /\ events' = Tail(events)
  /\ ProcessLoadingRequest(videoData)
  /\ net' = IF net.status = "responded" THEN [net EXCEPT !.status = "allowed"] ELSE net
  /\ UNCHANGED <<cacheVars, cellVars, session, task, videoData, loadingRequests, raced,
                 cancelVars, reuses>>

\* Mutant: processLoadingRequest is not called.
DidReceiveDataOnly ==
  /\ NextEvent("data")
  /\ events' = Tail(events)
  /\ videoData' = IF videoData = Nil THEN Nil ELSE Append(videoData, Head(events).unit)
  /\ UNCHANGED <<cacheVars, cellVars, session, task, listVars, cancelVars, net, reuses>>

\* Mutant: the requests are answered before the data is added.
DidReceiveDataAnsweringFirst ==
  /\ NextEvent("data")
  /\ events' = Tail(events)
  /\ videoData' = IF videoData = Nil THEN Nil ELSE Append(videoData, Head(events).unit)
  /\ ProcessLoadingRequest(videoData)
  /\ UNCHANGED <<cacheVars, cellVars, session, task, loadingRequests, raced, cancelVars,
                 net, reuses>>

DidReceiveData ==
  /\ NextEvent("data")
  /\ events' = Tail(events)
  /\ videoData' = IF videoData = Nil THEN Nil ELSE Append(videoData, Head(events).unit)
  /\ ProcessLoadingRequest(videoData')
  /\ UNCHANGED <<cacheVars, cellVars, session, task, loadingRequests, raced, cancelVars,
                 net, reuses>>

\* The download is stored under the URL the view has now.
DidComplete ==
  /\ NextEvent("done")
  /\ originalURL # Nil
  /\ events' = Tail(events)
  /\ Cache!Ask([op |-> "store", path |-> originalURL, data |-> videoData, epoch |-> 0])
  /\ UNCHANGED <<cellVars, session, task, videoData, listVars, cancelVars, net, reuses>>

\* Mutant: what there is of the video is stored.
DidCompleteWithErrorStores ==
  /\ NextEvent("error")
  /\ originalURL # Nil
  /\ events' = Tail(events)
  /\ Cache!Ask([op |-> "store", path |-> originalURL, data |-> videoData, epoch |-> 0])
  /\ UNCHANGED <<cellVars, session, task, videoData, listVars, cancelVars, net, reuses>>

\* An error is printed.
DidCompleteWithError ==
  /\ NextEvent("error")
  /\ events' = Tail(events)
  /\ UNCHANGED <<cacheVars, cellVars, session, task, videoData, listVars, cancelVars, net,
                 reuses>>

-----------------------------------------------------------------------------
\* cancelLoadingQueue: the block of cancelAllLoadingRequest, field by field.

CancelAt(step) == cancels > 0 /\ cancelStep = step

\* session.invalidateAndCancel(): a task still running ends in an error.
InvalidateSession ==
  /\ CancelAt("session")
  /\ cancelStep' = "forget"
  /\ session' = IF session = "none" THEN "none" ELSE "invalid"
  /\ IF session = "open" /\ Downloading
     THEN net' = [net EXCEPT !.status = "failed"] /\ Deliver([op |-> "error"])
     ELSE UNCHANGED netVars
  /\ UNCHANGED <<cacheVars, cellVars, task, videoData, listVars, cancels, reuses>>

ForgetSession ==
  /\ CancelAt("forget")
  /\ cancelStep' = "task"
  /\ session' = "none"
  /\ UNCHANGED <<cacheVars, cellVars, task, videoData, listVars, cancels, netVars, reuses>>

\* Mutant: the data is emptied, not given up.
ForgetTaskKeepsData ==
  /\ CancelAt("task")
  /\ cancelStep' = "finish"
  /\ task' = Nil
  /\ videoData' = <<>>
  /\ UNCHANGED <<cacheVars, cellVars, session, listVars, cancels, netVars, reuses>>

\* Mutant: originalURL is forgotten here and not on main.
ForgetTaskAndURL ==
  /\ CancelAt("task")
  /\ cancelStep' = "finish"
  /\ task' = Nil
  /\ videoData' = Nil
  /\ originalURL' = Nil
  /\ UNCHANGED <<cacheVars, post, item, session, listVars, cancels, netVars, reuses>>

ForgetTask ==
  /\ CancelAt("task")
  /\ cancelStep' = "finish"
  /\ task' = Nil
  /\ videoData' = Nil
  /\ UNCHANGED <<cacheVars, cellVars, session, listVars, cancels, netVars, reuses>>

FinishRequests ==
  /\ CancelAt("finish")
  /\ cancelStep' = "remove"
  /\ request' = [r \in Requests |->
       IF r \in loadingRequests /\ request[r].status = "waiting"
       THEN [request[r] EXCEPT !.status = "finished"] ELSE request[r]]
  /\ UNCHANGED <<cacheVars, cellVars, session, task, videoData, loadingRequests, kept, raced,
                 cancels, netVars, reuses>>

RemoveRequests ==
  /\ CancelAt("remove")
  /\ cancelStep' = "session"
  /\ cancels' = cancels - 1
  /\ loadingRequests' = {}
  /\ UNCHANGED <<cacheVars, cellVars, session, task, videoData, kept, request, raced, netVars,
                 reuses>>

-----------------------------------------------------------------------------
\* The end of the process.  The files stay; the next launch makes a new view.

EndProcess ==
  /\ Cache!Restart
  /\ post' = Nil /\ originalURL' = Nil /\ item' = Nil
  /\ session' = "open" /\ task' = Nil /\ videoData' = <<>>
  /\ loadingRequests' = {} /\ kept' = Nil
  /\ cancels' = 0 /\ cancelStep' = "session"
  /\ net' = NoTask /\ events' = <<>>
  /\ request' = [r \in Requests |-> Idle]
  /\ reuses' = 0 /\ raced' = {}

\* originalURL! is nil: prepareForReuse ran before the download was complete.
CompletionTraps == NextEvent("done") /\ originalURL = Nil /\ EndProcess

\* dataTask(with:) of a session that has been invalidated.
TaskTraps ==
  /\ MainIsFree
  /\ item # Nil /\ ~item.file
  /\ \E r \in Requests : request[r].status = "new"
  /\ NeedsTask /\ session = "invalid"
  /\ EndProcess

-----------------------------------------------------------------------------
CacheWorks ==
  /\ Cache!ServeStore \/ Cache!ServeQuery
  /\ UNCHANGED <<cellVars, session, task, videoData, listVars, cancelVars, netVars, reuses>>

Delegate == DidReceiveResponse \/ DidReceiveData \/ DidComplete \/ DidCompleteWithError
              \/ CompletionTraps \/ AssignFilter

CancelBlock == InvalidateSession \/ ForgetSession \/ ForgetTask \/ FinishRequests
                 \/ RemoveRequests

TableView == \E url \in Urls \cup {NoURL} : CellForRow(url) \/ ReuseCell(url)

Ranges == {range \in (0 .. Size) \X (0 .. Size) : range[1] < range[2]}

ResourceLoader ==
  \E r \in Requests :
    \/ \E range \in Ranges : ShouldWaitForLoading(r, range[1], range[2])
    \/ DidCancel(r)

Next ==
  \/ TableView
  \/ ShowVideo
  \/ ResourceLoader
  \/ TaskTraps
  \/ Server
  \/ Disconnection
  \/ Delegate
  \/ CancelBlock
  \/ CacheWorks
  \/ EndProcess

Spec == Init /\ [][Next]_vars

\* The queues run what they are given and a download ends, well or in an error
\* (its timeout is 60 s).  Nothing obliges the table view, AVFoundation, or the
\* process to end.
Fairness ==
  /\ WF_vars(CacheWorks) /\ WF_vars(Delegate) /\ WF_vars(CancelBlock) /\ WF_vars(Server)
  /\ SF_vars(ShowVideo)

FairSpec == Spec /\ Fairness

-----------------------------------------------------------------------------
Waiting(r) == request[r].status = "waiting"

Download == [url : Urls, sent : 0 .. Size,
             status : {"asked", "responded", "allowed", "over", "failed"}]
NetState == Download \cup {NoTask}

DataEvent == [op : {"data"}, unit : Unit]
Event == [op : {"response", "done", "error"}] \cup DataEvent

RequestState == [status : {"new", "waiting", "finished", "cancelled"}, url : Urls \cup {Nil},
                 first : 0 .. Size, last : 0 .. Size, got : Seq(Unit)]

TypeOK ==
  /\ requests \in Seq(Job) /\ mainQueue \in Seq(Answer)
  /\ IsMap(files, Urls, Seq(Unit) \cup {Empty})
  /\ post \in Urls \cup {NoURL, Nil} /\ originalURL \in Urls \cup {Nil}
  /\ item \in Item \cup {Nil}
  /\ session \in {"open", "invalid", "none"} /\ task \in Urls \cup {Nil}
  /\ videoData \in Seq(Unit) \cup {Nil}
  /\ loadingRequests \subseteq Requests /\ kept \in (SUBSET Requests) \cup {Nil}
  /\ cancels \in 0 .. reuses
  /\ cancelStep \in {"session", "forget", "task", "finish", "remove"}
  /\ net \in NetState /\ events \in Seq(Event)
  /\ request \in [Requests -> RequestState]
  /\ \A r \in Requests : CurrentOffset(r) <= request[r].last
  /\ reuses \in 0 .. MaxReuses /\ raced \subseteq Requests

\* Whatever is interrupted, a file is a whole video or has no byte: never part of
\* a video, never parts of two.
StoredWhole ==
  \A path \in DOMAIN files : files[path] = Empty \/ \E url \in Urls : files[path] = Whole(url)

\* Until the cell is reused, what a download stores is the video of its key.
FirstUseStoresItsVideo ==
  [][LET asked == requests'[Len(requests')] IN
       (reuses = 0 /\ Len(requests') > Len(requests) /\ asked.op = "store")
         => asked.data = Whole(asked.path)]_vars

\* When main is idle the player has the video of the post the cell shows,
\* however the cancellations of the former posts are delayed.
ShownVideoMatchesPost ==
  (MainIsFree /\ mainQueue = <<>> /\ post \in Urls)
    => originalURL = post /\ item # Nil /\ item.url = post

\* Until the cell is reused, AVFoundation is given the units it asked, in order.
DeliveredIsTheVideo ==
  reuses = 0 =>
    \A r \in Requests :
      request[r].got = [i \in 1 .. Len(request[r].got) |->
                          <<request[r].url, request[r].first + i>>]

\* A request AVFoundation waits for is one the view knows, save those listed
\* while another thread was rewriting the list (which its author did not see).
WaitingIsListed ==
  \A r \in Requests \ raced :
    Waiting(r) => r \in loadingRequests /\ (kept # Nil => r \in kept)

\* Once a request listed in time got some data, it has all that came of what it asked,
\* and no more: no answer is skipped, though each overwrites the list on its own thread.
ServedIsUpToDate ==
  \A r \in Requests \ raced :
    (Waiting(r) /\ request[r].got # <<>> /\ videoData # Nil) =>
      /\ CurrentOffset(r) <= Len(videoData)
      /\ CurrentOffset(r) = request[r].last \/ CurrentOffset(r) = Len(videoData)

\* While the view keeps its data, what it has and what waits on the delegate queue is all
\* the server sent: a response not yet answered waits there, no unit is missed, and the
\* end of the download waits until every unit came.
DownloadNeverStalls ==
  videoData # Nil =>
    /\ net.status = "responded" => \E i \in DOMAIN events : events[i].op = "response"
    /\ net.status = "allowed" => Len(videoData) + Len(events) = net.sent
    /\ (net.status = "over" /\ net.url # Nil) =>
         /\ net.sent = Size
         /\ \/ Len(videoData) + Len(events) = Size + 1
            \/ Len(videoData) = Size /\ events = <<>>

HandedOver(url) ==
  \E i \in DOMAIN requests : requests[i].op = "store" /\ requests[i].data = Whole(url)

\* A download that is started is handed to the cache whole, unless it fails or
\* the view goes (cells that are not reused).
DownloadIsHandedOver ==
  \A url \in Urls :
    (task = url /\ Downloading) ~> HandedOver(url) \/ net.status = "failed" \/ task = Nil

\* A request listed before the last unit came gets all it asked, unless the
\* download fails or AVFoundation gives it up (cells that are not reused).
ListedIsServed ==
  \A r \in Requests :
    (Waiting(r) /\ r \notin raced /\ videoData # Nil /\ Len(videoData) < Size /\ task # Nil)
      ~> (~Waiting(r) \/ CurrentOffset(r) = request[r].last \/ net.status = "failed")

-----------------------------------------------------------------------------
\* What the code does not keep.

\* VideoCacheManager: "Keys are the absolute string of url".
FilesHoldTheirVideo == \A path \in DOMAIN files : files[path] = Whole(path)

\* The force unwrap in didCompleteWithError: originalURL is there when a download ends.
CompletionNeverTraps == [][~CompletionTraps]_vars

\* HomeViewModel: "if videos don't exist in cache, make a request to firebase and
\* download the video".
MissIsRequested ==
  \A url \in Urls :
    (\E r \in Requests : Waiting(r) /\ request[r].url = url /\ post = url)
      ~> (task = url \/ post # url)
=============================================================================
