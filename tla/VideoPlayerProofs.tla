-------------------------- MODULE VideoPlayerProofs --------------------------
(***************************************************************************)
(* The player of a cell for every set of URLs and of loading requests, for *)
(* videos of every length and for every number of reuses.                  *)
(*                                                                         *)
(* The inductive invariant rests on one fact the code does not state: a    *)
(* view downloads once.  cancelAllLoadingRequest gives the session up for  *)
(* good, and with it videoData becomes nil (OneDownload).  While there is  *)
(* data it is therefore the beginning of that one download, and the events *)
(* on the delegate queue are its continuation (StreamOK); none is missing  *)
(* (DownloadNeverStalls), and each is answered to the requests as it comes *)
(* (ServedIsUpToDate).                                                     *)
(***************************************************************************)
EXTENDS VideoPlayer, DataFacts

-----------------------------------------------------------------------------
\* The inductive invariant.

\* The session goes once, in the first block of cancelLoadingQueue, and the data
\* after it.
OneDownload ==
  /\ session = "open" => cancelStep = "session"
  /\ session = "invalid" => cancelStep = "forget"
  /\ session = "open" /\ task = Nil => net = NoTask /\ events = <<>> /\ videoData = <<>>
  /\ videoData = Nil => session = "none"
  /\ reuses = 0 => session = "open"

\* The event at place i of the delegate queue continues the data received.
Continues(i) ==
  LET event == events[i]
      n == Len(videoData) + i
  IN /\ event.op = "response" => i = 1 /\ net.sent = 0
     /\ event.op = "data" => event.unit = <<net.url, n>> /\ n <= net.sent
     /\ event.op = "done" => n = Size + 1 /\ net.sent = Size
     /\ event.op = "error" => i = Len(events)

\* Data received and data on its way are what the server has sent.
StreamOK ==
  videoData # Nil =>
    /\ Len(videoData) <= net.sent
    /\ \A i \in DOMAIN videoData : videoData[i] = <<net.url, i>>
    /\ \A i \in DOMAIN events : Continues(i)
    /\ net.status = "asked" => events = <<>> /\ net.sent = 0
    /\ net.status = "responded" => Len(events) = 1 /\ events[1].op = "response" /\ net.sent = 0
    /\ net.status = "allowed" => /\ Len(events) = net.sent - Len(videoData)
                                 /\ \A i \in DOMAIN events : events[i].op = "data"

\* Before the first reuse all is of one post.
FirstUse ==
  reuses = 0 =>
    /\ originalURL \in {post, Nil} /\ net.url \in {post, Nil}
    /\ item # Nil => item.url = post
    /\ \A i \in DOMAIN mainQueue : mainQueue[i].path = post
    /\ \A r \in Requests :
         request[r].status # "new" => request[r].url = post /\ post # Nil

\* What the cache is asked is of the post of the moment, and so is the last answer
\* to come or that came.
LastAnswer ==
  /\ \A i \in DOMAIN requests : requests[i].op = "query" => requests[i].path = post
  /\ (post \in Urls /\ MainIsFree) =>
       IF mainQueue = <<>> THEN originalURL = post /\ item # Nil /\ item.url = post
       ELSE mainQueue[Len(mainQueue)].path = post

\* What waits to be stored is a whole video, or nothing.
StoresWhole ==
  \A i \in DOMAIN requests :
    requests[i].op = "store" =>
      requests[i].data = Nil \/ \E url \in Urls : requests[i].data = Whole(url)

\* WaitingIsListed, and once the block of cancelLoadingQueue has finished the
\* requests it may drop the list.
Listed ==
  /\ WaitingIsListed
  /\ cancelStep = "remove" => \A r \in Requests \ raced : ~Waiting(r)

Inv ==
  /\ TypeOK
  /\ OneDownload /\ StreamOK
  /\ FirstUse /\ LastAnswer
  /\ StoresWhole /\ StoredWhole
  /\ DeliveredIsTheVideo
  /\ Listed
  /\ ServedIsUpToDate /\ DownloadNeverStalls

-----------------------------------------------------------------------------
\* Steps.

\* The kinds of steps; the traps end the process.
LEMMA Steps ==
  ASSUME [Next]_vars
  PROVE  \/ \E url \in Urls \cup {NoURL} : CellForRow(url)
         \/ \E url \in Urls \cup {NoURL} : ReuseCell(url)
         \/ ShowVideo
         \/ \E r \in Requests, first \in 0 .. Size, last \in 0 .. Size :
              first < last /\ ShouldWaitForLoading(r, first, last)
         \/ \E r \in Requests : DidCancel(r)
         \/ Server \/ Disconnection
         \/ DidReceiveResponse \/ DidReceiveData \/ DidComplete \/ DidCompleteWithError
         \/ AssignFilter
         \/ InvalidateSession \/ ForgetSession \/ ForgetTask \/ FinishRequests \/ RemoveRequests
         \/ CacheWorks
         \/ EndProcess
         \/ UNCHANGED vars
<1>1. ASSUME NEW r \in Requests, NEW range \in Ranges, ShouldWaitForLoading(r, range[1], range[2])
      PROVE  \E first \in 0 .. Size, last \in 0 .. Size :
               first < last /\ ShouldWaitForLoading(r, first, last)
  BY <1>1 DEF Ranges
<1>2. ResourceLoader =>
        \/ \E r \in Requests, first \in 0 .. Size, last \in 0 .. Size :
             first < last /\ ShouldWaitForLoading(r, first, last)
        \/ \E r \in Requests : DidCancel(r)
  BY <1>1 DEF ResourceLoader
<1> QED
  BY <1>2 DEF Next, TableView, TaskTraps, Delegate, CompletionTraps, CancelBlock

-----------------------------------------------------------------------------
\* Types.

\* The cache keeps the types of its variables.
CacheTypes ==
  /\ requests \in Seq(Job) /\ mainQueue \in Seq(Answer)
  /\ IsMap(files, Urls, Seq(Unit) \cup {Empty})

LEMMA CacheKeepsTypes ==
  ASSUME CacheTypes,
         \/ UNCHANGED cacheVars
         \/ \E job \in Job : Cache!Ask(job)
         \/ Cache!ServeStore \/ Cache!ServeQuery \/ Cache!RunAnswer \/ Cache!Restart
  PROVE  CacheTypes'
<1>1. CASE UNCHANGED cacheVars
  BY <1>1 DEF cacheVars, CacheTypes
<1>2. ASSUME NEW job \in Job, Cache!Ask(job) PROVE CacheTypes'
  BY <1>2, AppendSeq DEF Cache!Ask, CacheTypes
<1>3. CASE Cache!ServeStore
  <2>1. Tail(requests) \in Seq(Job) /\ Head(requests) \in Job /\ Head(requests).op = "store"
    BY <1>3, TailSeq DEF Cache!ServeStore, Cache!Serving, CacheTypes
  <2>2. Head(requests).path \in Urls /\ Head(requests).data \in Seq(Unit) \cup {Nil}
    BY <2>1 DEF Job, StoreJob, QueryJob
  <2>3. Cache!FileContents(Head(requests).data) \in Seq(Unit) \cup {Empty}
    BY <2>2 DEF Cache!FileContents
  <2>4. IsMap(Put(files, Head(requests).path, Cache!FileContents(Head(requests).data)), Urls,
              Seq(Unit) \cup {Empty})
    BY <2>2, <2>3, PutIsMap DEF CacheTypes
  <2>5. Cache!Put(files, Head(requests).path, Cache!FileContents(Head(requests).data))
          = Put(files, Head(requests).path, Cache!FileContents(Head(requests).data))
    BY DEF Put, Cache!Put
  <2> QED BY <1>3, <2>1, <2>4, <2>5 DEF Cache!ServeStore, CacheTypes
<1>4. CASE Cache!ServeQuery
  <2>1. Tail(requests) \in Seq(Job) /\ Head(requests) \in Job /\ Head(requests).op = "query"
    BY <1>4, TailSeq DEF Cache!ServeQuery, Cache!Serving, CacheTypes
  <2>2. Head(requests).path \in Urls /\ Head(requests).epoch = 0
    BY <2>1 DEF Job, StoreJob, QueryJob
  <2>3. [op |-> "use", path |-> Head(requests).path,
         hit |-> Head(requests).path \in DOMAIN files, epoch |-> Head(requests).epoch] \in Answer
    BY <2>2 DEF Answer
  <2>4. mainQueue' \in Seq(Answer)
    BY <1>4, <2>3, AppendSeq DEF Cache!ServeQuery, CacheTypes
  <2> QED BY <1>4, <2>1, <2>4 DEF Cache!ServeQuery, CacheTypes
<1>5. CASE Cache!RunAnswer
  BY <1>5, TailSeq DEF Cache!RunAnswer, CacheTypes
<1>6. CASE Cache!Restart
  BY <1>6 DEF Cache!Restart, CacheTypes
<1> QED BY <1>1, <1>2, <1>3, <1>4, <1>5, <1>6

\* What main asks is a request.
LEMMA QueryIsJob ==
  ASSUME NEW url \in Urls
  PROVE  [op |-> "query", path |-> url, epoch |-> 0] \in Job
BY DEF Job, QueryJob

\* The units given to a request.
LEMMA UnitsGiven ==
  ASSUME TypeOK, NEW data \in Seq(Unit), NEW r \in Requests, Len(data) >= CurrentOffset(r)
  PROVE  LET units == UnitsFor(r, data) IN
         /\ units \in Seq(Unit)
         /\ CurrentOffset(r) + Len(units) <= request[r].last
         /\ \A i \in 1 .. Len(units) : units[i] = data[CurrentOffset(r) + i]
         /\ CurrentOffset(r) + Len(units) <= Len(data)
         /\ CurrentOffset(r) + Len(units) \in {Len(data), request[r].last}
<1> DEFINE offset == CurrentOffset(r)
           end == IF Len(data) < request[r].last THEN Len(data) ELSE request[r].last
<1>1. offset \in Nat /\ request[r].last \in Nat /\ offset <= request[r].last
  BY DEF TypeOK, CurrentOffset, RequestState
<1>2. /\ end \in Nat /\ end <= Len(data) /\ end <= request[r].last /\ offset <= end
      /\ end \in {Len(data), request[r].last}
  BY <1>1
<1> HIDE DEF offset, end
<1>3. /\ SubSeq(data, offset + 1, end) \in Seq(Unit)
      /\ Len(SubSeq(data, offset + 1, end)) = end - offset
      /\ \A i \in 1 .. end - offset : SubSeq(data, offset + 1, end)[i] = data[offset + i]
  BY <1>1, <1>2
<1>4. UnitsFor(r, data) = SubSeq(data, offset + 1, end)
  BY DEF UnitsFor, offset, end
<1>5. offset + Len(UnitsFor(r, data)) = end
  BY <1>1, <1>2, <1>3, <1>4
<1>6. \A i \in 1 .. Len(UnitsFor(r, data)) : UnitsFor(r, data)[i] = data[offset + i]
  BY <1>3, <1>4
<1> QED BY <1>2, <1>3, <1>4, <1>5, <1>6 DEF offset

\* What processLoadingRequest does to a request.
LEMMA Processed ==
  ASSUME TypeOK, NEW data \in Seq(Unit) \cup {Nil}, ProcessLoadingRequest(data)
  PROVE  /\ request' \in [Requests -> RequestState] /\ kept' \in SUBSET Requests
         /\ \A r \in Requests :
              /\ request'[r].url = request[r].url /\ request'[r].first = request[r].first
              /\ request'[r].last = request[r].last
              /\ request'[r].status = "new" <=> request[r].status = "new"
              /\ request'[r].status = "waiting" =>
                   request[r].status = "waiting" /\ (r \in loadingRequests => r \in kept')
              /\ \/ request'[r].got = request[r].got
                 \/ /\ data # Nil /\ Len(data) >= CurrentOffset(r)
                    /\ request[r].status = "waiting"
                    /\ request'[r].got = request[r].got \o UnitsFor(r, data)
              /\ r \in Answerable(data) /\ request[r].status = "waiting"
                   => request'[r].got = request[r].got \o UnitsFor(r, data)
<1> DEFINE units(r) == request[r].got \o UnitsFor(r, data)
           status(r) == IF r \in Finished(data) THEN "finished" ELSE request[r].status
           answered(r) == r \in Answerable(data) /\ request[r].status = "waiting"
           next(r) == [request[r] EXCEPT !.got = units(r), !.status = status(r)]
<1>1. ASSUME NEW r \in Requests, answered(r)
      PROVE  /\ data \in Seq(Unit) /\ Len(data) >= CurrentOffset(r)
             /\ units(r) \in Seq(Unit)
  <2>1. data \in Seq(Unit) /\ Len(data) >= CurrentOffset(r) /\ data # Nil
    BY <1>1, NilAssumption DEF Answerable
  <2>2. UnitsFor(r, data) \in Seq(Unit)
    BY <2>1, UnitsGiven
  <2> QED BY <2>1, <2>2 DEF TypeOK, RequestState
<1>2. \A r \in Requests : request'[r] = IF answered(r) THEN next(r) ELSE request[r]
  BY DEF ProcessLoadingRequest
<1>3. \A r \in Requests : request[r] \in RequestState
  BY DEF TypeOK
<1>4. ASSUME NEW r \in Requests, answered(r)
      PROVE  /\ next(r) \in RequestState
             /\ next(r).url = request[r].url /\ next(r).first = request[r].first
             /\ next(r).last = request[r].last /\ next(r).got = units(r)
             /\ next(r).status = status(r)
  <2>1. status(r) \in {"waiting", "finished"}
    BY <1>4
  <2> HIDE DEF units, status, answered
  <2> QED BY <1>1, <1>3, <1>4, <2>1 DEF RequestState
<1>5. kept' = loadingRequests \ Finished(data)
  BY DEF ProcessLoadingRequest
<1>6. ASSUME NEW r \in Requests
      PROVE  r \in Finished(data) => r \in Answerable(data)
  BY DEF Finished
<1>7. kept' \in SUBSET Requests
  BY <1>5 DEF TypeOK
<1>8. request' \in [Requests -> RequestState]
  <2>1. request' = [r \in Requests |-> request'[r]]
    BY DEF ProcessLoadingRequest
  <2>2. \A r \in Requests : request'[r] \in RequestState
    <3> HIDE DEF next, answered
    <3> QED BY <1>2, <1>3, <1>4
  <2> QED BY <2>1, <2>2
<1>9. ASSUME NEW r \in Requests
      PROVE  /\ request'[r].url = request[r].url /\ request'[r].first = request[r].first
             /\ request'[r].last = request[r].last
             /\ request'[r].status = "new" <=> request[r].status = "new"
             /\ request'[r].status = "waiting" =>
                  request[r].status = "waiting" /\ (r \in loadingRequests => r \in kept')
             /\ \/ request'[r].got = request[r].got
                \/ /\ data # Nil /\ Len(data) >= CurrentOffset(r)
                   /\ request[r].status = "waiting"
                   /\ request'[r].got = request[r].got \o UnitsFor(r, data)
             /\ r \in Answerable(data) /\ request[r].status = "waiting"
                  => request'[r].got = request[r].got \o UnitsFor(r, data)
  <2>1. CASE answered(r)
    <3>1. request'[r] = next(r) /\ request[r].status = "waiting"
      BY <1>2, <2>1
    <3>2. status(r) = "finished" \/ (status(r) = "waiting" /\ (r \in loadingRequests => r \in kept'))
      BY <1>5, <3>1
    <3>3. data # Nil
      BY <1>1, <2>1, NilAssumption
    <3> HIDE DEF next, status, answered
    <3> QED BY <1>1, <1>4, <2>1, <3>1, <3>2, <3>3
  <2>2. CASE ~answered(r)
    <3>1. request'[r] = request[r]
      BY <1>2, <2>2
    <3>2. request[r].status = "waiting" => r \notin Finished(data)
      BY <1>6, <2>2
    <3> QED BY <1>5, <2>2, <3>1, <3>2
  <2> QED BY <2>1, <2>2
<1> QED BY <1>7, <1>8, <1>9

\* No request is given more than it asked.
LEMMA ProcessedFits ==
  ASSUME TypeOK, NEW data \in Seq(Unit) \cup {Nil}, ProcessLoadingRequest(data), NEW r \in Requests
  PROVE  CurrentOffset(r)' <= request'[r].last
<1>1. CurrentOffset(r)' = request[r].first + Len(request'[r].got) /\ request'[r].last = request[r].last
  BY Processed DEF CurrentOffset
<1>2. CASE request'[r].got = request[r].got
  BY <1>1, <1>2 DEF TypeOK, CurrentOffset
<1>3. CASE /\ data # Nil /\ Len(data) >= CurrentOffset(r)
           /\ request'[r].got = request[r].got \o UnitsFor(r, data)
  <2>1. /\ UnitsFor(r, data) \in Seq(Unit)
        /\ CurrentOffset(r) + Len(UnitsFor(r, data)) <= request[r].last
    BY <1>3, UnitsGiven
  <2>2. request[r].got \in Seq(Unit) /\ request[r].first \in Nat /\ request[r].last \in Nat
    BY DEF TypeOK, RequestState
  <2>3. Len(request[r].got \o UnitsFor(r, data)) = Len(request[r].got) + Len(UnitsFor(r, data))
    BY <2>1, <2>2
  <2>4. Len(request[r].got) \in Nat /\ Len(UnitsFor(r, data)) \in Nat
    BY <2>1, <2>2, SeqIsFunction
  <2> QED BY <1>1, <1>3, <2>1, <2>2, <2>3, <2>4 DEF CurrentOffset
<1> QED BY <1>2, <1>3, Processed

\* The event in front of the delegate queue.
LEMMA HeadEvent ==
  ASSUME TypeOK, NEW op, NextEvent(op)
  PROVE  /\ events # <<>> /\ Tail(events) \in Seq(Event) /\ Head(events) \in Event
         /\ Head(events).op = op /\ (op = "data" => Head(events).unit \in Unit)
<1>1. events # <<>> /\ Tail(events) \in Seq(Event) /\ Head(events) \in Event /\ Head(events).op = op
  BY TailSeq DEF NextEvent, TypeOK
<1> QED BY <1>1 DEF Event, DataEvent

\* An event is delivered.
LEMMA DeliveredEvent ==
  ASSUME TypeOK, NEW event \in Event, Deliver(event)
  PROVE  events' \in Seq(Event)
BY AppendSeq DEF Deliver, TypeOK

\* The server's side of a task moves on.
LEMMA StatusChanges ==
  ASSUME TypeOK, net.status # "over",
         NEW status \in {"asked", "responded", "allowed", "over", "failed"}
  PROVE  /\ [net EXCEPT !.status = status] \in NetState
         /\ [net EXCEPT !.status = status].status = status
         /\ [net EXCEPT !.status = status].url = net.url
         /\ [net EXCEPT !.status = status].sent = net.sent
<1>1. net \in Download
  BY DEF NoTask, NetState, TypeOK
<1> QED BY <1>1 DEF Download, NetState

LEMMA Types ==
  ASSUME TypeOK, [Next]_vars
  PROVE  TypeOK'
<1> USE SizeAssumption, ReusesAssumption
<1>1. CacheTypes
  BY DEF TypeOK, CacheTypes
<1>2. ASSUME NEW url \in Urls \cup {NoURL}, QueryURL(url) PROVE CacheTypes'
  <2>1. CASE url = NoURL
    BY <1>1, <1>2, <2>1, CacheKeepsTypes DEF QueryURL
  <2>2. CASE url # NoURL
    <3>1. [op |-> "query", path |-> url, epoch |-> 0] \in Job
      BY <2>2, QueryIsJob
    <3> QED BY <1>1, <1>2, <2>2, <3>1, CacheKeepsTypes DEF QueryURL
  <2> QED BY <2>1, <2>2
<1>3. UNCHANGED cacheVars => CacheTypes'
  BY <1>1, CacheKeepsTypes
<1>5. ASSUME NEW url \in Urls \cup {NoURL}, CellForRow(url) PROVE TypeOK'
  <2>1. CacheTypes'
    BY <1>2, <1>5 DEF CellForRow
  <2> QED BY <1>5, <2>1 DEF CellForRow, TypeOK, CacheTypes, CurrentOffset, listVars, cancelVars,
         netVars
<1>6. ASSUME NEW url \in Urls \cup {NoURL}, ReuseCell(url) PROVE TypeOK'
  <2>1. CacheTypes'
    BY <1>2, <1>6 DEF ReuseCell
  <2> QED BY <1>6, <2>1 DEF ReuseCell, TypeOK, CacheTypes, CurrentOffset, listVars, netVars
<1>7. CASE ShowVideo
  <2>1. CacheTypes'
    BY <1>1, <1>7, CacheKeepsTypes DEF ShowVideo
  <2>2. Head(mainQueue) \in Answer
    BY <1>7, TailSeq DEF ShowVideo, Cache!RunAnswer, TypeOK
  <2>3. originalURL' \in Urls /\ item' \in Item
    BY <1>7, <2>2 DEF ShowVideo, Answer, Item
  <2> QED BY <1>7, <2>1, <2>3 DEF ShowVideo, TypeOK, CacheTypes, CurrentOffset, listVars,
         cancelVars, netVars
<1>8. ASSUME NEW r \in Requests, NEW first \in 0 .. Size, NEW last \in 0 .. Size, first < last,
             ShouldWaitForLoading(r, first, last)
      PROVE  TypeOK'
  <2> DEFINE asked == [status |-> "waiting", url |-> item.url, first |-> first, last |-> last,
                       got |-> <<>>]
  <2>1. asked \in RequestState
    BY <1>8 DEF ShouldWaitForLoading, TypeOK, Item, RequestState
  <2>2. request' = [request EXCEPT ![r] = asked] /\ UNCHANGED <<kept, cacheVars>>
        /\ loadingRequests' \subseteq Requests /\ raced' \subseteq Requests
    BY <1>8 DEF ShouldWaitForLoading, ListRequest, TypeOK
  <2>3. asked.first = first /\ asked.last = last /\ asked.got = <<>>
    OBVIOUS
  <2> HIDE DEF asked
  <2>4. request' \in [Requests -> RequestState]
        /\ \A s \in Requests : CurrentOffset(s)' <= request'[s].last
    BY <1>8, <2>1, <2>2, <2>3 DEF TypeOK, CurrentOffset
  <2>5. task' \in Urls \cup {Nil} /\ net' \in NetState
    BY <1>8 DEF ShouldWaitForLoading, NeedsTask, TypeOK, NetState, Download
  <2>6. CacheTypes'
    BY <1>3, <2>2
  <2> QED BY <1>8, <2>2, <2>4, <2>5, <2>6
      DEF ShouldWaitForLoading, TypeOK, CacheTypes, cellVars, cancelVars
<1>9. ASSUME NEW r \in Requests, DidCancel(r) PROVE TypeOK'
  <2>1. request' \in [Requests -> RequestState]
        /\ \A s \in Requests : CurrentOffset(s)' <= request'[s].last
    BY <1>9 DEF DidCancel, TypeOK, CurrentOffset, RequestState
  <2> QED BY <1>9, <2>1 DEF DidCancel, TypeOK, cacheVars, cellVars, cancelVars, netVars
<1>10. CASE Server \/ Disconnection
  <2>1. net \in Download
    BY <1>10 DEF Server, Disconnection, Respond, SendData, EndOfData, NetworkFails, Downloading,
       TypeOK, NetState, NoTask
  <2>2. net' \in NetState
    BY <1>10, <2>1 DEF Server, Disconnection, Respond, SendData, EndOfData, NetworkFails,
       NetState, Download
  <2>3. ASSUME SendData PROVE events' \in Seq(Event)
    <3>1. <<net.url, net.sent + 1>> \in Unit
      BY <2>1, <2>3 DEF SendData, Download, Unit
    <3>2. [op |-> "data", unit |-> <<net.url, net.sent + 1>>] \in Event
      BY <3>1 DEF Event, DataEvent
    <3> QED BY <2>3, <3>2, DeliveredEvent DEF SendData
  <2>4. ASSUME Respond \/ EndOfData \/ NetworkFails PROVE events' \in Seq(Event)
    <3>1. [op |-> "response"] \in Event /\ [op |-> "done"] \in Event /\ [op |-> "error"] \in Event
      BY DEF Event
    <3> QED BY <2>4, <3>1, DeliveredEvent DEF Respond, EndOfData, NetworkFails
  <2>5. events' \in Seq(Event)
    BY <1>10, <2>3, <2>4 DEF Server, Disconnection
  <2> QED BY <1>10, <2>2, <2>5 DEF Server, Disconnection, TypeOK, cacheVars, cellVars, listVars,
         cancelVars, CurrentOffset
<1>11. ASSUME NEW data \in Seq(Unit) \cup {Nil}, ProcessLoadingRequest(data)
       PROVE  /\ request' \in [Requests -> RequestState] /\ kept' \in SUBSET Requests
              /\ \A r \in Requests : CurrentOffset(r)' <= request'[r].last
  BY <1>11, Processed, ProcessedFits
<1>12. CASE DidReceiveResponse
  <2>1. /\ request' \in [Requests -> RequestState] /\ kept' \in SUBSET Requests
        /\ \A r \in Requests : CurrentOffset(r)' <= request'[r].last
    BY <1>11, <1>12 DEF DidReceiveResponse, TypeOK
  <2>2. net' \in NetState
    BY <1>12, StatusChanges DEF DidReceiveResponse, TypeOK
  <2>3. events' \in Seq(Event)
    BY <1>12, HeadEvent DEF DidReceiveResponse
  <2> QED BY <1>12, <2>1, <2>2, <2>3 DEF DidReceiveResponse, TypeOK, cacheVars, cellVars, cancelVars
<1>13. CASE DidReceiveData
  <2>1. events' \in Seq(Event) /\ Head(events).unit \in Unit
    BY <1>13, HeadEvent DEF DidReceiveData
  <2>2. videoData' \in Seq(Unit) \cup {Nil}
    BY <1>13, <2>1, AppendSeq DEF DidReceiveData, TypeOK
  <2>3. /\ request' \in [Requests -> RequestState] /\ kept' \in SUBSET Requests
        /\ \A r \in Requests : CurrentOffset(r)' <= request'[r].last
    BY <1>11, <1>13, <2>2 DEF DidReceiveData
  <2> QED BY <1>13, <2>1, <2>2, <2>3 DEF DidReceiveData, TypeOK, cacheVars, cellVars, cancelVars
<1>14. CASE DidComplete
  <2>1. [op |-> "store", path |-> originalURL, data |-> videoData, epoch |-> 0] \in Job
    BY <1>14 DEF DidComplete, TypeOK, Job, StoreJob
  <2>2. CacheTypes'
    BY <1>1, <1>14, <2>1, CacheKeepsTypes DEF DidComplete
  <2>3. events' \in Seq(Event)
    BY <1>14, HeadEvent DEF DidComplete
  <2> QED BY <1>14, <2>2, <2>3 DEF DidComplete, TypeOK, CacheTypes, CurrentOffset, cellVars, listVars,
         cancelVars
<1>15. CASE DidCompleteWithError
  <2>1. events' \in Seq(Event)
    BY <1>15, HeadEvent DEF DidCompleteWithError
  <2> QED BY <1>15, <2>1 DEF DidCompleteWithError, TypeOK, CurrentOffset, cacheVars, cellVars, listVars,
         cancelVars
<1>16. CASE AssignFilter
  BY <1>16 DEF AssignFilter, TypeOK, CurrentOffset, cacheVars, cellVars, cancelVars, netVars
<1>17. CASE InvalidateSession
  <2>1. net' \in NetState
    BY <1>17, StatusChanges DEF InvalidateSession, TypeOK, Downloading, netVars
  <2>2. events' \in Seq(Event)
    <3>1. [op |-> "error"] \in Event
      BY DEF Event
    <3> QED BY <1>17, <3>1, DeliveredEvent DEF InvalidateSession, TypeOK, netVars
  <2>3. session' \in {"open", "invalid", "none"} /\ cancelStep' = "forget"
    BY <1>17 DEF InvalidateSession
  <2> QED BY <1>17, <2>1, <2>2, <2>3 DEF InvalidateSession, TypeOK, CurrentOffset, cacheVars, cellVars,
         listVars
<1>18. CASE ForgetSession
  BY <1>18 DEF ForgetSession, TypeOK, CurrentOffset, cacheVars, cellVars, listVars, netVars
<1>19. CASE ForgetTask
  BY <1>19 DEF ForgetTask, TypeOK, CurrentOffset, cacheVars, cellVars, listVars, netVars
<1>20. CASE FinishRequests
  <2>1. request' \in [Requests -> RequestState]
        /\ \A s \in Requests : CurrentOffset(s)' <= request'[s].last
    BY <1>20 DEF FinishRequests, TypeOK, CurrentOffset, RequestState
  <2> QED BY <1>20, <2>1 DEF FinishRequests, TypeOK, cacheVars, cellVars, netVars
<1>21. CASE RemoveRequests
  BY <1>21 DEF RemoveRequests, CancelAt, TypeOK, CurrentOffset, cacheVars, cellVars, netVars
<1>22. CASE CacheWorks
  <2>1. CacheTypes'
    BY <1>1, <1>22, CacheKeepsTypes DEF CacheWorks
  <2> QED BY <1>22, <2>1 DEF CacheWorks, TypeOK, CacheTypes, CurrentOffset, cellVars, listVars,
         cancelVars, netVars
<1>23. CASE EndProcess
  <2>1. CacheTypes'
    BY <1>1, <1>23, CacheKeepsTypes DEF EndProcess
  <2>2. Idle \in RequestState /\ Idle.first = 0 /\ Idle.got = <<>> /\ Idle.last = 0
    BY DEF Idle, RequestState
  <2>3. request' = [r \in Requests |-> Idle]
    BY <1>23 DEF EndProcess
  <2>4. request' \in [Requests -> RequestState]
        /\ \A r \in Requests : CurrentOffset(r)' <= request'[r].last
    BY <2>2, <2>3 DEF CurrentOffset
  <2>5. net' \in NetState
    BY <1>23 DEF EndProcess, NetState
  <2> QED BY <1>23, <2>1, <2>4, <2>5 DEF EndProcess, TypeOK, CacheTypes
<1>24. CASE UNCHANGED vars
  BY <1>24 DEF vars, TypeOK, CurrentOffset, cacheVars, cellVars, listVars, cancelVars, netVars
<1> QED
  BY Steps, <1>5, <1>6, <1>7, <1>8, <1>9, <1>10, <1>12, <1>13, <1>14, <1>15, <1>16, <1>17,
     <1>18, <1>19, <1>20, <1>21, <1>22, <1>23, <1>24

-----------------------------------------------------------------------------
\* The download.

LEMMA OneDownloadKept ==
  ASSUME TypeOK, OneDownload, [Next]_vars
  PROVE  OneDownload'
<1>1. ASSUME UNCHANGED <<session, cancelStep, task, net, events, videoData>>,
             reuses' = reuses \/ reuses' = reuses + 1
      PROVE  OneDownload'
  BY <1>1 DEF OneDownload, TypeOK
<1>2. CASE \/ \E url \in Urls \cup {NoURL} : CellForRow(url) \/ ReuseCell(url)
           \/ ShowVideo \/ (\E r \in Requests : DidCancel(r)) \/ AssignFilter \/ CacheWorks
           \/ UNCHANGED vars
  <2>1. UNCHANGED <<session, cancelStep, task, net, events, videoData>>
        /\ (reuses' = reuses \/ reuses' = reuses + 1)
    BY <1>2 DEF CellForRow, ReuseCell, ShowVideo, DidCancel, AssignFilter, CacheWorks, vars,
       cancelVars, netVars
  <2> QED BY <1>1, <2>1
<1>3. ASSUME NEW r \in Requests, NEW first, NEW last, ShouldWaitForLoading(r, first, last)
      PROVE  OneDownload'
  <2>1. UNCHANGED <<session, cancelStep, events, videoData, reuses>>
    BY <1>3 DEF ShouldWaitForLoading, cancelVars
  <2>2. task' # Nil \/ UNCHANGED <<task, net>>
    BY <1>3 DEF ShouldWaitForLoading, NeedsTask
  <2> QED BY <2>1, <2>2 DEF OneDownload
<1>4. CASE Server \/ Disconnection
  <2>1. net # NoTask /\ UNCHANGED <<session, cancelStep, task, videoData, reuses>>
    BY <1>4 DEF Server, Disconnection, Respond, SendData, EndOfData, NetworkFails, Downloading, NoTask,
       cancelVars
  <2> QED BY <2>1 DEF OneDownload
<1>5. CASE DidReceiveResponse \/ DidReceiveData \/ DidComplete \/ DidCompleteWithError
  <2>1. events # <<>> /\ UNCHANGED <<session, cancelStep, task, reuses>>
    BY <1>5 DEF DidReceiveResponse, DidReceiveData, DidComplete, DidCompleteWithError, NextEvent,
       cancelVars
  <2>2. videoData' = Nil => videoData = Nil
    <3>1. CASE DidReceiveData
      <4>1. Head(events).unit \in Unit
        BY <3>1, HeadEvent DEF DidReceiveData
      <4>2. videoData # Nil => Append(videoData, Head(events).unit) \in Seq(Unit)
        BY <4>1, AppendSeq DEF TypeOK
      <4> QED BY <3>1, <4>2, NilAssumption DEF DidReceiveData
    <3> QED BY <1>5, <3>1 DEF DidReceiveResponse, DidComplete, DidCompleteWithError
  <2> QED BY <2>1, <2>2 DEF OneDownload
<1>6. CASE InvalidateSession
  <2>1. /\ cancels > 0 /\ cancelStep' = "forget" /\ session' \in {"none", "invalid"}
        /\ session' = "invalid" \/ session = "none"
        /\ UNCHANGED <<videoData, reuses>>
    BY <1>6 DEF InvalidateSession, CancelAt
  <2>2. videoData' = Nil => session' = "none"
    BY <1>6, <2>1 DEF InvalidateSession, OneDownload
  <2>3. reuses # 0
    BY <2>1 DEF TypeOK
  <2> QED BY <2>1, <2>2, <2>3 DEF OneDownload
<1>7. CASE ForgetSession \/ ForgetTask \/ FinishRequests \/ RemoveRequests
  <2>1. /\ cancels > 0 /\ reuses' = reuses
        /\ session' = "none" \/ (session' = session /\ cancelStep \in {"task", "finish", "remove"})
    BY <1>7 DEF ForgetSession, ForgetTask, FinishRequests, RemoveRequests, CancelAt
  <2>2. session' = "none"
    BY <2>1 DEF OneDownload, TypeOK
  <2>3. reuses # 0
    BY <2>1 DEF TypeOK
  <2> QED BY <2>1, <2>2, <2>3 DEF OneDownload
<1>8. CASE EndProcess
  <2>1. videoData' # Nil
    <3>1. <<>> \in Seq(Unit)
      OBVIOUS
    <3> QED BY <1>8, <3>1, NilAssumption DEF EndProcess
  <2> QED BY <1>8, <2>1 DEF EndProcess, OneDownload
<1> QED BY Steps, <1>2, <1>3, <1>4, <1>5, <1>6, <1>7, <1>8

\* While the download goes on its end is not on the queue.
LEMMA NoEndYet ==
  ASSUME TypeOK, StreamOK, videoData # Nil, Downloading
  PROVE  \A i \in DOMAIN events : events[i].op \in {"response", "data"}
BY DEF StreamOK, Downloading

\* What the next lemmas need of the types.
LEMMA StreamTypes ==
  ASSUME TypeOK, videoData # Nil
  PROVE  /\ videoData \in Seq(Unit) /\ Len(videoData) \in Nat
         /\ DOMAIN videoData = 1 .. Len(videoData)
         /\ events \in Seq(Event) /\ Len(events) \in Nat /\ DOMAIN events = 1 .. Len(events)
         /\ net.sent \in 0 .. Size
<1>1. videoData \in Seq(Unit) /\ events \in Seq(Event)
  BY DEF TypeOK
<1>2. net.sent \in 0 .. Size
  BY SizeAssumption DEF TypeOK, NetState, Download, NoTask
<1> QED BY <1>1, <1>2, SeqIsFunction

\* The connection or the session ends the download.
LEMMA EndsInError ==
  ASSUME TypeOK, StreamOK, Downloading, videoData' = videoData,
         net' = [net EXCEPT !.status = "failed"], Deliver([op |-> "error"])
  PROVE  StreamOK'
<1> SUFFICES ASSUME videoData # Nil PROVE StreamOK'
  BY DEF StreamOK
<1>1. net'.url = net.url /\ net'.sent = net.sent /\ net'.status = "failed"
  BY StatusChanges DEF Downloading
<1>2. [op |-> "error"] \in Event /\ events' = Append(events, [op |-> "error"])
  BY DEF Event, Deliver
<1>3. /\ DOMAIN events' = DOMAIN events \cup {Len(events) + 1}
      /\ events'[Len(events) + 1].op = "error" /\ Len(events') = Len(events) + 1
      /\ \A i \in DOMAIN events : events'[i] = events[i]
  BY <1>2, StreamTypes, AppendSeq
<1>4. ASSUME NEW i \in DOMAIN events' PROVE Continues(i)'
  <2>1. CASE i \in DOMAIN events
    <3>1. events[i].op # "error" /\ Continues(i)
      BY <2>1, NoEndYet DEF StreamOK
    <3> QED BY <1>1, <1>3, <2>1, <3>1 DEF Continues
  <2>2. CASE i = Len(events) + 1
    BY <1>3, <2>2 DEF Continues
  <2> QED BY <1>3, <2>1, <2>2
<1> QED BY <1>1, <1>4 DEF StreamOK

\* The queue has been served one event: the places move up.
LEMMA PlacesMoveUp ==
  ASSUME TypeOK, videoData # Nil, NEW op, NextEvent(op)
  PROVE  /\ 1 \in DOMAIN events /\ events[1].op = op /\ events[1] = Head(events)
         /\ \A i \in DOMAIN Tail(events) :
              i \in Nat \ {0} /\ i + 1 \in DOMAIN events /\ Tail(events)[i] = events[i + 1]
         /\ Len(Tail(events)) = Len(events) - 1
         /\ DOMAIN Tail(events) = 1 .. Len(Tail(events))
<1>1. events \in Seq(Event) /\ events # <<>> /\ Head(events).op = op
  BY DEF TypeOK, NextEvent
<1>2. /\ Tail(events) \in Seq(Event) /\ Len(Tail(events)) = Len(events) - 1
      /\ 1 \in DOMAIN events /\ Head(events) = events[1]
      /\ \A i \in DOMAIN Tail(events) : i + 1 \in DOMAIN events /\ Tail(events)[i] = events[i + 1]
  BY <1>1, TailSeq
<1>3. DOMAIN Tail(events) = 1 .. Len(Tail(events))
  BY <1>2, SeqIsFunction
<1> QED BY <1>1, <1>2, <1>3

LEMMA ServerKeepsStream ==
  ASSUME TypeOK, StreamOK, Server
  PROVE  StreamOK'
<1> SUFFICES ASSUME videoData # Nil PROVE StreamOK'
  BY DEF Server, StreamOK
<1> USE SizeAssumption
<1>1. videoData' = videoData /\ net.status # "over"
  BY DEF Server, Respond, SendData, EndOfData
<1>2. CASE Respond
  <2>1. net'.url = net.url /\ net'.sent = net.sent /\ net'.status = "responded"
    BY <1>1, <1>2, StatusChanges DEF Respond
  <2>2. events = <<>> /\ net.sent = 0
    BY <1>2 DEF Respond, StreamOK
  <2>3. events' = <<[op |-> "response"]>>
    BY <1>2, <2>2 DEF Respond, Deliver
  <2>4. Len(events') = 1 /\ DOMAIN events' = {1} /\ events'[1].op = "response"
    BY <2>3
  <2>5. \A i \in DOMAIN events' : Continues(i)'
    BY <2>1, <2>2, <2>4 DEF Continues
  <2> QED BY <1>1, <2>1, <2>2, <2>4, <2>5 DEF StreamOK
<1>3. CASE SendData
  <2> DEFINE event == [op |-> "data", unit |-> <<net.url, net.sent + 1>>]
  <2>1. net \in Download
    BY <1>1 DEF TypeOK, NetState, NoTask
  <2>2. net'.url = net.url /\ net'.sent = net.sent + 1 /\ net'.status = "allowed"
    BY <1>3, <2>1 DEF SendData, Download
  <2>3. event \in Event
    <3>1. <<net.url, net.sent + 1>> \in Unit
      BY <1>3, <2>1 DEF SendData, Download, Unit
    <3> QED BY <3>1 DEF Event, DataEvent
  <2>4. event.op = "data" /\ event.unit = <<net.url, net.sent + 1>> /\ events' = Append(events, event)
    BY <1>3 DEF SendData, Deliver
  <2> HIDE DEF event
  <2>5. /\ DOMAIN events' = DOMAIN events \cup {Len(events) + 1}
        /\ events'[Len(events) + 1] = event /\ Len(events') = Len(events) + 1
        /\ \A i \in DOMAIN events : events'[i] = events[i]
    BY <2>3, <2>4, StreamTypes, AppendSeq
  <2>6. /\ Len(events) = net.sent - Len(videoData)
        /\ \A i \in DOMAIN events : events[i].op = "data" /\ Continues(i)
    BY <1>3 DEF SendData, StreamOK
  <2>7. ASSUME NEW i \in DOMAIN events' PROVE Continues(i)' /\ events'[i].op = "data"
    <3>1. CASE i \in DOMAIN events
      BY <1>1, <2>2, <2>5, <2>6, <3>1, StreamTypes DEF Continues
    <3>2. CASE i = Len(events) + 1
      BY <1>1, <2>2, <2>4, <2>5, <2>6, <3>2, StreamTypes DEF Continues
    <3> QED BY <2>5, <3>1, <3>2
  <2>8. Len(events') = net'.sent - Len(videoData')
    BY <1>1, <2>2, <2>5, <2>6, StreamTypes
  <2>9. Len(videoData') <= net'.sent /\ \A i \in DOMAIN videoData' : videoData'[i] = <<net'.url, i>>
    BY <1>1, <2>2, StreamTypes DEF StreamOK
  <2> QED BY <2>2, <2>7, <2>8, <2>9 DEF StreamOK
<1>4. CASE EndOfData
  <2>1. net'.url = net.url /\ net'.sent = net.sent /\ net'.status = "over"
    BY <1>1, <1>4, StatusChanges DEF EndOfData
  <2>2. [op |-> "done"] \in Event /\ events' = Append(events, [op |-> "done"])
    BY <1>4 DEF Event, EndOfData, Deliver
  <2>3. /\ DOMAIN events' = DOMAIN events \cup {Len(events) + 1}
        /\ events'[Len(events) + 1].op = "done" /\ Len(events') = Len(events) + 1
        /\ \A i \in DOMAIN events : events'[i] = events[i]
    BY <2>2, StreamTypes, AppendSeq
  <2>4. /\ Len(events) = Size - Len(videoData) /\ net.sent = Size
        /\ \A i \in DOMAIN events : events[i].op = "data" /\ Continues(i)
    BY <1>4 DEF EndOfData, StreamOK
  <2>5. ASSUME NEW i \in DOMAIN events' PROVE Continues(i)'
    <3>1. CASE i \in DOMAIN events
      BY <1>1, <2>1, <2>3, <2>4, <3>1, StreamTypes DEF Continues
    <3>2. CASE i = Len(events) + 1
      BY <1>1, <2>1, <2>3, <2>4, <3>2, StreamTypes DEF Continues
    <3> QED BY <2>3, <3>1, <3>2
  <2> QED BY <1>1, <2>1, <2>5 DEF StreamOK
<1> QED BY <1>2, <1>3, <1>4 DEF Server

LEMMA DelegateKeepsStream ==
  ASSUME TypeOK, StreamOK,
         DidReceiveResponse \/ DidReceiveData \/ DidComplete \/ DidCompleteWithError
  PROVE  StreamOK'
<1> USE SizeAssumption
<1>1. CASE videoData = Nil
  BY <1>1 DEF DidReceiveResponse, DidReceiveData, DidComplete, DidCompleteWithError, StreamOK
<1> SUFFICES ASSUME videoData # Nil PROVE StreamOK'
  BY <1>1
<1>6. Len(videoData) \in Nat /\ Len(events) \in Nat
  BY StreamTypes
<1>2. CASE DidReceiveResponse
  <2>1. /\ NextEvent("response") /\ events' = Tail(events) /\ videoData' = videoData
        /\ net' = IF net.status = "responded" THEN [net EXCEPT !.status = "allowed"] ELSE net
    BY <1>2 DEF DidReceiveResponse
  <2>2. /\ net'.url = net.url /\ net'.sent = net.sent
        /\ net'.status = IF net.status = "responded" THEN "allowed" ELSE net.status
    BY <2>1, StatusChanges
  <2>3. net.sent = 0 /\ Len(videoData) = 0
    BY <2>1, PlacesMoveUp, StreamTypes DEF StreamOK, Continues
  <2>4. ASSUME NEW i \in DOMAIN events' PROVE Continues(i)'
    <3>1. Continues(i + 1) /\ events'[i] = events[i + 1] /\ Len(events') = Len(events) - 1
          /\ i \in Nat \ {0}
      BY <2>1, <2>4, PlacesMoveUp DEF StreamOK
    <3>2. events[i + 1].op \notin {"response", "data", "done"}
      BY <2>3, <3>1 DEF Continues
    <3>3. i + 1 = Len(events) <=> i = Len(events')
      BY <3>1, StreamTypes
    <3> QED BY <3>1, <3>2, <3>3 DEF Continues
  <2>5. net'.status = "allowed" => Len(events') = 0 /\ DOMAIN events' = {}
    <3>1. net.status = "allowed" => events[1].op = "data"
      BY <2>1, PlacesMoveUp DEF StreamOK
    <3>2. net.status = "responded" => Len(events) = 1
      BY DEF StreamOK
    <3> QED BY <2>1, <2>2, <3>1, <3>2, PlacesMoveUp
  <2>6. net'.status \notin {"asked", "responded"}
    BY <2>1, <2>2 DEF StreamOK, NextEvent
  <2>7. /\ videoData' = videoData /\ Len(videoData') <= net'.sent
        /\ Len(videoData') = 0 /\ net'.sent = 0
        /\ \A i \in DOMAIN videoData' : videoData'[i] = <<net'.url, i>>
    BY <2>1, <2>2, <2>3 DEF StreamOK
  <2> QED BY <2>4, <2>5, <2>6, <2>7 DEF StreamOK
<1>3. CASE DidReceiveData
  <2>1. /\ NextEvent("data") /\ events' = Tail(events) /\ net' = net
        /\ videoData' = Append(videoData, Head(events).unit) /\ Head(events).unit \in Unit
    BY <1>3, HeadEvent DEF DidReceiveData
  <2>2. Head(events).unit = <<net.url, Len(videoData) + 1>> /\ Len(videoData) + 1 <= net.sent
    BY <2>1, PlacesMoveUp DEF StreamOK, Continues
  <2>3. /\ Len(videoData') = Len(videoData) + 1
        /\ DOMAIN videoData' = DOMAIN videoData \cup {Len(videoData) + 1}
        /\ videoData'[Len(videoData) + 1] = Head(events).unit
        /\ \A i \in DOMAIN videoData : videoData'[i] = videoData[i]
    BY <2>1, StreamTypes, AppendSeq
  <2>4. \A i \in DOMAIN videoData' : videoData'[i] = <<net'.url, i>>
    BY <2>1, <2>2, <2>3 DEF StreamOK
  <2>5. ASSUME NEW i \in DOMAIN events' PROVE Continues(i)'
    <3>1. Continues(i + 1) /\ events'[i] = events[i + 1] /\ Len(events') = Len(events) - 1
          /\ i \in Nat \ {0}
      BY <2>1, <2>5, PlacesMoveUp DEF StreamOK
    <3>2. Len(videoData') + i = Len(videoData) + (i + 1) /\ i + 1 # 1
      BY <1>6, <2>3, <3>1
    <3>3. i + 1 = Len(events) <=> i = Len(events')
      BY <1>6, <3>1
    <3> QED BY <2>1, <3>1, <3>2, <3>3 DEF Continues
  <2>6. net.status \notin {"asked", "responded"}
    BY <2>1, PlacesMoveUp DEF NextEvent, StreamOK
  <2>7. net.status = "allowed" => /\ Len(events') = net.sent - Len(videoData')
                                  /\ \A i \in DOMAIN events' : events'[i].op = "data"
    BY <2>1, <2>3, PlacesMoveUp, StreamTypes DEF StreamOK
  <2> QED BY <2>1, <2>2, <2>3, <2>4, <2>5, <2>6, <2>7 DEF StreamOK
<1>4. CASE DidComplete
  <2>1. NextEvent("done") /\ events' = Tail(events) /\ net' = net /\ videoData' = videoData
    BY <1>4 DEF DidComplete
  <2>2. Len(videoData) = Size /\ net.sent = Size
    <3>1. Continues(1) /\ events[1].op = "done"
      BY <2>1, PlacesMoveUp DEF StreamOK
    <3>2. Len(videoData) + 1 = Size + 1 /\ net.sent = Size
      BY <3>1 DEF Continues
    <3> QED BY <1>6, <3>2
  <2>3. ASSUME NEW i \in DOMAIN events' PROVE Continues(i)'
    <3>1. Continues(i + 1) /\ events'[i] = events[i + 1] /\ Len(events') = Len(events) - 1
          /\ i \in Nat \ {0}
      BY <2>1, <2>3, PlacesMoveUp DEF StreamOK
    <3>2. events[i + 1].op \notin {"response", "data", "done"}
      BY <2>2, <3>1 DEF Continues
    <3>3. i + 1 = Len(events) <=> i = Len(events')
      BY <3>1, StreamTypes
    <3> QED BY <3>1, <3>2, <3>3 DEF Continues
  <2>4. net.status \notin {"asked", "responded", "allowed"}
    BY <2>1, PlacesMoveUp DEF NextEvent, StreamOK
  <2> QED BY <2>1, <2>3, <2>4 DEF StreamOK
<1>5. CASE DidCompleteWithError
  <2>1. NextEvent("error") /\ events' = Tail(events) /\ net' = net /\ videoData' = videoData
    BY <1>5 DEF DidCompleteWithError
  <2>2. Len(events) = 1
    BY <2>1, PlacesMoveUp, StreamTypes DEF StreamOK, Continues
  <2>3. DOMAIN events' = {}
    BY <2>1, <2>2, PlacesMoveUp, StreamTypes
  <2>4. net.status \notin {"asked", "responded", "allowed"}
    BY <2>1, PlacesMoveUp DEF NextEvent, StreamOK
  <2> QED BY <2>1, <2>3, <2>4 DEF StreamOK
<1> QED BY <1>2, <1>3, <1>4, <1>5

LEMMA StreamKept ==
  ASSUME TypeOK, OneDownload, StreamOK, [Next]_vars
  PROVE  StreamOK'
<1> USE SizeAssumption
<1>1. ASSUME UNCHANGED <<videoData, net, events>> PROVE StreamOK'
  BY <1>1 DEF StreamOK, Continues
<1>2. CASE \/ \E url \in Urls \cup {NoURL} : CellForRow(url) \/ ReuseCell(url)
           \/ ShowVideo \/ (\E r \in Requests : DidCancel(r)) \/ AssignFilter \/ CacheWorks
           \/ ForgetSession \/ FinishRequests \/ RemoveRequests \/ UNCHANGED vars
  <2>1. UNCHANGED <<videoData, net, events>>
    BY <1>2 DEF CellForRow, ReuseCell, ShowVideo, DidCancel, AssignFilter, CacheWorks, ForgetSession,
       FinishRequests, RemoveRequests, vars, netVars
  <2> QED BY <1>1, <2>1
<1>3. ASSUME NEW r \in Requests, NEW first, NEW last, ShouldWaitForLoading(r, first, last)
      PROVE  StreamOK'
  <2>1. CASE UNCHANGED net
    BY <1>1, <1>3, <2>1 DEF ShouldWaitForLoading
  <2>2. CASE NeedsTask /\ session = "open"
             /\ net' = [url |-> originalURL, sent |-> 0, status |-> "asked"]
    <3>1. videoData' = <<>> /\ events' = <<>>
      BY <1>3, <2>2 DEF ShouldWaitForLoading, NeedsTask, OneDownload
    <3> QED BY <2>2, <3>1 DEF StreamOK
  <2> QED BY <1>3, <2>1, <2>2 DEF ShouldWaitForLoading
<1>4. CASE Server
  BY <1>4, ServerKeepsStream
<1>5. CASE Disconnection
  BY <1>5, EndsInError DEF Disconnection, NetworkFails
<1>6. CASE DidReceiveResponse \/ DidReceiveData \/ DidComplete \/ DidCompleteWithError
  BY <1>6, DelegateKeepsStream
<1>7. CASE InvalidateSession
  BY <1>1, <1>7, EndsInError DEF InvalidateSession, netVars
<1>8. CASE ForgetTask
  BY <1>8 DEF ForgetTask, StreamOK
<1>9. CASE EndProcess
  BY <1>9 DEF EndProcess, StreamOK, NoTask
<1> QED BY Steps, <1>2, <1>3, <1>4, <1>5, <1>6, <1>7, <1>8, <1>9

\* A download that is complete is a whole video.
LEMMA WholeAtTheEnd ==
  ASSUME TypeOK, StreamOK, NextEvent("done"), videoData # Nil
  PROVE  net.url \in Urls /\ videoData = Whole(net.url)
<1> USE SizeAssumption
<1>1. Continues(1) /\ events[1].op = "done"
  BY PlacesMoveUp DEF StreamOK
<1>2. Len(videoData) + 1 = Size + 1
  BY <1>1 DEF Continues
<1>8. /\ Len(videoData) \in Nat /\ videoData \in Seq(Unit)
      /\ DOMAIN videoData = 1 .. Len(videoData)
  BY StreamTypes
<1>9. Len(videoData) = Size
  <2>1. Len(videoData) \in Nat
    BY StreamTypes
  <2> QED BY <1>2, <2>1
<1>3. videoData \in [1 .. Size -> Unit]
  BY <1>8, <1>9
<1>4. \A i \in 1 .. Size : videoData[i] = <<net.url, i>>
  BY <1>3 DEF StreamOK
<1>5. videoData[1] \in Unit /\ videoData[1] = <<net.url, 1>>
  BY <1>3, <1>4
<1>6. net.url \in Urls
  BY <1>5 DEF Unit
<1>7. videoData = [i \in 1 .. Size |-> <<net.url, i>>]
  <2>1. videoData = [i \in 1 .. Size |-> videoData[i]]
    BY <1>3
  <2> QED BY <1>4, <2>1
<1> QED BY <1>6, <1>7 DEF Whole

-----------------------------------------------------------------------------
\* What is stored.

LEMMA StoresKept ==
  ASSUME TypeOK, StreamOK, StoresWhole, StoredWhole, [Next]_vars
  PROVE  StoresWhole' /\ StoredWhole'
<1> DEFINE WholeJob(job) ==
             job.op = "store" => job.data = Nil \/ \E url \in Urls : job.data = Whole(url)
<1>1. ASSUME NEW job \in Job, WholeJob(job), requests' = Append(requests, job) PROVE StoresWhole'
  <2>1. /\ DOMAIN requests' = DOMAIN requests \cup {Len(requests) + 1}
        /\ requests'[Len(requests) + 1] = job
        /\ \A i \in DOMAIN requests : requests'[i] = requests[i]
    BY <1>1, AppendSeq DEF TypeOK
  <2> QED BY <1>1, <2>1 DEF StoresWhole
<1>2. ASSUME NEW url \in Urls \cup {NoURL}, QueryURL(url) PROVE StoresWhole' /\ StoredWhole'
  <2>1. CASE UNCHANGED cacheVars
    BY <2>1 DEF cacheVars, StoresWhole, StoredWhole
  <2>2. CASE url # NoURL
    <3> DEFINE job == [op |-> "query", path |-> url, epoch |-> 0]
    <3>1. job \in Job /\ job.op # "store"
      BY <2>2, QueryIsJob
    <3>2. requests' = Append(requests, job) /\ files' = files
      BY <1>2, <2>2 DEF QueryURL, Cache!Ask
    <3> HIDE DEF job
    <3> QED BY <1>1, <3>1, <3>2 DEF StoredWhole
  <2> QED BY <1>2, <2>1, <2>2 DEF QueryURL
<1>3. CASE \E url \in Urls \cup {NoURL} : CellForRow(url) \/ ReuseCell(url)
  BY <1>2, <1>3 DEF CellForRow, ReuseCell
<1>4. CASE DidComplete
  <2> DEFINE job == [op |-> "store", path |-> originalURL, data |-> videoData, epoch |-> 0]
  <2>1. job \in Job
    BY <1>4 DEF DidComplete, TypeOK, Job, StoreJob
  <2>2. WholeJob(job)
    BY <1>4, WholeAtTheEnd DEF DidComplete
  <2>3. requests' = Append(requests, job) /\ files' = files
    BY <1>4 DEF DidComplete, Cache!Ask
  <2> HIDE DEF job
  <2> QED BY <1>1, <2>1, <2>2, <2>3 DEF StoredWhole
<1>5. ASSUME requests # <<>>, requests' = Tail(requests) PROVE StoresWhole'
  BY <1>5, TailSeq DEF TypeOK, StoresWhole
<1>6. CASE CacheWorks
  <2>1. CASE Cache!ServeStore
    <3>1. /\ requests # <<>> /\ requests' = Tail(requests) /\ Head(requests).op = "store"
          /\ Head(requests) = requests[1] /\ 1 \in DOMAIN requests
      BY <2>1, TailSeq DEF Cache!ServeStore, Cache!Serving, TypeOK
    <3>2. WholeJob(requests[1])
      BY <3>1 DEF StoresWhole
    <3> DEFINE contents == Cache!FileContents(Head(requests).data)
    <3>3. contents = Empty \/ \E url \in Urls : contents = Whole(url)
      BY <3>1, <3>2 DEF Cache!FileContents
    <3>4. CASE files' = files
      BY <1>5, <3>1, <3>4 DEF StoredWhole
    <3>5. CASE files' = Cache!Put(files, Head(requests).path, contents)
      <4> HIDE DEF contents
      <4>1. \A path \in DOMAIN files' :
              files'[path] = contents \/ (path \in DOMAIN files /\ files'[path] = files[path])
        BY <3>5 DEF Cache!Put
      <4>2. StoredWhole'
        BY <3>3, <4>1 DEF StoredWhole
      <4> QED BY <1>5, <3>1, <4>2
    <3> QED BY <2>1, <3>4, <3>5 DEF Cache!ServeStore
  <2>2. CASE Cache!ServeQuery
    BY <1>5, <2>2 DEF Cache!ServeQuery, Cache!Serving, StoredWhole
  <2> QED BY <1>6, <2>1, <2>2 DEF CacheWorks
<1>7. CASE EndProcess
  BY <1>7 DEF EndProcess, Cache!Restart, StoresWhole, StoredWhole
<1>8. ASSUME UNCHANGED <<requests, files>> PROVE StoresWhole' /\ StoredWhole'
  BY <1>8 DEF StoresWhole, StoredWhole
<1>9. CASE \/ ShowVideo
           \/ \E r \in Requests, first \in 0 .. Size, last \in 0 .. Size :
                first < last /\ ShouldWaitForLoading(r, first, last)
           \/ (\E r \in Requests : DidCancel(r)) \/ Server \/ Disconnection
           \/ DidReceiveResponse \/ DidReceiveData \/ DidCompleteWithError \/ AssignFilter
           \/ InvalidateSession \/ ForgetSession \/ ForgetTask \/ FinishRequests \/ RemoveRequests
           \/ UNCHANGED vars
  <2>1. UNCHANGED <<requests, files>>
    BY <1>9 DEF ShowVideo, Cache!RunAnswer, ShouldWaitForLoading, DidCancel, Server, Disconnection,
       DidReceiveResponse, DidReceiveData, DidCompleteWithError, AssignFilter, InvalidateSession,
       ForgetSession, ForgetTask, FinishRequests, RemoveRequests, vars, cacheVars
  <2> QED BY <1>8, <2>1
<1> QED BY Steps, <1>3, <1>4, <1>6, <1>7, <1>9

-----------------------------------------------------------------------------
\* The post the cell shows.

\* A query that is asked is the only one pending, and main waits.
LEMMA AskedQuery ==
  ASSUME TypeOK, NEW url \in Urls, MainIsFree,
         Cache!Ask([op |-> "query", path |-> url, epoch |-> 0])
  PROVE  /\ ~MainIsFree' /\ UNCHANGED <<files, mainQueue>>
         /\ \A i \in DOMAIN requests' : requests'[i].op = "query" => requests'[i].path = url
<1> DEFINE job == [op |-> "query", path |-> url, epoch |-> 0]
<1>1. job \in Job /\ job.op = "query" /\ job.path = url
  BY QueryIsJob
<1>2. requests' = Append(requests, job) /\ UNCHANGED <<files, mainQueue>>
  BY DEF Cache!Ask
<1> HIDE DEF job
<1>3. /\ DOMAIN requests' = DOMAIN requests \cup {Len(requests) + 1}
      /\ requests'[Len(requests) + 1] = job
      /\ \A i \in DOMAIN requests : requests'[i] = requests[i]
  BY <1>1, <1>2, AppendSeq DEF TypeOK
<1>4. \A i \in DOMAIN requests : requests[i].op # "query"
  BY DEF MainIsFree, Cache!QueryPending
<1> QED BY <1>1, <1>2, <1>3, <1>4 DEF MainIsFree, Cache!QueryPending

\* Main's turn of a new post.
LEMMA NewPost ==
  ASSUME TypeOK, NEW url \in Urls \cup {NoURL}, MainIsFree, QueryURL(url), post' = url
  PROVE  LastAnswer'
<1>1. CASE url = NoURL
  <2>1. requests' = requests /\ \A i \in DOMAIN requests : requests[i].op # "query"
    BY <1>1 DEF QueryURL, cacheVars, MainIsFree, Cache!QueryPending
  <2>2. post' \notin Urls
    BY <1>1, NilAssumption
  <2> QED BY <2>1, <2>2 DEF LastAnswer
<1>2. CASE url # NoURL
  BY <1>2, AskedQuery DEF QueryURL, LastAnswer
<1> QED BY <1>1, <1>2

LEMMA LastAnswerKept ==
  ASSUME TypeOK, LastAnswer, [Next]_vars
  PROVE  LastAnswer'
<1>1. CASE \E url \in Urls \cup {NoURL} : CellForRow(url) \/ ReuseCell(url)
  BY <1>1, NewPost DEF CellForRow, ReuseCell
<1>2. CASE ShowVideo
  <2>1. /\ ~Cache!QueryPending /\ mainQueue # <<>> /\ mainQueue' = Tail(mainQueue)
        /\ requests' = requests /\ post' = post
        /\ originalURL' = Head(mainQueue).path /\ item'.url = Head(mainQueue).path /\ item' \in Item
    <3>1. Head(mainQueue) \in Answer
      BY <1>2, TailSeq DEF ShowVideo, Cache!RunAnswer, TypeOK
    <3> QED BY <1>2, <3>1 DEF ShowVideo, Cache!RunAnswer, Item, Answer
  <2>2. /\ Tail(mainQueue) \in Seq(Answer) /\ Len(mainQueue) >= 1 /\ Len(mainQueue) \in Nat
        /\ Len(Tail(mainQueue)) = Len(mainQueue) - 1
        /\ Head(mainQueue) = mainQueue[1]
        /\ DOMAIN Tail(mainQueue) = 1 .. Len(Tail(mainQueue))
        /\ \A i \in DOMAIN Tail(mainQueue) : Tail(mainQueue)[i] = mainQueue[i + 1]
    BY <2>1, TailSeq, SeqIsFunction DEF TypeOK
  <2>3. CASE Len(mainQueue) = 1
    <3>1. mainQueue' = <<>>
      BY <2>1, <2>2, <2>3
    <3> QED BY <2>1, <2>2, <2>3, <3>1, NilAssumption DEF LastAnswer, MainIsFree, Cache!QueryPending
  <2>4. CASE Len(mainQueue) # 1
    <3>1. Len(mainQueue') = Len(mainQueue) - 1 /\ Len(mainQueue') \in DOMAIN mainQueue'
      BY <2>1, <2>2, <2>4
    <3>2. mainQueue'[Len(mainQueue')] = mainQueue[Len(mainQueue)] /\ mainQueue' # <<>>
      <4>1. mainQueue'[Len(mainQueue')] = mainQueue[Len(mainQueue') + 1]
        BY <2>1, <2>2, <3>1
      <4>2. Len(mainQueue') + 1 = Len(mainQueue)
        BY <2>2, <3>1
      <4>3. mainQueue' # <<>>
        BY <3>1
      <4> QED BY <4>1, <4>2, <4>3
    <3> QED BY <2>1, <3>2 DEF LastAnswer, MainIsFree, Cache!QueryPending
  <2> QED BY <2>3, <2>4
<1>3. ASSUME UNCHANGED <<requests, mainQueue, post, originalURL, item>> PROVE LastAnswer'
  BY <1>3 DEF LastAnswer, MainIsFree, Cache!QueryPending
<1>4. CASE \/ \E r \in Requests, first \in 0 .. Size, last \in 0 .. Size :
                first < last /\ ShouldWaitForLoading(r, first, last)
           \/ (\E r \in Requests : DidCancel(r)) \/ Server \/ Disconnection
           \/ DidReceiveResponse \/ DidReceiveData \/ DidCompleteWithError \/ AssignFilter
           \/ InvalidateSession \/ ForgetSession \/ ForgetTask \/ FinishRequests \/ RemoveRequests
           \/ UNCHANGED vars
  <2>1. UNCHANGED <<requests, mainQueue, post, originalURL, item>>
    BY <1>4 DEF ShouldWaitForLoading, DidCancel, Server, Disconnection, DidReceiveResponse,
       DidReceiveData, DidCompleteWithError, AssignFilter, InvalidateSession, ForgetSession,
       ForgetTask, FinishRequests, RemoveRequests, vars, cacheVars, cellVars
  <2> QED BY <1>3, <2>1
<1>5. CASE DidComplete
  <2> DEFINE job == [op |-> "store", path |-> originalURL, data |-> videoData, epoch |-> 0]
  <2>1. job \in Job /\ job.op = "store"
    BY <1>5 DEF DidComplete, TypeOK, Job, StoreJob
  <2>2. requests' = Append(requests, job) /\ UNCHANGED <<mainQueue, post, originalURL, item>>
    BY <1>5 DEF DidComplete, Cache!Ask, cellVars
  <2> HIDE DEF job
  <2>3. /\ DOMAIN requests' = DOMAIN requests \cup {Len(requests) + 1}
        /\ requests'[Len(requests) + 1] = job
        /\ \A i \in DOMAIN requests : requests'[i] = requests[i]
    BY <2>1, <2>2, AppendSeq DEF TypeOK
  <2>4. MainIsFree' => MainIsFree
    BY <2>3 DEF MainIsFree, Cache!QueryPending
  <2> QED BY <2>1, <2>2, <2>3, <2>4 DEF LastAnswer
<1>6. CASE CacheWorks
  <2>1. /\ requests # <<>> /\ requests' = Tail(requests) /\ UNCHANGED <<post, originalURL, item>>
        /\ requests[1] = Head(requests) /\ 1 \in DOMAIN requests
        /\ \A i \in DOMAIN Tail(requests) :
             i + 1 \in DOMAIN requests /\ Tail(requests)[i] = requests[i + 1]
    BY <1>6, TailSeq DEF CacheWorks, Cache!ServeStore, Cache!ServeQuery, Cache!Serving, TypeOK, cellVars
  <2>2. \A i \in DOMAIN requests' : requests'[i].op = "query" => requests'[i].path = post'
    BY <2>1 DEF LastAnswer
  <2>3. CASE Cache!ServeStore
    <3>1. Head(requests).op = "store" /\ mainQueue' = mainQueue
      BY <2>3 DEF Cache!ServeStore, Cache!Serving
    <3>2. ASSUME NEW i \in DOMAIN requests, requests[i].op = "query"
          PROVE  i - 1 \in DOMAIN Tail(requests) /\ Tail(requests)[i - 1] = requests[i]
      <4>1. i # 1
        BY <2>1, <3>1, <3>2
      <4>2. /\ DOMAIN requests = 1 .. Len(requests) /\ Len(requests) \in Nat
            /\ DOMAIN Tail(requests) = 1 .. Len(requests) - 1
        BY <2>1, TailSeq, SeqIsFunction DEF TypeOK
      <4> QED BY <2>1, <3>2, <4>1, <4>2
    <3>3. MainIsFree' => MainIsFree
      BY <2>1, <3>2 DEF MainIsFree, Cache!QueryPending
    <3> QED BY <2>1, <2>2, <3>1, <3>3 DEF LastAnswer
  <2>4. CASE Cache!ServeQuery
    <3> DEFINE answer == [op |-> "use", path |-> Head(requests).path,
                          hit |-> Head(requests).path \in DOMAIN files, epoch |-> Head(requests).epoch]
    <3>1. Head(requests).op = "query" /\ Head(requests).path = post /\ Head(requests) \in Job
      BY <2>1, <2>4, TailSeq DEF Cache!ServeQuery, Cache!Serving, LastAnswer, TypeOK
    <3>2. answer \in Answer /\ answer.path = post
      BY <3>1 DEF Job, StoreJob, QueryJob, Answer
    <3>3. mainQueue' = Append(mainQueue, answer)
      BY <2>4 DEF Cache!ServeQuery
    <3> HIDE DEF answer
    <3>4. Len(mainQueue') = Len(mainQueue) + 1 /\ mainQueue'[Len(mainQueue) + 1] = answer
      BY <3>2, <3>3, AppendSeq DEF TypeOK
    <3>5. mainQueue' # <<>>
      BY <3>2, <3>3, <3>4, EmptySeq, SeqIsFunction DEF TypeOK
    <3> QED BY <2>1, <2>2, <3>2, <3>4, <3>5 DEF LastAnswer
  <2> QED BY <1>6, <2>3, <2>4 DEF CacheWorks
<1>7. CASE EndProcess
  BY <1>7, NilAssumption DEF EndProcess, Cache!Restart, LastAnswer
<1> QED BY Steps, <1>1, <1>2, <1>4, <1>5, <1>6, <1>7

-----------------------------------------------------------------------------
\* The first post.

\* Only another post makes a cell reused.
LEMMA ReusesGrow ==
  ASSUME TypeOK, [Next]_vars
  PROVE  \/ \E url \in Urls \cup {NoURL} : CellForRow(url)
         \/ EndProcess
         \/ reuses' # 0
         \/ reuses = 0 /\ reuses' = 0 /\ post' = post
<1>1. CASE \E url \in Urls \cup {NoURL} : ReuseCell(url)
  BY <1>1 DEF ReuseCell, TypeOK
<1>2. CASE \/ ShowVideo
           \/ \E r \in Requests, first \in 0 .. Size, last \in 0 .. Size :
                first < last /\ ShouldWaitForLoading(r, first, last)
           \/ (\E r \in Requests : DidCancel(r)) \/ Server \/ Disconnection
           \/ DidReceiveResponse \/ DidReceiveData \/ DidComplete \/ DidCompleteWithError
           \/ AssignFilter
           \/ InvalidateSession \/ ForgetSession \/ ForgetTask \/ FinishRequests \/ RemoveRequests
           \/ CacheWorks \/ UNCHANGED vars
  BY <1>2 DEF ShowVideo, ShouldWaitForLoading, DidCancel, Server, Disconnection, DidReceiveResponse,
     DidReceiveData, DidComplete, DidCompleteWithError, AssignFilter, InvalidateSession,
     ForgetSession, ForgetTask, FinishRequests, RemoveRequests, CacheWorks, vars, cellVars
<1> QED BY Steps, <1>1, <1>2

\* The requests of AVFoundation keep their URL.
LEMMA RequestsKeepURL ==
  ASSUME TypeOK,
         \/ \E r \in Requests : DidCancel(r)
         \/ DidReceiveResponse \/ DidReceiveData \/ FinishRequests
  PROVE  \A r \in Requests : /\ request'[r].url = request[r].url
                             /\ request'[r].status = "new" <=> request[r].status = "new"
<1>1. CASE DidReceiveResponse
  BY <1>1, Processed DEF DidReceiveResponse, TypeOK
<1>2. CASE DidReceiveData
  <2>1. videoData' \in Seq(Unit) \cup {Nil}
    <3>1. Head(events).unit \in Unit
      BY <1>2, HeadEvent DEF DidReceiveData
    <3> QED BY <1>2, <3>1, AppendSeq DEF DidReceiveData, TypeOK
  <2> QED BY <1>2, <2>1, Processed DEF DidReceiveData
<1>3. ASSUME NEW s \in Requests, DidCancel(s), NEW r \in Requests
      PROVE  /\ request'[r].url = request[r].url
             /\ request'[r].status = "new" <=> request[r].status = "new"
  BY <1>3 DEF DidCancel, TypeOK, RequestState
<1>4. ASSUME FinishRequests, NEW r \in Requests
      PROVE  /\ request'[r].url = request[r].url
             /\ request'[r].status = "new" <=> request[r].status = "new"
  BY <1>4 DEF FinishRequests, TypeOK, RequestState
<1> QED BY <1>1, <1>2, <1>3, <1>4

LEMMA FirstUseKept ==
  ASSUME TypeOK, FirstUse, LastAnswer, [Next]_vars
  PROVE  FirstUse'
<1>1. ASSUME NEW url \in Urls \cup {NoURL}, CellForRow(url), reuses = 0 PROVE FirstUse'
  <2>1. post = Nil /\ UNCHANGED <<originalURL, net, item, request>>
    BY <1>1 DEF CellForRow, listVars, netVars
  <2>2. originalURL = Nil /\ net.url = Nil
    BY <1>1, <2>1 DEF FirstUse
  <2>3. item = Nil
    BY <1>1, <2>1, NilAssumption DEF FirstUse, TypeOK, Item
  <2>4. \A r \in Requests : request[r].status = "new"
    BY <1>1, <2>1 DEF FirstUse
  <2>5. mainQueue' = mainQueue
    BY <1>1 DEF CellForRow, QueryURL, cacheVars, Cache!Ask
  <2>6. DOMAIN mainQueue = {}
    <3>1. \A i \in DOMAIN mainQueue : mainQueue[i] \in Answer /\ mainQueue[i].path = Nil
      BY <1>1, <2>1, SeqIsFunction DEF FirstUse, TypeOK
    <3> QED BY <3>1, NilAssumption DEF Answer
  <2> QED BY <2>1, <2>2, <2>3, <2>4, <2>5, <2>6 DEF FirstUse
<1>2. CASE EndProcess
  BY <1>2 DEF EndProcess, Cache!Restart, FirstUse, NoTask, Idle
<1>3. CASE reuses' # 0
  BY <1>3 DEF FirstUse
<1>4. ASSUME reuses = 0, post' = post, UNCHANGED <<originalURL, net, item, mainQueue, request>>
      PROVE  FirstUse'
  BY <1>4 DEF FirstUse
<1>5. ASSUME reuses = 0, post' = post,
             \/ ShowVideo
             \/ \E r \in Requests, first \in 0 .. Size, last \in 0 .. Size :
                  first < last /\ ShouldWaitForLoading(r, first, last)
             \/ (\E r \in Requests : DidCancel(r)) \/ Server \/ Disconnection
             \/ DidReceiveResponse \/ DidReceiveData \/ DidComplete \/ DidCompleteWithError
             \/ AssignFilter
             \/ InvalidateSession \/ ForgetSession \/ ForgetTask \/ FinishRequests
             \/ RemoveRequests \/ CacheWorks \/ UNCHANGED vars
      PROVE  FirstUse'
  <2>1. CASE ShowVideo
    <3>1. mainQueue # <<>> /\ mainQueue' = Tail(mainQueue) /\ UNCHANGED <<net, request>>
      BY <2>1 DEF ShowVideo, Cache!RunAnswer, listVars, netVars
    <3>2. /\ 1 \in DOMAIN mainQueue /\ Head(mainQueue) = mainQueue[1]
          /\ \A i \in DOMAIN Tail(mainQueue) :
               i + 1 \in DOMAIN mainQueue /\ Tail(mainQueue)[i] = mainQueue[i + 1]
      BY <3>1, TailSeq DEF TypeOK
    <3>3. originalURL' = post /\ item'.url = post
      BY <1>5, <2>1, <3>2 DEF ShowVideo, FirstUse
    <3> QED BY <1>5, <3>1, <3>2, <3>3 DEF FirstUse
  <2>2. ASSUME NEW r \in Requests, NEW first \in 0 .. Size, NEW last \in 0 .. Size,
               ShouldWaitForLoading(r, first, last)
        PROVE  FirstUse'
    <3>1. /\ item # Nil /\ UNCHANGED <<originalURL, item, mainQueue>>
          /\ request' = [request EXCEPT ![r] = [status |-> "waiting", url |-> item.url,
                           first |-> first, last |-> last, got |-> <<>>]]
      BY <2>2 DEF ShouldWaitForLoading, ListRequest, cellVars, cacheVars
    <3>2. item.url = post /\ post # Nil
      BY <1>5, <3>1, NilAssumption DEF FirstUse, TypeOK, Item
    <3>3. \A s \in Requests :
            request'[s].status # "new" => request'[s].url = post /\ post # Nil
      BY <1>5, <3>1, <3>2 DEF FirstUse, TypeOK
    <3>4. net'.url \in {post, Nil}
      BY <1>5, <2>2 DEF ShouldWaitForLoading, NeedsTask, FirstUse
    <3> QED BY <1>5, <3>1, <3>3, <3>4 DEF FirstUse
  <2>3. CASE Server \/ Disconnection \/ InvalidateSession
    <3>1. UNCHANGED <<originalURL, item, mainQueue, request>>
      BY <2>3 DEF Server, Disconnection, InvalidateSession, cacheVars, cellVars, listVars
    <3>2. net'.url = net.url
      <4>1. \A status : [net EXCEPT !.status = status].url = net.url
        BY DEF TypeOK, NetState, Download, NoTask
      <4>2. [net EXCEPT !.sent = @ + 1].url = net.url
        BY DEF TypeOK, NetState, Download, NoTask
      <4> QED BY <2>3, <4>1, <4>2 DEF Server, Disconnection, InvalidateSession, Respond, SendData,
             EndOfData, NetworkFails, netVars
    <3> QED BY <1>5, <3>1, <3>2 DEF FirstUse
  <2>4. CASE (\E r \in Requests : DidCancel(r)) \/ DidReceiveResponse \/ DidReceiveData \/ FinishRequests
    <3>1. UNCHANGED <<originalURL, item, mainQueue>>
      BY <2>4 DEF DidCancel, DidReceiveResponse, DidReceiveData, FinishRequests, cacheVars, cellVars
    <3>2. net'.url = net.url
      <4>1. \A status : [net EXCEPT !.status = status].url = net.url
        BY DEF TypeOK, NetState, Download, NoTask
      <4> QED BY <2>4, <4>1 DEF DidCancel, DidReceiveResponse, DidReceiveData, FinishRequests, netVars
    <3>3. \A r \in Requests : /\ request'[r].url = request[r].url
                              /\ request'[r].status = "new" <=> request[r].status = "new"
      BY <2>4, RequestsKeepURL
    <3>4. reuses = 0 /\ post' = post
      BY <1>5
    <3>5. \A r \in Requests :
            request'[r].status # "new" => request'[r].url = post /\ post # Nil
      <4>1. ASSUME NEW r \in Requests, request'[r].status # "new"
            PROVE  request'[r].url = post /\ post # Nil
        <5>1. request[r].status # "new" /\ request'[r].url = request[r].url
          BY <3>3, <4>1
        <5> QED BY <3>4, <5>1 DEF FirstUse
      <4> QED BY <4>1
    <3> QED BY <3>1, <3>2, <3>4, <3>5 DEF FirstUse
  <2>5. CASE DidComplete \/ DidCompleteWithError \/ AssignFilter \/ ForgetSession \/ ForgetTask
             \/ RemoveRequests \/ UNCHANGED vars
    <3>1. UNCHANGED <<originalURL, net, item, mainQueue, request>>
      BY <2>5 DEF DidComplete, Cache!Ask, DidCompleteWithError, AssignFilter, ForgetSession, ForgetTask,
         RemoveRequests, vars, cacheVars, cellVars, listVars, netVars
    <3> QED BY <1>4, <1>5, <3>1
  <2>6. CASE CacheWorks
    <3>1. UNCHANGED <<originalURL, net, item, request>>
      BY <2>6 DEF CacheWorks, cellVars, listVars, netVars
    <3>2. CASE Cache!ServeStore
      BY <1>4, <1>5, <3>1, <3>2 DEF Cache!ServeStore
    <3>3. CASE Cache!ServeQuery
      <4> DEFINE answer == [op |-> "use", path |-> Head(requests).path,
                            hit |-> Head(requests).path \in DOMAIN files,
                            epoch |-> Head(requests).epoch]
      <4>1. Head(requests).op = "query" /\ Head(requests).path = post /\ Head(requests) \in Job
        BY <3>3, TailSeq DEF Cache!ServeQuery, Cache!Serving, LastAnswer, TypeOK
      <4>2. answer \in Answer /\ answer.path = post
        BY <4>1 DEF Job, StoreJob, QueryJob, Answer
      <4>3. mainQueue' = Append(mainQueue, answer)
        BY <3>3 DEF Cache!ServeQuery
      <4> HIDE DEF answer
      <4>4. \A i \in DOMAIN mainQueue' : mainQueue'[i] = answer
              \/ (i \in DOMAIN mainQueue /\ mainQueue'[i] = mainQueue[i])
        BY <4>2, <4>3, AppendSeq DEF TypeOK
      <4> QED BY <1>5, <3>1, <4>2, <4>4 DEF FirstUse
    <3> QED BY <2>6, <3>2, <3>3 DEF CacheWorks
  <2> QED BY <1>5, <2>1, <2>2, <2>3, <2>4, <2>5, <2>6
<1> QED
  <2>1. CASE \E url \in Urls \cup {NoURL} : CellForRow(url)
    <3>1. reuses' = reuses
      BY <2>1 DEF CellForRow
    <3> QED BY <1>1, <1>3, <2>1, <3>1
  <2>2. CASE reuses = 0 /\ reuses' = 0 /\ post' = post
    <3>1. ~(\E url \in Urls \cup {NoURL} : ReuseCell(url))
      BY <2>2 DEF ReuseCell
    <3> QED BY Steps, <1>2, <1>5, <2>1, <2>2, <3>1
  <2> QED BY ReusesGrow, <1>2, <1>3, <2>1, <2>2

-----------------------------------------------------------------------------
\* What AVFoundation is given.

\* Before the first reuse the data is of the post.
LEMMA DataOfPost ==
  ASSUME TypeOK, StreamOK, FirstUse, reuses = 0, videoData # Nil
  PROVE  \A i \in DOMAIN videoData : videoData[i] = <<post, i>>
<1> SUFFICES ASSUME NEW i \in DOMAIN videoData PROVE videoData[i] = <<post, i>>
  OBVIOUS
<1>1. videoData[i] \in Unit /\ videoData[i] = <<net.url, i>>
  BY StreamTypes, SeqIsFunction DEF StreamOK
<1>2. net.url \in Urls
  BY <1>1 DEF Unit
<1>3. net.url = post
  BY <1>2, NilAssumption DEF FirstUse
<1> QED BY <1>1, <1>3

\* A request is given the units of the post that it lacks.
LEMMA GivesTheVideo ==
  ASSUME TypeOK, FirstUse, reuses = 0, DeliveredIsTheVideo,
         NEW data \in Seq(Unit) \cup {Nil}, ProcessLoadingRequest(data),
         data # Nil => \A i \in DOMAIN data : data[i] = <<post, i>>,
         NEW r \in Requests
  PROVE  request'[r].got = [i \in 1 .. Len(request'[r].got) |->
                              <<request'[r].url, request'[r].first + i>>]
<1> DEFINE got == request[r].got
           units == UnitsFor(r, data)
<1>1. /\ request'[r].url = request[r].url /\ request'[r].first = request[r].first
      /\ request'[r] \in RequestState
  BY Processed
<1>2. got = [i \in 1 .. Len(got) |-> <<request[r].url, request[r].first + i>>]
  BY DEF DeliveredIsTheVideo
<1>3. CASE request'[r].got = got
  BY <1>1, <1>2, <1>3
<1>4. CASE /\ data # Nil /\ Len(data) >= CurrentOffset(r) /\ request[r].status = "waiting"
           /\ request'[r].got = got \o units
  <2>1. got \in Seq(Unit) /\ request[r].first \in Nat
    BY DEF TypeOK, RequestState
  <2>2. Len(got) \in Nat
    BY <2>1, SeqIsFunction
  <2>3. /\ units \in Seq(Unit)
        /\ \A i \in 1 .. Len(units) : units[i] = data[CurrentOffset(r) + i]
        /\ CurrentOffset(r) + Len(units) <= Len(data)
    BY <1>4, UnitsGiven
  <2>4. Len(units) \in Nat /\ Len(data) \in Nat /\ DOMAIN data = 1 .. Len(data)
    BY <1>4, <2>3, SeqIsFunction
  <2>5. request[r].url = post
    BY <1>4 DEF FirstUse
  <2>6. ASSUME NEW i \in 1 .. Len(units)
        PROVE  units[i] = <<request[r].url, request[r].first + (Len(got) + i)>>
    <3>1. CurrentOffset(r) = request[r].first + Len(got)
      BY DEF CurrentOffset
    <3>2. CurrentOffset(r) + i \in DOMAIN data
      <4>1. CurrentOffset(r) \in Nat
        BY <2>1, <2>2, <3>1
      <4> HIDE DEF got, units
      <4>2. i \in Nat /\ 1 <= i /\ i <= Len(units)
        BY <2>4
      <4>3. CurrentOffset(r) + Len(units) <= Len(data)
        BY <2>3
      <4> QED BY <2>4, <4>1, <4>2, <4>3
    <3>3. units[i] = <<post, CurrentOffset(r) + i>>
      BY <1>4, <2>3, <3>2
    <3>4. CurrentOffset(r) + i = request[r].first + (Len(got) + i)
      BY <2>1, <2>2, <2>4, <3>1
    <3> QED BY <2>5, <3>3, <3>4
  <2> HIDE DEF got, units
  <2>7. /\ got \o units \in Seq(Unit) /\ Len(got \o units) = Len(got) + Len(units)
        /\ \A i \in 1 .. Len(got) : (got \o units)[i] = got[i]
        /\ \A i \in 1 .. Len(units) : (got \o units)[Len(got) + i] = units[i]
    BY <2>1, <2>3
  <2>8. \A i \in 1 .. Len(got) : got[i] = <<request[r].url, request[r].first + i>>
    BY <1>2
  <2>9. ASSUME NEW i \in 1 .. Len(got) + Len(units)
        PROVE  (got \o units)[i] = <<request[r].url, request[r].first + i>>
    <3>1. CASE i \in 1 .. Len(got)
      BY <2>7, <2>8, <3>1
    <3>2. CASE i \notin 1 .. Len(got)
      <4>1. i - Len(got) \in 1 .. Len(units) /\ Len(got) + (i - Len(got)) = i
        BY <2>2, <2>4, <3>2
      <4> QED BY <2>6, <2>7, <4>1
    <3> QED BY <3>1, <3>2
  <2>10. got \o units \in [1 .. Len(got) + Len(units) -> Unit]
    <3>1. \A q \in Seq(Unit) : q \in [1 .. Len(q) -> Unit]
      OBVIOUS
    <3> QED BY <2>7, <3>1
  <2>11. got \o units = [i \in 1 .. Len(got) + Len(units) |-> (got \o units)[i]]
    BY <2>10
  <2>12. got \o units = [i \in 1 .. Len(got) + Len(units) |->
                            <<request[r].url, request[r].first + i>>]
    BY <2>9, <2>11
  <2> QED BY <1>1, <1>4, <2>7, <2>12
<1> QED BY <1>3, <1>4, Processed

LEMMA DeliveredKept ==
  ASSUME TypeOK, OneDownload, StreamOK, FirstUse, DeliveredIsTheVideo, [Next]_vars
  PROVE  DeliveredIsTheVideo'
<1> SUFFICES ASSUME reuses' = 0, NEW r \in Requests
             PROVE  request'[r].got = [i \in 1 .. Len(request'[r].got) |->
                                         <<request'[r].url, request'[r].first + i>>]
  BY DEF DeliveredIsTheVideo
<1>1. \A n : n \in Nat => [i \in 1 .. 0 |-> n] = <<>>
  OBVIOUS
<1>2. CASE EndProcess
  <2>1. request'[r].got = <<>>
    BY <1>2 DEF EndProcess, Idle
  <2> QED BY <2>1
<1>3. ASSUME reuses = 0, request'[r].got = request[r].got, request'[r].url = request[r].url,
             request'[r].first = request[r].first
      PROVE  request'[r].got = [i \in 1 .. Len(request'[r].got) |->
                                  <<request'[r].url, request'[r].first + i>>]
  BY <1>3 DEF DeliveredIsTheVideo
<1>4. CASE \E s \in Requests, first \in 0 .. Size, last \in 0 .. Size :
             first < last /\ ShouldWaitForLoading(s, first, last)
  <2>1. PICK s \in Requests, first \in 0 .. Size, last \in 0 .. Size :
          ShouldWaitForLoading(s, first, last)
    BY <1>4
  <2>2. /\ reuses' = reuses
        /\ request' = [request EXCEPT ![s] = [status |-> "waiting", url |-> item.url,
                         first |-> first, last |-> last, got |-> <<>>]]
    BY <2>1 DEF ShouldWaitForLoading, ListRequest
  <2>3. CASE s = r
    <3>1. request'[r].got = <<>>
      BY <2>2, <2>3 DEF TypeOK
    <3> QED BY <3>1
  <2>4. CASE s # r
    <3>1. request'[r] = request[r]
      BY <2>2, <2>4 DEF TypeOK
    <3> QED BY <1>3, <2>2, <3>1
  <2> QED BY <2>3, <2>4
<1>5. CASE DidReceiveResponse
  <2>1. reuses = 0 /\ ProcessLoadingRequest(videoData) /\ videoData \in Seq(Unit) \cup {Nil}
    BY <1>5 DEF DidReceiveResponse, TypeOK
  <2> QED BY <2>1, DataOfPost, GivesTheVideo
<1>6. CASE DidReceiveData
  <2>1. /\ reuses = 0 /\ ProcessLoadingRequest(videoData')
        /\ UNCHANGED <<net, post, reuses>>
    BY <1>6 DEF DidReceiveData, cellVars
  <2>2. StreamOK' /\ TypeOK'
    BY <1>6, DelegateKeepsStream, Types
  <2>3. videoData' # Nil => \A i \in DOMAIN videoData' : videoData'[i] = <<net'.url, i>> /\ videoData'[i] \in Unit
    <3>1. videoData' # Nil => videoData' \in Seq(Unit)
      BY <2>2 DEF TypeOK
    <3> QED BY <2>2, <3>1, SeqIsFunction DEF StreamOK
  <2>4. videoData' # Nil => \A i \in DOMAIN videoData' : videoData'[i] = <<post, i>>
    <3>1. ASSUME videoData' # Nil, NEW i \in DOMAIN videoData' PROVE videoData'[i] = <<post, i>>
      <4>1. <<net.url, i>> \in Unit
        BY <2>1, <2>3, <3>1
      <4>2. net.url \in Urls
        BY <4>1 DEF Unit
      <4>3. net.url = post
        BY <2>1, <4>2, NilAssumption DEF FirstUse
      <4> QED BY <2>1, <2>3, <3>1, <4>3
    <3> QED BY <3>1
  <2>5. videoData' \in Seq(Unit) \cup {Nil}
    BY <2>2 DEF TypeOK
  <2> QED BY <2>1, <2>4, <2>5, GivesTheVideo
<1>7. CASE (\E s \in Requests : DidCancel(s)) \/ FinishRequests
  <2>1. reuses = 0
    BY <1>7 DEF DidCancel, FinishRequests
  <2>2. \A status : /\ [request[r] EXCEPT !.status = status].got = request[r].got
                    /\ [request[r] EXCEPT !.status = status].url = request[r].url
                    /\ [request[r] EXCEPT !.status = status].first = request[r].first
    BY DEF TypeOK, RequestState
  <2>3. request'[r] = request[r] \/ \E status : request'[r] = [request[r] EXCEPT !.status = status]
    <3>1. ASSUME NEW s \in Requests, DidCancel(s)
          PROVE  request'[r] = request[r]
                   \/ request'[r] = [request[r] EXCEPT !.status = "cancelled"]
      BY <3>1 DEF DidCancel, TypeOK
    <3>2. ASSUME FinishRequests
          PROVE  request'[r] = request[r]
                   \/ request'[r] = [request[r] EXCEPT !.status = "finished"]
      BY <3>2 DEF FinishRequests
    <3> QED BY <1>7, <3>1, <3>2
  <2> QED BY <1>3, <2>1, <2>2, <2>3
<1>8. CASE \/ \E url \in Urls \cup {NoURL} : CellForRow(url) \/ ReuseCell(url)
           \/ ShowVideo \/ Server \/ Disconnection
           \/ DidComplete \/ DidCompleteWithError \/ AssignFilter
           \/ InvalidateSession \/ ForgetSession \/ ForgetTask \/ RemoveRequests
           \/ CacheWorks \/ UNCHANGED vars
  <2>1. request' = request /\ (reuses' = reuses \/ reuses' = reuses + 1)
    BY <1>8 DEF CellForRow, ReuseCell, ShowVideo, Server, Disconnection, DidComplete,
       DidCompleteWithError, AssignFilter, InvalidateSession, ForgetSession, ForgetTask,
       RemoveRequests, CacheWorks, vars, listVars
  <2>2. reuses = 0
    BY <2>1 DEF TypeOK
  <2> QED BY <1>3, <2>1, <2>2
<1> QED BY Steps, <1>2, <1>4, <1>5, <1>6, <1>7, <1>8

-----------------------------------------------------------------------------
\* The list.

\* A step that leaves the list alone, or only takes requests from AVFoundation.
LEMMA ListStays ==
  ASSUME Listed, UNCHANGED <<loadingRequests, kept>>, raced \subseteq raced',
         cancelStep' # "remove" \/ cancelStep' = cancelStep,
         \A r \in Requests : Waiting(r)' => Waiting(r)
  PROVE  Listed'
BY DEF Listed, WaitingIsListed

LEMMA ListedKept ==
  ASSUME TypeOK, Listed, [Next]_vars
  PROVE  Listed'
<1>1. CASE \E r \in Requests, first \in 0 .. Size, last \in 0 .. Size :
             first < last /\ ShouldWaitForLoading(r, first, last)
  <2>1. PICK r \in Requests, first \in 0 .. Size, last \in 0 .. Size :
          ListRequest(r, first, last) /\ UNCHANGED cancelStep
    BY <1>1 DEF ShouldWaitForLoading, cancelVars
  <2>2. /\ loadingRequests' = loadingRequests \cup {r} /\ kept' = kept
        /\ raced' = IF ListIsBeingRewritten THEN raced \cup {r} ELSE raced
    BY <2>1 DEF ListRequest
  <2>3. \A s \in Requests : s # r => request'[s] = request[s]
    BY <2>1 DEF ListRequest, TypeOK
  <2>4. r \in raced' \/ (kept = Nil /\ cancelStep # "remove")
    BY <2>2 DEF ListIsBeingRewritten
  <2>5. ASSUME NEW s \in Requests \ raced', Waiting(s)'
        PROVE  /\ s \in loadingRequests' /\ (kept' # Nil => s \in kept')
               /\ cancelStep' # "remove"
    <3>1. CASE s = r
      BY <2>1, <2>2, <2>4, <2>5, <3>1
    <3>2. CASE s # r
      <4>1. s \in Requests \ raced /\ Waiting(s)
        BY <2>2, <2>3, <2>5, <3>2 DEF Waiting
      <4> QED BY <2>1, <2>2, <4>1 DEF Listed, WaitingIsListed
    <3> QED BY <3>1, <3>2
  <2> QED BY <2>5 DEF Listed, WaitingIsListed
<1>2. ASSUME NEW r \in Requests, DidCancel(r) PROVE Listed'
  <2>1. /\ loadingRequests' = loadingRequests \ {r} /\ UNCHANGED <<kept, raced, cancelStep>>
        /\ request' = [request EXCEPT ![r].status = "cancelled"]
    BY <1>2 DEF DidCancel, cancelVars
  <2>2. ~Waiting(r)' /\ \A s \in Requests : s # r => request'[s] = request[s]
    BY <2>1 DEF Waiting, TypeOK, RequestState
  <2> QED BY <2>1, <2>2 DEF Listed, WaitingIsListed, Waiting
<1>3. ASSUME NEW data \in Seq(Unit) \cup {Nil}, ProcessLoadingRequest(data),
             UNCHANGED <<loadingRequests, raced, cancelStep>>
      PROVE  Listed'
  <2>1. \A r \in Requests :
          Waiting(r)' => Waiting(r) /\ (r \in loadingRequests => r \in kept')
    BY <1>3, Processed DEF Waiting
  <2> QED BY <1>3, <2>1 DEF Listed, WaitingIsListed
<1>4. CASE DidReceiveResponse
  BY <1>3, <1>4 DEF DidReceiveResponse, TypeOK, cancelVars
<1>5. CASE DidReceiveData
  <2>1. videoData' \in Seq(Unit) \cup {Nil}
    <3>1. Head(events).unit \in Unit
      BY <1>5, HeadEvent DEF DidReceiveData
    <3> QED BY <1>5, <3>1, AppendSeq DEF DidReceiveData, TypeOK
  <2> QED BY <1>3, <1>5, <2>1 DEF DidReceiveData, cancelVars
<1>6. CASE AssignFilter
  BY <1>6 DEF AssignFilter, cancelVars, Listed, WaitingIsListed, Waiting
<1>7. CASE FinishRequests
  <2>1. /\ UNCHANGED <<loadingRequests, kept, raced>>
        /\ \A r \in Requests : request'[r] =
             IF r \in loadingRequests /\ request[r].status = "waiting"
             THEN [request[r] EXCEPT !.status = "finished"] ELSE request[r]
    BY <1>7 DEF FinishRequests
  <2>2. \A r \in Requests : [request[r] EXCEPT !.status = "finished"].status = "finished"
    BY DEF TypeOK, RequestState
  <2>3. \A r \in Requests : Waiting(r)' => Waiting(r) /\ r \notin loadingRequests
    BY <2>1, <2>2 DEF Waiting
  <2> QED BY <2>1, <2>3 DEF Listed, WaitingIsListed
<1>8. CASE RemoveRequests
  BY <1>8 DEF RemoveRequests, CancelAt, Listed, WaitingIsListed, Waiting
<1>9. CASE EndProcess
  <2>1. \A r \in Requests : ~Waiting(r)'
    BY <1>9 DEF EndProcess, Idle, Waiting
  <2> QED BY <2>1 DEF Listed, WaitingIsListed
<1>10. CASE \/ \E url \in Urls \cup {NoURL} : CellForRow(url) \/ ReuseCell(url)
            \/ ShowVideo \/ Server \/ Disconnection
            \/ DidComplete \/ DidCompleteWithError
            \/ InvalidateSession \/ ForgetSession \/ ForgetTask
            \/ CacheWorks \/ UNCHANGED vars
  <2>1. /\ UNCHANGED <<loadingRequests, kept, raced, request>>
        /\ cancelStep' # "remove" \/ cancelStep' = cancelStep
    BY <1>10 DEF CellForRow, ReuseCell, ShowVideo, Server, Disconnection, DidComplete,
       DidCompleteWithError, InvalidateSession, ForgetSession, ForgetTask, CacheWorks, vars,
       listVars, cancelVars
  <2> QED BY <2>1, ListStays DEF Waiting
<1> QED BY Steps, <1>1, <1>2, <1>4, <1>5, <1>6, <1>7, <1>8, <1>9, <1>10

-----------------------------------------------------------------------------
\* Nothing is owed.

\* A request that got some data, and is answered from no less, has all of it again.
LEMMA ServesUpToDate ==
  ASSUME TypeOK, WaitingIsListed, ServedIsUpToDate,
         NEW data \in Seq(Unit) \cup {Nil}, ProcessLoadingRequest(data),
         data # Nil => videoData # Nil /\ Len(videoData) <= Len(data),
         videoData' = data, raced' = raced
  PROVE  ServedIsUpToDate'
<1> SUFFICES ASSUME NEW r \in Requests \ raced, Waiting(r)', request'[r].got # <<>>, data # Nil
             PROVE  /\ CurrentOffset(r)' <= Len(data)
                    /\ CurrentOffset(r)' = request'[r].last \/ CurrentOffset(r)' = Len(data)
  BY DEF ServedIsUpToDate
<1>1. data \in Seq(Unit) /\ Len(data) \in Nat /\ videoData \in Seq(Unit) /\ Len(videoData) \in Nat
  BY SeqIsFunction, NilAssumption DEF TypeOK
<1>2. /\ request[r].status = "waiting" /\ Waiting(r)
      /\ request'[r].first = request[r].first /\ request'[r].last = request[r].last
  BY Processed DEF Waiting
<1>3. r \in loadingRequests
  BY <1>2 DEF WaitingIsListed
<1>4. /\ request[r].got \in Seq(Unit) /\ Len(request[r].got) \in Nat
      /\ request[r].first \in Nat /\ request[r].last \in Nat
      /\ CurrentOffset(r) = request[r].first + Len(request[r].got)
      /\ CurrentOffset(r)' = request[r].first + Len(request'[r].got)
  BY <1>2, SeqIsFunction DEF TypeOK, RequestState, CurrentOffset
<1>5. CASE r \in Answerable(data)
  <2>1. Len(data) >= CurrentOffset(r)
    BY <1>5 DEF Answerable
  <2>2. request'[r].got = request[r].got \o UnitsFor(r, data)
    BY <1>2, <1>5, Processed
  <2>3. /\ UnitsFor(r, data) \in Seq(Unit)
        /\ CurrentOffset(r) + Len(UnitsFor(r, data)) <= Len(data)
        /\ CurrentOffset(r) + Len(UnitsFor(r, data)) \in {Len(data), request[r].last}
    BY <1>1, <2>1, UnitsGiven
  <2>4. Len(UnitsFor(r, data)) \in Nat
    BY <2>3, SeqIsFunction
  <2>5. Len(request'[r].got) = Len(request[r].got) + Len(UnitsFor(r, data))
    BY <1>4, <2>2, <2>3
  <2> QED BY <1>2, <1>4, <2>3, <2>4, <2>5
<1>6. CASE r \notin Answerable(data)
  <2>1. ~(Len(data) >= CurrentOffset(r))
    BY <1>3, <1>6 DEF Answerable
  <2>2. request'[r].got = request[r].got
    BY <1>2, <2>1, Processed
  <2>3. CurrentOffset(r) <= Len(videoData)
    BY <1>2, <2>2 DEF ServedIsUpToDate
  <2> QED BY <1>1, <1>4, <2>1, <2>3
<1> QED BY <1>5, <1>6

LEMMA UpToDateKept ==
  ASSUME TypeOK, WaitingIsListed, ServedIsUpToDate, [Next]_vars
  PROVE  ServedIsUpToDate'
<1>1. CASE \E s \in Requests, first \in 0 .. Size, last \in 0 .. Size :
             first < last /\ ShouldWaitForLoading(s, first, last)
  <2>1. PICK s \in Requests, first \in 0 .. Size, last \in 0 .. Size :
          ListRequest(s, first, last) /\ videoData' = videoData
    BY <1>1 DEF ShouldWaitForLoading
  <2>2. request'[s].got = <<>> /\ \A r \in Requests : r # s => request'[r] = request[r]
    BY <2>1 DEF ListRequest, TypeOK
  <2>3. raced \subseteq raced'
    BY <2>1 DEF ListRequest
  <2> QED BY <2>1, <2>2, <2>3 DEF ServedIsUpToDate, Waiting, CurrentOffset
<1>2. CASE (\E s \in Requests : DidCancel(s)) \/ FinishRequests
  <2>1. raced' = raced /\ videoData' = videoData
    BY <1>2 DEF DidCancel, FinishRequests
  <2>2. ASSUME NEW r \in Requests, Waiting(r)' PROVE request'[r] = request[r]
    <3>1. \A status : [request[r] EXCEPT !.status = status].status = status
      BY DEF TypeOK, RequestState
    <3>2. ASSUME NEW s \in Requests, DidCancel(s) PROVE request'[r] = request[r]
      <4>1. request' = [request EXCEPT ![s].status = "cancelled"]
        BY <3>2 DEF DidCancel
      <4>2. s # r
        BY <2>2, <3>1, <4>1 DEF Waiting, TypeOK
      <4> QED BY <4>1, <4>2 DEF TypeOK
    <3>3. FinishRequests => request'[r] = request[r]
      BY <2>2, <3>1 DEF FinishRequests, Waiting
    <3> QED BY <1>2, <3>2, <3>3
  <2> QED BY <2>1, <2>2 DEF ServedIsUpToDate, Waiting, CurrentOffset
<1>3. CASE DidReceiveResponse
  BY <1>3, ServesUpToDate, SeqIsFunction DEF DidReceiveResponse, TypeOK
<1>4. CASE DidReceiveData
  <2>1. Head(events).unit \in Unit
    BY <1>4, HeadEvent DEF DidReceiveData
  <2>2. /\ videoData = Nil => videoData' = Nil
        /\ videoData # Nil => /\ videoData' = Append(videoData, Head(events).unit)
                              /\ videoData' \in Seq(Unit) /\ Len(videoData) <= Len(videoData')
    BY <1>4, <2>1, AppendSeq, SeqIsFunction DEF DidReceiveData, TypeOK
  <2>3. ProcessLoadingRequest(videoData') /\ raced' = raced
    BY <1>4 DEF DidReceiveData
  <2> QED BY <2>2, <2>3, ServesUpToDate
<1>5. CASE ForgetTask
  BY <1>5 DEF ForgetTask, ServedIsUpToDate
<1>6. CASE EndProcess
  BY <1>6 DEF EndProcess, Idle, ServedIsUpToDate, Waiting
<1>7. CASE \/ \E url \in Urls \cup {NoURL} : CellForRow(url) \/ ReuseCell(url)
           \/ ShowVideo \/ Server \/ Disconnection
           \/ DidComplete \/ DidCompleteWithError \/ AssignFilter
           \/ InvalidateSession \/ ForgetSession \/ RemoveRequests
           \/ CacheWorks \/ UNCHANGED vars
  <2>1. UNCHANGED <<request, raced, videoData>>
    BY <1>7 DEF CellForRow, ReuseCell, ShowVideo, Server, Disconnection, DidComplete,
       DidCompleteWithError, AssignFilter, InvalidateSession, ForgetSession, RemoveRequests,
       CacheWorks, vars, listVars
  <2> QED BY <2>1 DEF ServedIsUpToDate, Waiting, CurrentOffset
<1> QED BY Steps, <1>1, <1>2, <1>3, <1>4, <1>5, <1>6, <1>7

\* What the delegate queue is done with, the view has.
LEMMA DelegateKeepsUp ==
  ASSUME TypeOK, StreamOK, DownloadNeverStalls,
         DidReceiveResponse \/ DidReceiveData \/ DidComplete \/ DidCompleteWithError
  PROVE  DownloadNeverStalls'
<1> SUFFICES ASSUME videoData' # Nil PROVE DownloadNeverStalls'
  BY DEF DownloadNeverStalls
<1>1. PICK op \in {"response", "data", "done", "error"} :
        /\ NextEvent(op) /\ events' = Tail(events)
        /\ op = "response" <=> DidReceiveResponse
        /\ op = "data" <=> DidReceiveData
        /\ op = "done" => net' = net /\ videoData' = videoData
        /\ op = "error" => net' = net /\ videoData' = videoData
  BY DEF DidReceiveResponse, DidReceiveData, DidComplete, DidCompleteWithError, NextEvent
<1>2. /\ events # <<>> /\ Head(events).op = op /\ events \in Seq(Event)
      /\ (op = "data" => Head(events).unit \in Unit)
  BY <1>1, HeadEvent DEF TypeOK
<1>3. /\ Len(events) \in Nat /\ Len(events) >= 1 /\ Len(Tail(events)) = Len(events) - 1
      /\ 1 \in DOMAIN events /\ events[1] = Head(events)
      /\ Len(events) = 1 => Tail(events) = <<>>
  <2>1. /\ Len(events) \in Nat /\ DOMAIN events = 1 .. Len(events) /\ Len(events) # 0
    BY <1>2, SeqIsFunction
  <2>2. Len(Tail(events)) = Len(events) - 1 /\ Tail(events) \in Seq(Event) /\ Head(events) = events[1]
    BY <1>2, <2>1
  <2>3. Len(events) = 1 => Tail(events) = <<>>
    <3> DEFINE rest == Tail(events)
    <3>1. rest \in Seq(Event) /\ (Len(events) = 1 => Len(rest) = 0)
      BY <2>2
    <3> HIDE DEF rest
    <3>2. Len(events) = 1 => rest = <<>>
      BY <3>1, EmptySeq
    <3> QED BY <3>2 DEF rest
  <2> QED BY <2>1, <2>2, <2>3
<1>4. videoData \in Seq(Unit) /\ videoData # Nil /\ Len(videoData) \in Nat
  BY <1>1, <1>2, SeqIsFunction, NilAssumption DEF DidReceiveData, DidReceiveResponse, TypeOK
<1>5. /\ Continues(1) /\ Len(videoData) <= net.sent
      /\ net.status = "responded" => Len(events) = 1 /\ events[1].op = "response" /\ net.sent = 0
      /\ net.status = "allowed" => Len(events) = net.sent - Len(videoData) /\ events[1].op = "data"
  BY <1>3, <1>4 DEF StreamOK
<1>6. net.sent \in Nat /\ Size \in Nat /\ Size # 0
  BY SizeAssumption DEF TypeOK, NetState, Download, NoTask
<1>7. CASE op = "response"
  <2>1. /\ videoData' = videoData /\ net.sent = 0 /\ Len(videoData) = 0
        /\ net' = IF net.status = "responded" THEN [net EXCEPT !.status = "allowed"] ELSE net
    BY <1>1, <1>2, <1>3, <1>4, <1>5, <1>6, <1>7 DEF DidReceiveResponse, Continues
  <2>2. CASE net.status = "responded"
    <3>1. net'.status = "allowed" /\ net'.sent = 0
      BY <2>1, <2>2, StatusChanges
    <3>2. events' = <<>> /\ Len(events') = 0
      BY <1>1, <1>3, <1>5, <2>2
    <3> QED BY <2>1, <3>1, <3>2 DEF DownloadNeverStalls
  <2>3. CASE net.status # "responded"
    <3>1. net' = net /\ net.status # "allowed"
      BY <1>2, <1>3, <1>5, <1>7, <2>1, <2>3
    <3>2. ~(net.status = "over" /\ net.url # Nil)
      BY <1>4, <1>6, <2>1 DEF DownloadNeverStalls
    <3> QED BY <2>3, <3>1, <3>2 DEF DownloadNeverStalls
  <2> QED BY <2>2, <2>3
<1>8. CASE op = "data"
  <2>1. /\ net' = net /\ videoData' = Append(videoData, Head(events).unit)
        /\ Len(videoData') = Len(videoData) + 1
    BY <1>1, <1>2, <1>4, <1>8 DEF DidReceiveData
  <2>2. net.status # "responded"
    BY <1>2, <1>3, <1>5, <1>8
  <2>3. Len(videoData') + Len(events') = Len(videoData) + Len(events)
    <3>1. Len(events') = Len(events) - 1
      BY <1>1, <1>3
    <3> QED BY <1>3, <1>4, <2>1, <3>1
  <2>4. net.status = "over" /\ net.url # Nil => Len(videoData) + Len(events) = Size + 1
    BY <1>2, <1>4 DEF DownloadNeverStalls
  <2>5. net.status = "allowed" => Len(videoData) + Len(events) = net.sent
    BY <1>4 DEF DownloadNeverStalls
  <2>6. net.status = "over" /\ net.url # Nil => net.sent = Size
    BY <1>4 DEF DownloadNeverStalls
  <2> HIDE DEF Continues
  <2> QED BY <2>1, <2>2, <2>3, <2>4, <2>5, <2>6 DEF DownloadNeverStalls
<1>9. CASE op \in {"done", "error"}
  <2>1. net' = net /\ videoData' = videoData
    BY <1>1, <1>9
  <2>2. net.status \notin {"responded", "allowed"}
    BY <1>2, <1>3, <1>5, <1>9
  <2>3. ASSUME net.status = "over", net.url # Nil
        PROVE  net.sent = Size /\ Len(videoData) = Size /\ events' = <<>>
    <3>1. net.sent = Size /\ Len(videoData) + Len(events) = Size + 1
      BY <1>2, <1>4, <2>3 DEF DownloadNeverStalls
    <3>2. Len(videoData) + 1 = Size + 1 \/ Len(events) = 1
      BY <1>2, <1>3, <1>5, <1>9 DEF Continues
    <3>3. Len(videoData) = Size /\ Len(events) = 1
      <4> DEFINE n == Len(videoData)
                 m == Len(events)
      <4>1. n \in Nat /\ m \in Nat /\ n + m = Size + 1 /\ (n + 1 = Size + 1 \/ m = 1)
        BY <1>3, <1>4, <3>1, <3>2
      <4> HIDE DEF n, m
      <4>2. n = Size /\ m = 1
        BY <1>6, <4>1
      <4> QED BY <4>2 DEF n, m
    <3> QED BY <1>1, <1>3, <3>1, <3>3
  <2> QED BY <2>1, <2>2, <2>3 DEF DownloadNeverStalls
<1> QED BY <1>1, <1>7, <1>8, <1>9

\* Nothing of a download is lost between the server and the view.
LEMMA DownloadKeptUp ==
  ASSUME TypeOK, OneDownload, StreamOK, DownloadNeverStalls, [Next]_vars
  PROVE  DownloadNeverStalls'
<1>1. CASE \E r \in Requests, first \in 0 .. Size, last \in 0 .. Size :
             first < last /\ ShouldWaitForLoading(r, first, last)
  <2>1. /\ UNCHANGED <<videoData, events>>
        /\ net' = net \/ net'.status = "asked"
    BY <1>1 DEF ShouldWaitForLoading
  <2> QED BY <2>1 DEF DownloadNeverStalls
<1>2. CASE Server
  <2>1. videoData' = videoData /\ events \in Seq(Event) /\ Len(events) \in Nat
    BY <1>2, SeqIsFunction DEF Server, TypeOK
  <2>2. videoData # Nil => Len(videoData) \in Nat /\ Len(videoData) <= net.sent
    BY SeqIsFunction DEF TypeOK, StreamOK
  <2>3. CASE Respond
    <3>1. net'.status = "responded" /\ events' = Append(events, [op |-> "response"])
      BY <2>3, StatusChanges DEF Respond, Deliver
    <3>2. Len(events) + 1 \in DOMAIN events' /\ events'[Len(events) + 1].op = "response"
      BY <2>1, <3>1
    <3> QED BY <3>1, <3>2 DEF DownloadNeverStalls
  <2>4. CASE SendData
    <3>1. /\ net.status = "allowed" /\ net'.status = "allowed" /\ net'.sent = net.sent + 1
          /\ events' = Append(events, [op |-> "data", unit |-> <<net.url, net.sent + 1>>])
      BY <2>4 DEF SendData, Deliver, TypeOK, NetState, Download, NoTask
    <3>2. Len(events') = Len(events) + 1
      BY <2>1, <3>1
    <3>3. videoData # Nil => Len(videoData) + Len(events) = net.sent
      BY <3>1 DEF DownloadNeverStalls
    <3>4. videoData # Nil => Len(videoData) + Len(events') = net'.sent
      BY <2>1, <2>2, <3>1, <3>2, <3>3
    <3> QED BY <2>1, <3>1, <3>4 DEF DownloadNeverStalls
  <2>5. CASE EndOfData
    <3>1. /\ net.status = "allowed" /\ net'.status = "over" /\ net'.sent = net.sent
          /\ net.sent = Size /\ events' = Append(events, [op |-> "done"])
      BY <2>5, StatusChanges DEF EndOfData, Deliver
    <3>2. Len(events') = Len(events) + 1
      BY <2>1, <3>1
    <3>3. videoData # Nil => Len(videoData) + Len(events) = Size
      BY <3>1 DEF DownloadNeverStalls
    <3>4. videoData # Nil => Len(videoData) + Len(events') = Size + 1
      BY <2>1, <2>2, <3>2, <3>3
    <3> QED BY <2>1, <3>1, <3>4 DEF DownloadNeverStalls
  <2> QED BY <1>2, <2>3, <2>4, <2>5 DEF Server
<1>3. CASE Disconnection
  <2>1. net'.status = "failed"
    BY <1>3, StatusChanges DEF Disconnection, NetworkFails, Downloading
  <2> QED BY <2>1 DEF DownloadNeverStalls
<1>4. CASE DidReceiveResponse \/ DidReceiveData \/ DidComplete \/ DidCompleteWithError
  BY <1>4, DelegateKeepsUp
<1>5. CASE InvalidateSession
  <2>1. videoData' = videoData
    BY <1>5 DEF InvalidateSession
  <2>2. UNCHANGED <<net, events>> \/ net'.status = "failed"
    BY <1>5, StatusChanges DEF InvalidateSession, Downloading, netVars
  <2> QED BY <2>1, <2>2 DEF DownloadNeverStalls
<1>6. CASE ForgetTask
  BY <1>6 DEF ForgetTask, DownloadNeverStalls
<1>7. CASE EndProcess
  BY <1>7 DEF EndProcess, NoTask, DownloadNeverStalls
<1>8. CASE \/ \E url \in Urls \cup {NoURL} : CellForRow(url) \/ ReuseCell(url)
           \/ ShowVideo \/ (\E r \in Requests : DidCancel(r)) \/ AssignFilter
           \/ ForgetSession \/ FinishRequests \/ RemoveRequests
           \/ CacheWorks \/ UNCHANGED vars
  <2>1. UNCHANGED <<videoData, net, events>>
    BY <1>8 DEF CellForRow, ReuseCell, ShowVideo, DidCancel, AssignFilter, ForgetSession,
       FinishRequests, RemoveRequests, CacheWorks, vars, netVars
  <2> QED BY <2>1 DEF DownloadNeverStalls
<1> QED BY Steps, <1>1, <1>2, <1>3, <1>4, <1>5, <1>6, <1>7, <1>8

-----------------------------------------------------------------------------
\* The invariant.

LEMMA Start ==
  ASSUME Init
  PROVE  Inv
<1> USE SizeAssumption, ReusesAssumption DEF Init, FreshView, Cache!Init
<1>1. TypeOK
  <2>1. IsMap(files, Urls, Seq(Unit) \cup {Empty})
    <3>1. files = NoEntries
      BY DEF NoEntries, Cache!NoEntries
    <3> QED BY <3>1, NoEntriesIsMap
  <2>2. Idle \in RequestState
    BY DEF Idle, RequestState
  <2>3. \A r \in Requests : CurrentOffset(r) = 0 /\ request[r].last = 0
    BY DEF CurrentOffset, Idle
  <2>4. net \in NetState /\ cancels \in 0 .. reuses /\ reuses \in 0 .. MaxReuses
    BY DEF NetState
  <2> QED BY <2>1, <2>2, <2>3, <2>4 DEF TypeOK
<1>2. OneDownload /\ StreamOK
  <2>1. videoData # Nil
    <3>1. videoData = <<>> /\ Nil \notin Seq(Unit)
      BY NilAssumption
    <3>2. <<>> \in Seq(Unit)
      OBVIOUS
    <3> QED BY <3>1, <3>2
  <2>2. net.status = "over" /\ net.sent = 0 /\ events = <<>> /\ videoData = <<>>
    BY DEF NoTask
  <2> QED BY <2>1, <2>2 DEF OneDownload, StreamOK
<1>3. FirstUse
  BY DEF FirstUse, NoTask, Idle
<1>4. LastAnswer /\ StoresWhole
  BY NilAssumption DEF LastAnswer, StoresWhole
<1>5. StoredWhole
  BY DEF StoredWhole, NoEntries, Cache!NoEntries
<1>6. DeliveredIsTheVideo
  <2>1. \A r \in Requests : request[r].got = <<>>
    BY DEF Idle
  <2> QED BY <2>1 DEF DeliveredIsTheVideo
<1>7. Listed
  BY DEF Listed, WaitingIsListed, Waiting, Idle
<1>8. ServedIsUpToDate /\ DownloadNeverStalls
  BY DEF ServedIsUpToDate, DownloadNeverStalls, Waiting, Idle, NoTask
<1> QED BY <1>1, <1>2, <1>3, <1>4, <1>5, <1>6, <1>7, <1>8 DEF Inv

LEMMA Step ==
  ASSUME Inv, [Next]_vars
  PROVE  Inv'
BY Types, OneDownloadKept, StreamKept, FirstUseKept, LastAnswerKept, StoresKept, DeliveredKept,
   ListedKept, UpToDateKept, DownloadKeptUp DEF Inv, Listed

\* The invariant is one of every behaviour.
THEOREM Invariance == Spec => []Inv
BY Start, Step, PTL DEF Spec

\* Every variable of the player keeps its type, and no loading request is given more
\* than it asked.
THEOREM TypeCorrect == Spec => []TypeOK
<1>1. Inv => TypeOK
  BY DEF Inv
<1> QED BY <1>1, Invariance, PTL

\* didCompleteWithError: whatever download is stored, under whatever key, it is one
\* video from its first unit to its last, or no byte.
THEOREM FilesAreWhole == Spec => []StoredWhole
<1>1. Inv => StoredWhole
  BY DEF Inv
<1> QED BY <1>1, Invariance, PTL

\* VideoPlayerView.configure: the item in the player is the post's once main is idle.
THEOREM PlayerShowsThePost == Spec => []ShownVideoMatchesPost
<1>1. Inv => ShownVideoMatchesPost
  BY DEF Inv, LastAnswer, ShownVideoMatchesPost
<1> QED BY <1>1, Invariance, PTL

\* processLoadingRequest and cancelAllLoadingRequest rewrite loadingRequests: only a
\* request listed in the middle of it is lost.
THEOREM RequestsAreKnown == Spec => []WaitingIsListed
<1>1. Inv => WaitingIsListed
  BY DEF Inv, Listed
<1> QED BY <1>1, Invariance, PTL

\* checkAndRespond: a cell used once gives AVFoundation the units it asked, each once
\* and in order.
THEOREM GivenInOrder == Spec => []DeliveredIsTheVideo
<1>1. Inv => DeliveredIsTheVideo
  BY DEF Inv
<1> QED BY <1>1, Invariance, PTL

\* processLoadingRequest: a request that is listed in time and got some data is never
\* behind the data received, whatever the cancellations of former posts do to the list.
THEOREM ServedAsItComes == Spec => []ServedIsUpToDate
<1>1. Inv => ServedIsUpToDate
  BY DEF Inv
<1> QED BY <1>1, Invariance, PTL

\* Between the server and videoData no response, no unit and no end of a download is
\* missed, for videos of every length.
THEOREM NothingIsMissed == Spec => []DownloadNeverStalls
<1>1. Inv => DownloadNeverStalls
  BY DEF Inv
<1> QED BY <1>1, Invariance, PTL

-----------------------------------------------------------------------------
\* Steps of the player.

\* A store that is asked by a cell used once is of the video it is asked for.
LEMMA StoresItsVideo ==
  ASSUME Inv, [Next]_vars
  PROVE  LET asked == requests'[Len(requests')] IN
         (reuses = 0 /\ Len(requests') > Len(requests) /\ asked.op = "store")
           => asked.data = Whole(asked.path)
<1> SUFFICES ASSUME reuses = 0, Len(requests') > Len(requests),
                    requests'[Len(requests')].op = "store"
             PROVE  requests'[Len(requests')].data = Whole(requests'[Len(requests')].path)
  OBVIOUS
<1>1. TypeOK /\ OneDownload /\ StreamOK /\ FirstUse /\ requests \in Seq(Job) /\ Len(requests) \in Nat
  BY SeqIsFunction DEF Inv, TypeOK
<1>2. ASSUME NEW job \in Job, requests' = Append(requests, job)
      PROVE  requests'[Len(requests')] = job
  BY <1>1, <1>2, AppendSeq
<1>3. CASE \E url \in Urls \cup {NoURL} : CellForRow(url) \/ ReuseCell(url)
  <2>1. PICK url \in Urls \cup {NoURL} : QueryURL(url)
    BY <1>3 DEF CellForRow, ReuseCell
  <2>2. CASE UNCHANGED cacheVars
    BY <1>1, <2>2 DEF cacheVars
  <2>3. CASE url \in Urls /\ Cache!Ask([op |-> "query", path |-> url, epoch |-> 0])
    <3> DEFINE job == [op |-> "query", path |-> url, epoch |-> 0]
    <3>1. job \in Job /\ job.op # "store" /\ requests' = Append(requests, job)
      BY <2>3, QueryIsJob DEF Cache!Ask
    <3> HIDE DEF job
    <3> QED BY <1>2, <3>1
  <2> QED BY <2>1, <2>2, <2>3 DEF QueryURL
<1>4. CASE DidComplete
  <2> DEFINE job == [op |-> "store", path |-> originalURL, data |-> videoData, epoch |-> 0]
  <2>1. videoData # Nil
    BY <1>1 DEF OneDownload
  <2>2. net.url \in Urls /\ videoData = Whole(net.url)
    BY <1>1, <1>4, <2>1, WholeAtTheEnd DEF DidComplete
  <2>3. originalURL = net.url
    BY <1>1, <1>4, <2>2, NilAssumption DEF FirstUse, DidComplete
  <2>4. job \in Job /\ job.data = Whole(job.path)
    BY <1>1, <1>4, <2>2, <2>3 DEF DidComplete, TypeOK, Job, StoreJob
  <2>5. requests' = Append(requests, job)
    BY <1>4 DEF DidComplete, Cache!Ask
  <2> HIDE DEF job
  <2> QED BY <1>2, <2>4, <2>5
<1>5. CASE CacheWorks
  <2>1. requests # <<>> /\ requests' = Tail(requests)
    BY <1>5 DEF CacheWorks, Cache!ServeStore, Cache!ServeQuery, Cache!Serving
  <2> QED BY <1>1, <2>1, TailSeq
<1>6. CASE EndProcess
  BY <1>1, <1>6 DEF EndProcess, Cache!Restart
<1>7. CASE requests' = requests
  BY <1>1, <1>7
<1>8. CASE \/ ShowVideo
           \/ \E r \in Requests, first \in 0 .. Size, last \in 0 .. Size :
                first < last /\ ShouldWaitForLoading(r, first, last)
           \/ (\E r \in Requests : DidCancel(r)) \/ Server \/ Disconnection
           \/ DidReceiveResponse \/ DidReceiveData \/ DidCompleteWithError \/ AssignFilter
           \/ InvalidateSession \/ ForgetSession \/ ForgetTask \/ FinishRequests
           \/ RemoveRequests \/ UNCHANGED vars
  BY <1>7, <1>8 DEF ShowVideo, Cache!RunAnswer, ShouldWaitForLoading, DidCancel, Server,
     Disconnection, DidReceiveResponse, DidReceiveData, DidCompleteWithError, AssignFilter,
     InvalidateSession, ForgetSession, ForgetTask, FinishRequests, RemoveRequests, vars, cacheVars
<1> QED BY Steps, <1>3, <1>4, <1>5, <1>6, <1>8

\* didCompleteWithError: until its cell is reused, the download stored under a URL is
\* the whole video of that URL.
THEOREM KeysFit == Spec => FirstUseStoresItsVideo
<1>1. Inv /\ [Next]_vars =>
        [LET asked == requests'[Len(requests')] IN
           (reuses = 0 /\ Len(requests') > Len(requests) /\ asked.op = "store")
             => asked.data = Whole(asked.path)]_vars
  BY StoresItsVideo
<1> QED BY <1>1, Invariance, PTL DEF Spec, FirstUseStoresItsVideo
=============================================================================
