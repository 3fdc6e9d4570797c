----------------------- MODULE FirestoreWritesProofs -----------------------
(***************************************************************************)
(* The write path of Firestore for every number of writes, every depth of  *)
(* the pipeline and every fault.  The inductive invariant IInv ties the    *)
(* four places a write can be in: the pipeline, after the batch that is    *)
(* being acknowledged, is the first part of the queue (SettlingOK,         *)
(* PipelineOK); after the handshake the results to read, the write refused *)
(* and the requests not handled make up the pipeline (CallOK), which is    *)
(* why a result, which names no write, is about the front; and what was    *)
(* taken and is newer than the document is still queued and unanswered     *)
(* (DocumentOK), which is why a repetition ends with the newest.           *)
(***************************************************************************)
EXTENDS FirestoreWrites, DataFacts

-----------------------------------------------------------------------------
\* Typing.

\* What the typing says of the sequences.
LEMMA Shapes ==
  ASSUME TypeOK
  PROVE  /\ Len(pipeline) \in Nat /\ DOMAIN pipeline = 1 .. Len(pipeline)
         /\ \A i \in 1 .. Len(pipeline) :
              pipeline[i].id \in 1 .. MaxWrites /\ pipeline[i].write \in 1 .. MaxWrites
         /\ Len(callbacks) \in Nat /\ DOMAIN callbacks = 1 .. Len(callbacks)
         /\ \A i \in 1 .. Len(callbacks) :
              callbacks[i].write \in 1 .. MaxWrites /\ callbacks[i].ok \in BOOLEAN
         /\ Len(requests) \in Nat /\ DOMAIN requests = 1 .. Len(requests)
         /\ \A i \in 1 .. Len(requests) : requests[i] \in 1 .. MaxWrites
         /\ Len(responses) \in Nat /\ DOMAIN responses = 1 .. Len(responses)
         /\ \A i \in 1 .. Len(responses) : responses[i] \in 1 .. MaxWrites
<1>1. /\ pipeline \in Seq(Batch) /\ callbacks \in Seq(Answer)
      /\ requests \in Seq(1 .. MaxWrites) /\ responses \in Seq(1 .. MaxWrites)
  BY DEF TypeOK
<1>2. \A b \in Batch : b.id \in 1 .. MaxWrites /\ b.write \in 1 .. MaxWrites
  BY DEF Batch
<1>3. \A a \in Answer : a.write \in 1 .. MaxWrites /\ a.ok \in BOOLEAN
  BY DEF Answer
<1>4. /\ Len(pipeline) \in Nat /\ DOMAIN pipeline = 1 .. Len(pipeline)
      /\ \A i \in DOMAIN pipeline : pipeline[i] \in Batch
  BY <1>1, SeqIsFunction
<1>5. /\ Len(callbacks) \in Nat /\ DOMAIN callbacks = 1 .. Len(callbacks)
      /\ \A i \in DOMAIN callbacks : callbacks[i] \in Answer
  BY <1>1, SeqIsFunction
<1>6. /\ Len(requests) \in Nat /\ DOMAIN requests = 1 .. Len(requests)
      /\ \A i \in DOMAIN requests : requests[i] \in 1 .. MaxWrites
  BY <1>1, SeqIsFunction
<1>7. /\ Len(responses) \in Nat /\ DOMAIN responses = 1 .. Len(responses)
      /\ \A i \in DOMAIN responses : responses[i] \in 1 .. MaxWrites
  BY <1>1, SeqIsFunction
<1> QED BY <1>2, <1>3, <1>4, <1>5, <1>6, <1>7

\* The pipeline as a list of writes.
LEMMA WritesOfPipeline ==
  ASSUME TypeOK
  PROVE  /\ WritesOf(pipeline) \in Seq(1 .. MaxWrites)
         /\ Len(WritesOf(pipeline)) = Len(pipeline)
         /\ \A i \in 1 .. Len(pipeline) : WritesOf(pipeline)[i] = pipeline[i].write
<1>1. WritesOf(pipeline) \in [1 .. Len(pipeline) -> 1 .. MaxWrites]
  BY Shapes DEF WritesOf
<1> QED BY <1>1, Shapes, FunctionIsSeq DEF WritesOf

\* NotifyUser, whoever waits.
LEMMA NotifyTypes ==
  ASSUME TypeOK, NEW id, NEW ok \in BOOLEAN, NotifyUser(id, ok)
  PROVE  callbacks' \in Seq(Answer) /\ waiting' \subseteq Batch
<1>1. waiting' \subseteq Batch
  BY DEF NotifyUser, TypeOK
<1>2. CASE \E entry \in waiting : entry.id = id
  <2> DEFINE entry == CHOOSE entry \in waiting : entry.id = id
  <2>1. entry \in Batch
    BY <1>2 DEF TypeOK
  <2>2. [write |-> entry.write, ok |-> ok] \in Answer
    BY <2>1 DEF Batch, Answer
  <2>3. callbacks' = Append(callbacks, [write |-> entry.write, ok |-> ok])
    BY <1>2 DEF NotifyUser
  <2> HIDE DEF entry
  <2> QED BY <1>1, <2>2, <2>3, AppendSeq DEF TypeOK
<1>3. CASE ~\E entry \in waiting : entry.id = id
  BY <1>1, <1>3 DEF NotifyUser, TypeOK
<1> QED BY <1>2, <1>3

\* Init is typed.
LEMMA InitTypes == Init => TypeOK
<1> SUFFICES ASSUME Init PROVE TypeOK
  OBVIOUS
<1>1. IsMap(queue, 1 .. MaxWrites, 1 .. MaxWrites)
  BY NoEntriesIsMap DEF Init
<1>2. /\ callbacks \in Seq(Answer) /\ pipeline \in Seq(Batch) /\ Len(pipeline) = 0
      /\ requests \in Seq(1 .. MaxWrites) /\ responses \in Seq(1 .. MaxWrites)
  BY DEF Init
<1>3. /\ asked \in 0 .. MaxWrites /\ told \subseteq Answer /\ document \in 0 .. MaxWrites
      /\ nextId \in 1 .. MaxWrites + 1 /\ waiting \subseteq Batch
      /\ committed \subseteq 1 .. MaxWrites /\ refused \subseteq 1 .. MaxWrites
  BY WritesAssumption DEF Init
<1>4. /\ up \in BOOLEAN /\ worker = "free" /\ settling = NoBatch
      /\ stream = "initial" /\ handshake \in BOOLEAN /\ idle \in BOOLEAN
      /\ tokens = {} /\ ended = "no"
  BY DEF Init
<1> QED BY <1>1, <1>2, <1>3, <1>4, WritesAssumption DEF TypeOK

\* A closed stream.
LEMMA ClosedTypes ==
  ASSUME TypeOK, Closed
  PROVE  /\ handshake' \in BOOLEAN /\ idle' \in BOOLEAN
         /\ requests' \in Seq(1 .. MaxWrites) /\ responses' \in Seq(1 .. MaxWrites)
         /\ ended' \in {"no", "refused", "reading"}
         /\ Outdated \subseteq {"current", "stale"} /\ {} \subseteq {"current", "stale"}
<1>1. requests' = <<>> /\ responses' = <<>>
  BY DEF Closed
<1>2. requests' \in Seq(1 .. MaxWrites) /\ responses' \in Seq(1 .. MaxWrites)
  BY <1>1
<1> QED BY <1>2 DEF Closed, Outdated

\* The steps of the stream keep the types.
LEMMA StreamTypes == TypeOK /\ Stream => TypeOK'
<1> SUFFICES ASSUME TypeOK, Stream PROVE TypeOK'
  OBVIOUS
<1>1. CASE TokenArrives
  BY <1>1 DEF TypeOK, TokenArrives, userVars, localVars, callVars, serverVars
<1>2. CASE StaleTokenArrives
  BY <1>2 DEF TypeOK, StaleTokenArrives, userVars, localVars, callVars, serverVars
<1>3. CASE BackoffElapses
  BY <1>3 DEF TypeOK, BackoffElapses, Start, userVars, localVars, callVars, serverVars
<1>4. CASE CloseAndRetry
  BY <1>4, ClosedTypes DEF TypeOK, CloseAndRetry, userVars, localVars, serverVars
<1>5. CASE IdleTimeout
  BY <1>5, ClosedTypes DEF TypeOK, IdleTimeout, userVars, localVars, serverVars
<1>6. CASE HandshakeComplete
  <2>1. requests' \in Seq(1 .. MaxWrites)
    BY <1>6, WritesOfPipeline, ConcatSeq DEF HandshakeComplete, TypeOK
  <2> QED BY <1>6, <2>1 DEF TypeOK, HandshakeComplete, userVars, localVars, serverVars
<1> QED BY <1>1, <1>2, <1>3, <1>4, <1>5, <1>6 DEF Stream, TokenFails, StreamBreaks

\* An entry of the queue makes a batch.
LEMMA BatchOfQueue ==
  ASSUME TypeOK, NEW id \in DOMAIN queue
  PROVE  [id |-> id, write |-> queue[id]] \in Batch
<1>1. id \in 1 .. MaxWrites /\ queue[id] \in 1 .. MaxWrites
  BY DEF TypeOK, IsMap
<1> QED BY <1>1 DEF Batch

\* The next batch is one of the queue, after all of the pipeline, and the first such.
LEMMA NextBatch ==
  ASSUME TypeOK, Later # {}
  PROVE  /\ Min(Later) \in DOMAIN queue
         /\ \A id \in Later : Min(Later) <= id
         /\ pipeline # <<>> => Min(Later) > pipeline[Len(pipeline)].id
<1>1. Later \subseteq Nat
  BY DEF Later, TypeOK, IsMap
<1>2. Min(Later) \in Later /\ \A id \in Later : Min(Later) <= id
  BY <1>1, LeastOf
<1> QED BY <1>2 DEF Later

\* The front of the pipeline leaves it.
LEMMA FrontTypes ==
  ASSUME TypeOK, pipeline # <<>>, pipeline' = Tail(pipeline)
  PROVE  /\ pipeline' \in Seq(Batch) /\ Len(pipeline') <= MaxPending
         /\ Head(pipeline) \in Batch
<1>1. /\ pipeline' \in Seq(Batch) /\ Head(pipeline) \in Batch
      /\ Len(pipeline') = Len(pipeline) - 1 /\ Len(pipeline) \in Nat
  BY TailSeq, Shapes DEF TypeOK
<1> QED BY <1>1, WritesAssumption DEF TypeOK

\* The steps on the worker queue keep the types.
LEMMA ClientTypes ==
  ASSUME TypeOK, Client,
         WriteMutations => nextId <= MaxWrites,
         responses # <<>> \/ ended # "no" => pipeline # <<>>
  PROVE  TypeOK'
<1> USE WritesAssumption
<1>1. CASE WriteMutations
  <2>1. asked + 1 \in 1 .. MaxWrites /\ nextId \in 1 .. MaxWrites
    BY <1>1 DEF WriteMutations, TypeOK
  <2>2. IsMap(queue', 1 .. MaxWrites, 1 .. MaxWrites)
    BY <1>1, <2>1, PutIsMap DEF WriteMutations, TypeOK
  <2>3. waiting' \subseteq Batch
    BY <1>1, <2>1 DEF WriteMutations, TypeOK, Batch
  <2> QED BY <1>1, <2>1, <2>2, <2>3 DEF WriteMutations, TypeOK, streamVars, callVars, serverVars
<1>2. CASE MutationResult
  <2>1. /\ handshake /\ responses # <<>> /\ responses' = Tail(responses)
        /\ pipeline' = Tail(pipeline) /\ settling' = Head(pipeline)
        /\ NotifyUser(Head(pipeline).id, TRUE)
    BY <1>2 DEF MutationResult
  <2>2. responses' \in Seq(1 .. MaxWrites)
    BY <2>1, TailSeq DEF TypeOK
  <2>3. callbacks' \in Seq(Answer) /\ waiting' \subseteq Batch
    BY <2>1, NotifyTypes
  <2>4. pipeline' \in Seq(Batch) /\ Len(pipeline') <= MaxPending /\ settling' \in Batch
    BY <2>1, FrontTypes
  <2> QED BY <1>2, <2>2, <2>3, <2>4 DEF MutationResult, TypeOK, userVars, streamVars, serverVars
<1>3. CASE AcknowledgeBatch
  <2>1. IsMap(queue', 1 .. MaxWrites, 1 .. MaxWrites)
    BY <1>3, DropIsMap DEF AcknowledgeBatch, TypeOK
  <2> QED BY <1>3, <2>1 DEF AcknowledgeBatch, TypeOK, userVars, streamVars, callVars, serverVars
<1>4. CASE HandleWriteError
  <2>1. /\ ended # "no" /\ NotifyUser(Head(pipeline).id, FALSE) /\ pipeline' = Tail(pipeline)
        /\ queue' = Drop(queue, {Head(pipeline).id})
    BY <1>4 DEF HandleWriteError
  <2>2. callbacks' \in Seq(Answer) /\ waiting' \subseteq Batch
    BY <2>1, NotifyTypes
  <2>3. pipeline' \in Seq(Batch) /\ Len(pipeline') <= MaxPending
    BY <2>1, FrontTypes
  <2>4. IsMap(queue', 1 .. MaxWrites, 1 .. MaxWrites)
    BY <2>1, DropIsMap DEF TypeOK
  <2> QED BY <1>4, <2>2, <2>3, <2>4, ClosedTypes DEF HandleWriteError, TypeOK, userVars, serverVars
<1>5. CASE RestartNetwork
  <2>1. pipeline' = <<>>
    BY <1>5 DEF RestartNetwork
  <2>2. pipeline' \in Seq(Batch) /\ Len(pipeline') = 0
    BY <2>1
  <2> QED BY <1>5, <2>2, ClosedTypes DEF RestartNetwork, TypeOK, userVars, localVars, serverVars
<1>6. CASE AddToWritePipeline
  <2> DEFINE batch == [id |-> Min(Later), write |-> queue[Min(Later)]]
  <2>1. Later # {} /\ Len(pipeline) < MaxPending
    BY <1>6 DEF AddToWritePipeline, CanAdd
  <2>2. batch \in Batch
    BY <2>1, NextBatch, BatchOfQueue
  <2>3. batch.write \in 1 .. MaxWrites
    BY <2>2 DEF Batch
  <2>4. /\ pipeline' = Append(pipeline, batch)
        /\ requests' = IF handshake THEN Append(requests, batch.write) ELSE requests
        /\ idle' = (idle /\ ~handshake)
    BY <1>6 DEF AddToWritePipeline
  <2> HIDE DEF batch
  <2>5. pipeline' \in Seq(Batch) /\ Len(pipeline') = Len(pipeline) + 1
    BY <2>2, <2>4, AppendSeq DEF TypeOK
  <2>6. requests' \in Seq(1 .. MaxWrites)
    BY <2>3, <2>4, AppendSeq DEF TypeOK
  <2>7. Len(pipeline') <= MaxPending
    BY <2>1, <2>5, Shapes
  <2>8. idle' \in BOOLEAN
    BY <2>4
  <2> QED BY <1>6, <2>5, <2>6, <2>7, <2>8 DEF AddToWritePipeline, TypeOK, userVars, localVars,
         serverVars
<1>7. CASE FillEnds
  BY <1>7 DEF FillEnds, Start, TypeOK, userVars, localVars, callVars, serverVars
<1>8. CASE RunCallback
  <2>1. Head(callbacks) \in Answer /\ Tail(callbacks) \in Seq(Answer)
    BY <1>8, TailSeq DEF RunCallback, TypeOK
  <2> QED BY <1>8, <2>1 DEF RunCallback, TypeOK, localVars, streamVars, callVars, serverVars
<1> QED BY <1>1, <1>2, <1>3, <1>4, <1>5, <1>6, <1>7, <1>8 DEF Client

\* The server, the end and the start of the process keep the types.
LEMMA OutsideTypes ==
  ASSUME TypeOK, Server \/ EndProcess \/ Launch
  PROVE  TypeOK'
<1> USE WritesAssumption
<1>1. CASE Commit
  <2> DEFINE w == Head(requests)
  <2>1. w \in 1 .. MaxWrites
    BY <1>1, TailSeq DEF Commit, TypeOK
  <2>2. committed' = committed \cup {w} /\ document' = w
    BY <1>1 DEF Commit
  <2>3. committed' \subseteq 1 .. MaxWrites /\ document' \in 0 .. MaxWrites
    <3> HIDE DEF w
    <3> QED BY <2>1, <2>2 DEF TypeOK
  <2>4. requests' \in Seq(1 .. MaxWrites) /\ responses' \in Seq(1 .. MaxWrites)
    BY <1>1, <2>1, TailSeq, AppendSeq DEF Commit, TypeOK
  <2>5. UNCHANGED <<asked, told, queue, nextId, waiting, up, callbacks, worker, settling,
                    pipeline, stream, handshake, idle, tokens, ended, refused>>
    BY <1>1 DEF Commit, userVars, localVars, streamVars
  <2> QED BY <2>3, <2>4, <2>5 DEF TypeOK
<1>2. CASE Refuse
  <2>1. Head(requests) \in 1 .. MaxWrites /\ Tail(requests) \in Seq(1 .. MaxWrites)
    BY <1>2, TailSeq DEF Refuse, TypeOK
  <2> QED BY <1>2, <2>1 DEF Refuse, TypeOK, userVars, localVars, streamVars
<1>3. CASE EndProcess
  <2>1. callbacks' = <<>> /\ pipeline' = <<>> /\ Closed
    BY <1>3 DEF EndProcess
  <2>2. callbacks' \in Seq(Answer) /\ pipeline' \in Seq(Batch) /\ Len(pipeline') = 0
    BY <2>1
  <2>3. nextId' = 1 /\ waiting' = {} /\ up' = FALSE
    BY <1>3 DEF EndProcess
  <2>4. /\ worker' = "free" /\ settling' = NoBatch /\ stream' = "initial" /\ tokens' = {}
        /\ UNCHANGED <<asked, told, queue, committed, refused, document>>
    BY <1>3 DEF EndProcess, userVars, serverVars
  <2>5. nextId' \in 1 .. MaxWrites + 1 /\ waiting' \subseteq Batch
    BY <2>3
  <2>6. /\ handshake' \in BOOLEAN /\ idle' \in BOOLEAN
        /\ requests' \in Seq(1 .. MaxWrites) /\ responses' \in Seq(1 .. MaxWrites)
        /\ ended' \in {"no", "refused", "reading"}
    BY <2>1, ClosedTypes
  <2>7. up' \in BOOLEAN
    BY <2>3
  <2> QED BY <2>2, <2>4, <2>5, <2>6, <2>7 DEF TypeOK
<1>4. CASE Launch
  <2>1. Max(DOMAIN queue \cup {0}) \in DOMAIN queue \cup {0}
    <3>1. DOMAIN queue \cup {0} \subseteq 0 .. MaxWrites
      BY DEF TypeOK, IsMap
    <3> QED BY <3>1, GreatestOf
  <2>2. nextId' \in 1 .. MaxWrites + 1
    BY <1>4, <2>1 DEF Launch, TypeOK, IsMap
  <2> QED BY <1>4, <2>2 DEF Launch, TypeOK, userVars, streamVars, callVars, serverVars
<1> QED BY <1>1, <1>2, <1>3, <1>4 DEF Server

-----------------------------------------------------------------------------
\* The inductive invariant.

\* The queue holds the last of the writes asked, in order, under ids not yet given
\* to another.
QueueOK ==
  /\ \A id \in DOMAIN queue : id <= asked /\ queue[id] <= asked /\ (up => id < nextId)
  /\ \A a, b \in DOMAIN queue : a < b => queue[a] < queue[b]
  /\ \A v \in 1 .. asked, id \in DOMAIN queue : queue[id] <= v => v \in QueuedWrites
  /\ nextId <= asked + 1

\* Whoever waits for an answer waits once and has heard none.
WaitersOK ==
  /\ ~up => waiting = {}
  /\ \A e \in waiting : e.id < nextId /\ e.write <= asked
  /\ \A e \in waiting : e.id \in DOMAIN queue => e.write = queue[e.id]
  /\ \A d, e \in waiting : d.id = e.id \/ d.write = e.write => d = e
  /\ \A e \in waiting, i \in DOMAIN callbacks : e.write # callbacks[i].write
  /\ \A e \in waiting, a \in told : e.write # a.write

\* What is answered was asked, and once.
AnswersOK ==
  /\ \A i \in DOMAIN callbacks : callbacks[i].write <= asked
  /\ \A a \in told : a.write <= asked
  /\ AnsweredOnce

\* The batch that is being acknowledged and after it the pipeline are the first of the
\* queue, in its order.
SettlingOK ==
  worker = "acknowledging" =>
    /\ up
    /\ settling.id \in DOMAIN queue
    /\ settling.write = queue[settling.id]
    /\ settling.write \in committed
    /\ \A id \in DOMAIN queue : settling.id <= id
    /\ \A i \in DOMAIN pipeline : settling.id < pipeline[i].id

PipelineOK ==
  /\ \A i \in DOMAIN pipeline :
       pipeline[i].id \in DOMAIN queue /\ pipeline[i].write = queue[pipeline[i].id]
  /\ \A i, j \in DOMAIN pipeline : i < j => pipeline[i].id < pipeline[j].id
  /\ \A i \in DOMAIN pipeline, id \in DOMAIN queue :
       id < pipeline[i].id =>
         \/ worker = "acknowledging" /\ id = settling.id
         \/ \E j \in DOMAIN pipeline : j < i /\ pipeline[j].id = id

\* After the handshake the call carries the pipeline: results to read, then the write
\* refused if one was, then what the server has not handled.  Before it, nothing.
Rejected == IF ended = "no" THEN 0 ELSE 1

CallOK ==
  /\ ~handshake => requests = <<>> /\ responses = <<>> /\ ended = "no"
  /\ handshake => Len(pipeline) = Len(responses) + Rejected + Len(requests)
  /\ \A i \in DOMAIN responses :
       responses[i] \in committed /\ responses[i] = pipeline[i].write
  /\ \A i \in DOMAIN requests :
       requests[i] = pipeline[Len(responses) + Rejected + i].write
  /\ ended # "no" => pipeline[Len(responses) + 1].write \in refused

\* A stream that is not idle is needed.
StreamOK ==
  /\ stream \in {"starting", "backoff"} => pipeline # <<>>
  /\ stream = "open" /\ ~handshake => pipeline # <<>>
  /\ "current" \in tokens => stream = "starting"
  /\ handshake => stream = "open"
  /\ idle => handshake /\ pipeline = <<>>

\* A success on its way to the user is true.
TruthOK ==
  /\ SuccessIsTrue
  /\ \A i \in DOMAIN callbacks : callbacks[i].ok => callbacks[i].write \in committed

\* What the server took was asked, and in order.
OrderOK ==
  /\ \A w \in committed : w <= asked
  /\ WritesStayInOrder

\* A write taken that is newer than the document will be taken again: it is queued, and
\* no result for it is on its way.
DocumentOK ==
  /\ committed # {} => document \in committed
  /\ \A m \in committed :
       m > document =>
         \/ m \in refused
         \/ /\ m \in QueuedWrites
            /\ \A i \in DOMAIN responses : responses[i] # m
            /\ worker = "acknowledging" => settling.write # m

IInv ==
  /\ TypeOK /\ NothingIsLost
  /\ QueueOK /\ WaitersOK /\ AnswersOK
  /\ SettlingOK /\ PipelineOK /\ CallOK /\ StreamOK
  /\ TruthOK /\ OrderOK /\ DocumentOK

-----------------------------------------------------------------------------
\* Steps as the invariant sees them.

\* The stream's steps concern the stream and the call only.
LEMMA StreamFrame ==
  Stream => UNCHANGED <<asked, told, queue, nextId, waiting, up, callbacks, worker, settling,
                        pipeline, committed, refused, document>>
BY DEF Stream, TokenArrives, TokenFails, StaleTokenArrives, BackoffElapses, HandshakeComplete,
   StreamBreaks, IdleTimeout, CloseAndRetry, userVars, localVars, serverVars

\* So do the loop's and the network's, but for the pipeline and the worker.
LEMMA FillFrame ==
  AddToWritePipeline \/ FillEnds \/ RestartNetwork =>
    UNCHANGED <<asked, told, queue, nextId, waiting, up, callbacks, settling,
                committed, refused, document>>
BY DEF AddToWritePipeline, FillEnds, RestartNetwork, userVars, localVars, serverVars

\* The server's steps concern the call and the server.
LEMMA ServerFrame ==
  Server => UNCHANGED <<asked, told, queue, nextId, waiting, up, callbacks, worker, settling,
                        pipeline, stream, handshake, idle, tokens>>
BY DEF Server, Commit, Refuse, userVars, localVars, streamVars

\* The kinds of steps.
LEMMA Steps ==
  ASSUME [Next]_vars
  PROVE  \/ Stream \/ Server \/ AddToWritePipeline \/ FillEnds \/ RestartNetwork
         \/ WriteMutations \/ MutationResult \/ AcknowledgeBatch \/ HandleWriteError
         \/ RunCallback \/ EndProcess \/ Launch \/ UNCHANGED vars
BY DEF Next, Client

\* Neither in the pipeline nor settled is earlier than the front.
LEMMA FrontIsFirst ==
  ASSUME TypeOK, PipelineOK, worker = "free", pipeline # <<>>
  PROVE  /\ Head(pipeline) = pipeline[1] /\ 1 \in DOMAIN pipeline
         /\ Head(pipeline).id \in DOMAIN queue
         /\ Head(pipeline).write = queue[Head(pipeline).id]
         /\ \A id \in DOMAIN queue : Head(pipeline).id <= id
         /\ Len(Tail(pipeline)) = Len(pipeline) - 1
         /\ DOMAIN Tail(pipeline) = 1 .. Len(pipeline) - 1
         /\ \A i \in DOMAIN Tail(pipeline) :
              i + 1 \in DOMAIN pipeline /\ Tail(pipeline)[i] = pipeline[i + 1]
<1>1. /\ Head(pipeline) = pipeline[1] /\ 1 \in DOMAIN pipeline
      /\ Tail(pipeline) \in Seq(Batch)
      /\ Len(Tail(pipeline)) = Len(pipeline) - 1
      /\ \A i \in DOMAIN Tail(pipeline) :
           i + 1 \in DOMAIN pipeline /\ Tail(pipeline)[i] = pipeline[i + 1]
  BY TailSeq DEF TypeOK
<1>2. DOMAIN Tail(pipeline) = 1 .. Len(pipeline) - 1
  BY <1>1, SeqIsFunction
<1>3. ASSUME NEW id \in DOMAIN queue, id < pipeline[1].id PROVE FALSE
  <2>1. PICK j \in DOMAIN pipeline : j < 1
    BY <1>1, <1>3 DEF PipelineOK
  <2> QED BY <2>1, Shapes
<1>4. pipeline[1].id \in Nat /\ DOMAIN queue \subseteq Nat
  BY <1>1, Shapes DEF TypeOK, IsMap
<1>5. \A id \in DOMAIN queue : pipeline[1].id <= id
  BY <1>3, <1>4
<1> QED BY <1>1, <1>2, <1>5 DEF PipelineOK

\* The queue without its first batch.
LEMMA QueueServed ==
  ASSUME TypeOK, QueueOK, NEW first \in DOMAIN queue,
         \A id \in DOMAIN queue : first <= id,
         queue' = Drop(queue, {first}), UNCHANGED asked,
         up' = up, nextId' = nextId
  PROVE  /\ QueueOK'
         /\ DOMAIN queue' = DOMAIN queue \ {first}
         /\ \A id \in DOMAIN queue' : queue'[id] = queue[id]
         /\ QueuedWrites' = QueuedWrites \ {queue[first]}
<1>1. /\ DOMAIN queue' = DOMAIN queue \ {first}
      /\ \A id \in DOMAIN queue' : queue'[id] = queue[id]
  BY DEF Drop
<1>2. DOMAIN queue \subseteq 1 .. MaxWrites /\ \A id \in DOMAIN queue : queue[id] \in 1 .. MaxWrites
  BY DEF TypeOK, IsMap
<1>3. \A id \in DOMAIN queue' : queue[first] < queue[id]
  BY <1>1, <1>2 DEF QueueOK
<1>4. QueuedWrites' = QueuedWrites \ {queue[first]}
  <2>1. ASSUME NEW id \in DOMAIN queue' PROVE queue'[id] \in QueuedWrites \ {queue[first]}
    BY <1>1, <1>2, <1>3 DEF QueuedWrites
  <2>2. ASSUME NEW w \in QueuedWrites, w # queue[first] PROVE w \in QueuedWrites'
    <3>1. PICK id \in DOMAIN queue : w = queue[id]
      BY DEF QueuedWrites
    <3> QED BY <1>1, <2>2, <3>1 DEF QueuedWrites
  <2> QED BY <2>1, <2>2 DEF QueuedWrites
<1>5. ASSUME NEW v \in 1 .. asked, NEW id \in DOMAIN queue', queue'[id] <= v
      PROVE  v \in QueuedWrites'
  BY <1>1, <1>2, <1>3, <1>4, <1>5 DEF QueueOK
<1>6. ASSUME NEW id \in DOMAIN queue'
      PROVE  id <= asked /\ queue'[id] <= asked /\ (up' => id < nextId)
  <2>1. id \in DOMAIN queue /\ queue'[id] = queue[id]
    BY <1>1
  <2> QED BY <2>1 DEF QueueOK
<1>7. \A a, b \in DOMAIN queue' : a < b => queue'[a] < queue'[b]
  BY <1>1 DEF QueueOK
<1>8. asked' = asked /\ nextId' = nextId /\ nextId <= asked + 1
  BY DEF QueueOK
<1> QED BY <1>1, <1>4, <1>5, <1>6, <1>7, <1>8 DEF QueueOK

\* An answer on its way finds a batch in the pipeline, which it is about.
LEMMA PipelineNeeded ==
  ASSUME IInv, responses # <<>> \/ ended # "no"
  PROVE  handshake /\ pipeline # <<>>
<1>1. handshake
  BY DEF IInv, CallOK
<1>2. Len(pipeline) = Len(responses) + Rejected + Len(requests)
  BY <1>1 DEF IInv, CallOK
<1>3. Len(responses) \in Nat /\ Len(requests) \in Nat /\ Rejected \in 0 .. 1
  BY Shapes DEF IInv, Rejected
<1>4. Len(responses) > 0 \/ Rejected = 1
  <2>1. CASE responses # <<>>
    BY <2>1, EmptySeq DEF IInv, TypeOK
  <2>2. CASE ended # "no"
    BY <2>2 DEF Rejected
  <2> QED BY <2>1, <2>2
<1>5. Len(pipeline) # 0
  BY <1>2, <1>3, <1>4
<1>6. pipeline # <<>>
  BY <1>5
<1> QED BY <1>1, <1>6

\* The end of a call tells of the front: refused, or taken with the result unread.
LEMMA FrontIsAnswered ==
  ASSUME IInv, ended # "no"
  PROVE  /\ pipeline[1].write \in Answered
         /\ responses = <<>> => pipeline[1].write \in refused
         /\ responses # <<>> => pipeline[1].write = responses[1] /\ 1 \in DOMAIN responses
<1>1. CASE responses = <<>>
  <2>1. Len(responses) = 0
    BY <1>1
  <2> QED BY <1>1, <2>1 DEF IInv, CallOK, Answered
<1>2. CASE responses # <<>>
  <2>1. 1 \in DOMAIN responses
    BY <1>2, TailSeq DEF IInv, TypeOK
  <2> QED BY <1>2, <2>1 DEF IInv, CallOK, Answered
<1> QED BY <1>1, <1>2

\* The queue with one batch more.
LEMMA QueueGrown ==
  ASSUME TypeOK, QueueOK, WriteMutations
  PROVE  /\ nextId \notin DOMAIN queue /\ nextId \in 1 .. MaxWrites
         /\ asked' = asked + 1 /\ asked' \in 1 .. MaxWrites
         /\ DOMAIN queue' = DOMAIN queue \cup {nextId}
         /\ queue'[nextId] = asked'
         /\ \A id \in DOMAIN queue : queue'[id] = queue[id]
         /\ QueuedWrites' = QueuedWrites \cup {asked'}
<1>1. /\ asked' = asked + 1 /\ queue' = Put(queue, nextId, asked') /\ up /\ asked < MaxWrites
  BY DEF WriteMutations, Free
<1>2. nextId \notin DOMAIN queue
  BY <1>1 DEF QueueOK, TypeOK, IsMap
<1>3. nextId \in 1 .. MaxWrites /\ asked' \in 1 .. MaxWrites
  BY <1>1, WritesAssumption DEF QueueOK, TypeOK
<1>4. /\ DOMAIN queue' = DOMAIN queue \cup {nextId}
      /\ queue'[nextId] = asked'
      /\ \A id \in DOMAIN queue : queue'[id] = queue[id]
  BY <1>1, <1>2 DEF Put
<1>5. QueuedWrites' = QueuedWrites \cup {asked'}
  BY <1>4 DEF QueuedWrites
<1> QED BY <1>1, <1>2, <1>3, <1>4, <1>5

\* The first of the queue leaves it, acknowledged or rejected, once it was answered.
LEMMA FirstLeaves ==
  ASSUME IInv, AcknowledgeBatch \/ HandleWriteError
  PROVE  \E first \in DOMAIN queue :
           /\ \A id \in DOMAIN queue : first <= id
           /\ queue' = Drop(queue, {first})
           /\ queue[first] \in Answered
           /\ UNCHANGED <<asked, up, nextId, committed, refused, document>>
           /\ AcknowledgeBatch => first = settling.id
           /\ HandleWriteError => first = pipeline[1].id
<1>1. CASE AcknowledgeBatch
  <2>1. /\ worker = "acknowledging" /\ queue' = Drop(queue, {settling.id})
        /\ UNCHANGED <<asked, up, nextId, committed, refused, document>>
    BY <1>1 DEF AcknowledgeBatch, userVars, serverVars
  <2>2. ~HandleWriteError
    BY <2>1 DEF HandleWriteError, Free
  <2>3. /\ settling.id \in DOMAIN queue
        /\ \A id \in DOMAIN queue : settling.id <= id
        /\ queue[settling.id] \in Answered
    BY <2>1 DEF IInv, SettlingOK, Answered
  <2> QED BY <2>1, <2>2, <2>3
<1>2. CASE HandleWriteError
  <2>1. /\ worker = "free" /\ ended # "no" /\ queue' = Drop(queue, {Head(pipeline).id})
        /\ UNCHANGED <<asked, up, nextId, committed, refused, document>>
    BY <1>2 DEF HandleWriteError, Free, userVars, serverVars
  <2>2. ~AcknowledgeBatch
    BY <2>1 DEF AcknowledgeBatch
  <2>3. pipeline # <<>>
    BY <2>1, PipelineNeeded
  <2>4. /\ Head(pipeline).id \in DOMAIN queue /\ Head(pipeline) = pipeline[1]
        /\ Head(pipeline).write = queue[Head(pipeline).id]
        /\ \A id \in DOMAIN queue : Head(pipeline).id <= id
    BY <2>1, <2>3, FrontIsFirst DEF IInv
  <2>5. pipeline[1].write \in Answered
    BY <2>1, FrontIsAnswered
  <2> QED BY <2>1, <2>2, <2>4, <2>5
<1> QED BY <1>1, <1>2

\* What LoadNextBatchIdFromDb finds.
LEMMA HighestId ==
  ASSUME TypeOK
  PROVE  LET top == Max(DOMAIN queue \cup {0})
         IN  top \in DOMAIN queue \cup {0} /\ top \in 0 .. MaxWrites
             /\ \A id \in DOMAIN queue : id <= top
<1> DEFINE S == DOMAIN queue \cup {0}
<1>1. S \subseteq 0 .. MaxWrites /\ S # {}
  BY WritesAssumption DEF TypeOK, IsMap
<1> HIDE DEF S
<1>2. Max(S) \in S /\ \A id \in S : id <= Max(S)
  BY <1>1, GreatestOf, WritesAssumption
<1> QED BY <1>1, <1>2 DEF S

\* The queue stays in order.
LEMMA QueueStep ==
  ASSUME IInv, [Next]_vars
  PROVE  QueueOK' /\ NothingIsLost'
<1> USE DEF IInv
<1>1. CASE Stream \/ Server \/ AddToWritePipeline \/ FillEnds \/ RestartNetwork
  <2>1. UNCHANGED <<asked, queue, up, nextId>>
    BY <1>1, StreamFrame, ServerFrame, FillFrame
  <2>2. QueueOK'
    BY <2>1 DEF QueueOK, QueuedWrites
  <2>3. Answered \subseteq Answered'
    BY <1>1, StreamFrame, FillFrame DEF Server, Commit, Refuse, Answered
  <2> QED BY <2>1, <2>2, <2>3 DEF NothingIsLost, QueuedWrites
<1>2. CASE MutationResult \/ RunCallback \/ UNCHANGED vars
  <2>1. UNCHANGED <<asked, queue, up, nextId, committed, refused>>
    BY <1>2 DEF MutationResult, RunCallback, vars, userVars, localVars, serverVars
  <2> QED BY <2>1 DEF QueueOK, QueuedWrites, NothingIsLost, Answered
<1>3. CASE WriteMutations
  <2>1. /\ up' = up /\ up /\ nextId' = nextId + 1
        /\ committed' = committed /\ refused' = refused
    BY <1>3 DEF WriteMutations, Free, serverVars
  <2>2. /\ DOMAIN queue \subseteq 1 .. MaxWrites /\ nextId \in Nat /\ asked \in Nat
        /\ \A id \in DOMAIN queue : queue[id] \in 1 .. MaxWrites
    BY DEF TypeOK, IsMap
  <2>3. \A id \in DOMAIN queue : id <= asked /\ queue[id] <= asked /\ id < nextId
    BY <2>1 DEF QueueOK
  <2>4. nextId <= asked + 1
    BY DEF QueueOK
  <2>5. \A id \in DOMAIN queue' : id <= asked' /\ queue'[id] <= asked' /\ id < nextId'
    BY <1>3, <2>1, <2>2, <2>3, <2>4, QueueGrown
  <2>6. \A a, b \in DOMAIN queue' : a < b => queue'[a] < queue'[b]
    BY <1>3, <2>2, <2>3, QueueGrown DEF QueueOK
  <2>7. ASSUME NEW v \in 1 .. asked', NEW id \in DOMAIN queue', queue'[id] <= v
        PROVE  v \in QueuedWrites'
    BY <1>3, <2>2, <2>3, <2>7, QueueGrown DEF QueueOK
  <2>8. nextId' <= asked' + 1
    BY <1>3, <2>1, <2>2, <2>4, QueueGrown
  <2>9. NothingIsLost'
    BY <1>3, <2>1, <2>2, QueueGrown DEF NothingIsLost, Answered
  <2> QED BY <2>5, <2>6, <2>7, <2>8, <2>9 DEF QueueOK
<1>4. CASE AcknowledgeBatch \/ HandleWriteError
  <2>1. PICK first \in DOMAIN queue :
          /\ \A id \in DOMAIN queue : first <= id
          /\ queue' = Drop(queue, {first})
          /\ queue[first] \in Answered
          /\ UNCHANGED <<asked, up, nextId, committed, refused, document>>
    BY <1>4, FirstLeaves
  <2>2. QueueOK' /\ QueuedWrites' = QueuedWrites \ {queue[first]}
    BY <2>1, QueueServed
  <2> QED BY <2>1, <2>2 DEF NothingIsLost, Answered
<1>5. CASE EndProcess
  <2>1. UNCHANGED <<asked, queue, committed, refused>> /\ ~up' /\ nextId' = 1
    BY <1>5 DEF EndProcess, userVars, serverVars
  <2>2. asked \in Nat
    BY DEF TypeOK
  <2> QED BY <2>1, <2>2 DEF QueueOK, QueuedWrites, NothingIsLost, Answered
<1>6. CASE Launch
  <2>1. /\ UNCHANGED <<asked, queue, committed, refused>>
        /\ nextId' = Max(DOMAIN queue \cup {0}) + 1
    BY <1>6 DEF Launch, userVars, serverVars
  <2> DEFINE top == Max(DOMAIN queue \cup {0})
  <2>2. top \in DOMAIN queue \cup {0} /\ top \in Nat /\ \A id \in DOMAIN queue : id <= top
    BY HighestId
  <2>3. nextId' = top + 1 /\ DOMAIN queue \subseteq Nat /\ asked \in Nat
    BY <2>1 DEF TypeOK, IsMap
  <2> HIDE DEF top
  <2>4. \A id \in DOMAIN queue : id < nextId'
    BY <2>2, <2>3
  <2>5. nextId' <= asked + 1
    BY <2>2, <2>3 DEF QueueOK
  <2> QED BY <2>1, <2>4, <2>5 DEF QueueOK, QueuedWrites, NothingIsLost, Answered
<1> QED BY <1>1, <1>2, <1>3, <1>4, <1>5, <1>6, Steps

\* NotifyUser turns one who waits, if any, into an answer on its way.
LEMMA NotifyChanges ==
  ASSUME IInv, NEW id, NEW ok \in BOOLEAN, NotifyUser(id, ok)
  PROVE  \/ callbacks' = callbacks /\ waiting' = waiting
         \/ \E e \in waiting :
              /\ e.id = id
              /\ waiting' = waiting \ {e}
              /\ Len(callbacks') = Len(callbacks) + 1
              /\ DOMAIN callbacks' = DOMAIN callbacks \cup {Len(callbacks) + 1}
              /\ callbacks'[Len(callbacks) + 1] = [write |-> e.write, ok |-> ok]
              /\ \A i \in DOMAIN callbacks : callbacks'[i] = callbacks[i]
<1>1. CASE \E entry \in waiting : entry.id = id
  <2> DEFINE e == CHOOSE entry \in waiting : entry.id = id
             answer == [write |-> e.write, ok |-> ok]
  <2>1. e \in waiting /\ e.id = id
    BY <1>1
  <2>2. \A entry \in waiting : entry.id = id => entry = e
    BY <2>1 DEF IInv, WaitersOK
  <2>3. waiting' = waiting \ {e}
    BY <2>1, <2>2 DEF NotifyUser
  <2>4. callbacks' = Append(callbacks, answer)
    BY <1>1 DEF NotifyUser
  <2>5. answer \in Answer
    BY <2>1 DEF IInv, TypeOK, Batch, Answer
  <2>6. answer = [write |-> e.write, ok |-> ok]
    OBVIOUS
  <2> HIDE DEF e, answer
  <2>7. /\ Len(callbacks') = Len(callbacks) + 1
        /\ DOMAIN callbacks' = DOMAIN callbacks \cup {Len(callbacks) + 1}
        /\ callbacks'[Len(callbacks) + 1] = answer
        /\ \A i \in DOMAIN callbacks : callbacks'[i] = callbacks[i]
    BY <2>4, <2>5, AppendSeq DEF IInv, TypeOK
  <2> QED BY <2>1, <2>3, <2>6, <2>7
<1>2. CASE ~\E entry \in waiting : entry.id = id
  BY <1>2 DEF NotifyUser
<1> QED BY <1>1, <1>2

\* Every answer on its way was there, or is that of the writer of id.
AnswersOf(id, ok) ==
  \A i \in DOMAIN callbacks' :
    \/ i \in DOMAIN callbacks /\ callbacks'[i] = callbacks[i]
    \/ \E e \in waiting : e.id = id /\ callbacks'[i] = [write |-> e.write, ok |-> ok]

LEMMA NotifyAnswers ==
  ASSUME IInv, NEW id, NEW ok \in BOOLEAN, NotifyUser(id, ok)
  PROVE  AnswersOf(id, ok)
<1> USE DEF AnswersOf
<1>1. CASE callbacks' = callbacks /\ waiting' = waiting
  BY <1>1
<1>2. CASE callbacks' # callbacks \/ waiting' # waiting
  <2>1. PICK e \in waiting :
          /\ e.id = id
          /\ waiting' = waiting \ {e}
          /\ Len(callbacks') = Len(callbacks) + 1
          /\ DOMAIN callbacks' = DOMAIN callbacks \cup {Len(callbacks) + 1}
          /\ callbacks'[Len(callbacks) + 1] = [write |-> e.write, ok |-> ok]
          /\ \A i \in DOMAIN callbacks : callbacks'[i] = callbacks[i]
    BY <1>2, NotifyChanges
  <2> QED BY <2>1
<1> QED BY <1>1, <1>2

\* It keeps the order of things if no id of the queue changes its write, and the truth
\* if a success is told to the writer of a write committed.
LEMMA NotifyKeeps ==
  ASSUME IInv, NEW id, NEW ok \in BOOLEAN, NotifyUser(id, ok),
         UNCHANGED <<asked, nextId, up, told, committed>>,
         \A i \in DOMAIN queue' : i \in DOMAIN queue /\ queue'[i] = queue[i],
         ok => \A e \in waiting : e.id = id => e.write \in committed
  PROVE  WaitersOK' /\ AnswersOK' /\ TruthOK'
<1>1. CASE callbacks' = callbacks /\ waiting' = waiting
  BY <1>1 DEF IInv, WaitersOK, AnswersOK, AnsweredOnce, TruthOK, SuccessIsTrue
<1>2. ASSUME NEW e \in waiting,
             e.id = id,
             waiting' = waiting \ {e},
             Len(callbacks') = Len(callbacks) + 1,
             DOMAIN callbacks' = DOMAIN callbacks \cup {Len(callbacks) + 1},
             callbacks'[Len(callbacks) + 1] = [write |-> e.write, ok |-> ok],
             \A i \in DOMAIN callbacks : callbacks'[i] = callbacks[i]
      PROVE  WaitersOK' /\ AnswersOK' /\ TruthOK'
  <2> DEFINE last == Len(callbacks) + 1
  <2>1. /\ DOMAIN callbacks' = DOMAIN callbacks \cup {last} /\ last \notin DOMAIN callbacks
        /\ callbacks'[last].write = e.write /\ callbacks'[last].ok = ok
    BY <1>2, Shapes DEF IInv
  <2> HIDE DEF last
  <2>2. WaitersOK'
    <3>1. /\ ~up' => waiting' = {}
          /\ \A d \in waiting' : d.id < nextId' /\ d.write <= asked'
          /\ \A d \in waiting' : d.id \in DOMAIN queue' => d.write = queue'[d.id]
          /\ \A d, f \in waiting' : d.id = f.id \/ d.write = f.write => d = f
          /\ \A d \in waiting', a \in told' : d.write # a.write
      BY <1>2 DEF IInv, WaitersOK
    <3>2. ASSUME NEW d \in waiting', NEW i \in DOMAIN callbacks'
          PROVE  d.write # callbacks'[i].write
      <4>1. d \in waiting /\ d # e
        BY <1>2
      <4>2. CASE i = last
        BY <2>1, <4>1, <4>2 DEF IInv, WaitersOK
      <4>3. CASE i \in DOMAIN callbacks
        BY <1>2, <4>1, <4>3 DEF IInv, WaitersOK
      <4> QED BY <2>1, <4>2, <4>3
    <3> QED BY <3>1, <3>2 DEF WaitersOK
  <2>3. AnswersOK'
    <3>1. \A i \in DOMAIN callbacks' : callbacks'[i].write <= asked'
      BY <1>2, <2>1 DEF IInv, WaitersOK, AnswersOK
    <3>2. \A a \in told' : a.write <= asked'
      BY DEF IInv, AnswersOK
    <3>3. \A i, j \in DOMAIN callbacks' : callbacks'[i].write = callbacks'[j].write => i = j
      BY <1>2, <2>1 DEF IInv, WaitersOK, AnswersOK, AnsweredOnce
    <3>4. \A i \in DOMAIN callbacks', a \in told' : callbacks'[i].write # a.write
      BY <1>2, <2>1 DEF IInv, WaitersOK, AnswersOK, AnsweredOnce
    <3>5. \A a, b \in told' : a.write = b.write => a = b
      BY DEF IInv, AnswersOK, AnsweredOnce
    <3> QED BY <3>1, <3>2, <3>3, <3>4, <3>5 DEF AnswersOK, AnsweredOnce
  <2>4. TruthOK'
    <3>1. SuccessIsTrue'
      BY DEF IInv, TruthOK, SuccessIsTrue
    <3>2. ASSUME NEW i \in DOMAIN callbacks', callbacks'[i].ok
          PROVE  callbacks'[i].write \in committed'
      <4>1. CASE i = last
        BY <1>2, <2>1, <3>2, <4>1
      <4>2. CASE i \in DOMAIN callbacks
        BY <1>2, <3>2, <4>2 DEF IInv, TruthOK
      <4> QED BY <2>1, <4>1, <4>2
    <3> QED BY <3>1, <3>2 DEF TruthOK
  <2> QED BY <2>2, <2>3, <2>4
<1> QED BY <1>1, <1>2, NotifyChanges

\* A result is about a write the server took, whoever waits for it.
LEMMA ResultIsTrue ==
  ASSUME IInv, MutationResult
  PROVE  /\ worker = "free" /\ handshake /\ responses # <<>> /\ pipeline # <<>>
         /\ 1 \in DOMAIN responses
         /\ Head(pipeline).write = responses[1]
         /\ Head(pipeline).write \in committed
         /\ \A e \in waiting : e.id = Head(pipeline).id => e.write \in committed
<1>1. worker = "free" /\ handshake /\ responses # <<>>
  BY DEF MutationResult, Free
<1>2. pipeline # <<>>
  BY <1>1, PipelineNeeded
<1>3. /\ Head(pipeline) = pipeline[1] /\ Head(pipeline).id \in DOMAIN queue
      /\ Head(pipeline).write = queue[Head(pipeline).id]
  BY <1>1, <1>2, FrontIsFirst DEF IInv
<1>4. 1 \in DOMAIN responses
  BY <1>1, TailSeq DEF IInv, TypeOK
<1>5. pipeline[1].write = responses[1] /\ responses[1] \in committed
  BY <1>4 DEF IInv, CallOK
<1> QED BY <1>1, <1>2, <1>3, <1>4, <1>5 DEF IInv, WaitersOK

\* Writers are answered once, and success is true.
LEMMA AnswersStep ==
  ASSUME IInv, [Next]_vars
  PROVE  WaitersOK' /\ AnswersOK' /\ TruthOK'
<1> USE DEF IInv
<1>1. CASE Stream \/ Server \/ AddToWritePipeline \/ FillEnds \/ RestartNetwork
  <2>1. UNCHANGED <<asked, nextId, waiting, queue, callbacks, told, up>>
    BY <1>1, StreamFrame, ServerFrame, FillFrame
  <2>2. committed \subseteq committed'
    BY <1>1, StreamFrame, FillFrame DEF Server, Commit, Refuse
  <2> QED BY <2>1, <2>2 DEF WaitersOK, AnswersOK, AnsweredOnce, TruthOK, SuccessIsTrue
<1>2. CASE UNCHANGED vars
  <2>1. UNCHANGED <<asked, nextId, waiting, queue, callbacks, told, up, committed>>
    BY <1>2 DEF vars, userVars, localVars, serverVars
  <2> QED BY <2>1 DEF WaitersOK, AnswersOK, AnsweredOnce, TruthOK, SuccessIsTrue
<1>3. CASE WriteMutations
  <2> DEFINE new == [id |-> nextId, write |-> asked']
  <2>1. /\ waiting' = waiting \cup {new} /\ nextId' = nextId + 1 /\ up /\ up' = up
        /\ UNCHANGED <<callbacks, told, committed>>
    BY <1>3 DEF WriteMutations, Free, serverVars
  <2>2. new.id = nextId /\ new.write = asked'
    OBVIOUS
  <2> HIDE DEF new
  <2>3. asked' = asked + 1 /\ asked \in Nat /\ nextId \in Nat
    BY <1>3, QueueGrown DEF TypeOK
  <2>4. \A e \in waiting : e.id \in Nat /\ e.write \in Nat /\ e.id < nextId /\ e.write <= asked
    BY DEF WaitersOK, TypeOK, Batch
  <2>5. \A a \in told : a.write \in Nat /\ a.write <= asked
    BY DEF AnswersOK, TypeOK, Answer
  <2>6. \A i \in DOMAIN callbacks : callbacks[i].write \in Nat /\ callbacks[i].write <= asked
    BY Shapes DEF AnswersOK
  <2>7. \A e \in waiting' : e.id < nextId' /\ e.write <= asked'
    BY <2>1, <2>2, <2>3, <2>4
  <2>8. \A e \in waiting' : e.id \in DOMAIN queue' => e.write = queue'[e.id]
    BY <1>3, <2>1, <2>2, <2>4, QueueGrown DEF WaitersOK
  <2>9. \A d, e \in waiting' : d.id = e.id \/ d.write = e.write => d = e
    BY <2>1, <2>2, <2>3, <2>4 DEF WaitersOK
  <2>10. /\ \A e \in waiting', i \in DOMAIN callbacks' : e.write # callbacks'[i].write
         /\ \A e \in waiting', a \in told' : e.write # a.write
    BY <2>1, <2>2, <2>3, <2>5, <2>6 DEF WaitersOK
  <2>11. WaitersOK'
    BY <2>1, <2>7, <2>8, <2>9, <2>10 DEF WaitersOK
  <2>12. AnswersOK'
    BY <2>1, <2>3, <2>5, <2>6 DEF AnswersOK, AnsweredOnce
  <2> QED BY <2>1, <2>11, <2>12 DEF TruthOK, SuccessIsTrue
<1>4. CASE MutationResult
  <2>1. /\ NotifyUser(Head(pipeline).id, TRUE)
        /\ UNCHANGED <<asked, nextId, up, told, committed, queue>>
    BY <1>4 DEF MutationResult, userVars, serverVars
  <2> QED BY <1>4, <2>1, ResultIsTrue, NotifyKeeps
<1>5. CASE HandleWriteError
  <2>1. /\ NotifyUser(Head(pipeline).id, FALSE)
        /\ UNCHANGED <<asked, nextId, up, told, committed>>
        /\ queue' = Drop(queue, {Head(pipeline).id})
    BY <1>5 DEF HandleWriteError, userVars, serverVars
  <2>2. \A i \in DOMAIN queue' : i \in DOMAIN queue /\ queue'[i] = queue[i]
    BY <2>1 DEF Drop
  <2> QED BY <2>1, <2>2, NotifyKeeps
<1>6. CASE AcknowledgeBatch
  <2>1. /\ UNCHANGED <<asked, nextId, waiting, callbacks, told, up, committed>>
        /\ \A i \in DOMAIN queue' : i \in DOMAIN queue /\ queue'[i] = queue[i]
    BY <1>6 DEF AcknowledgeBatch, Drop, userVars, serverVars
  <2> QED BY <2>1 DEF WaitersOK, AnswersOK, AnsweredOnce, TruthOK, SuccessIsTrue
<1>7. CASE RunCallback
  <2>1. /\ callbacks # <<>> /\ told' = told \cup {Head(callbacks)}
        /\ callbacks' = Tail(callbacks)
        /\ UNCHANGED <<asked, nextId, waiting, queue, up, committed>>
    BY <1>7 DEF RunCallback, localVars, serverVars
  <2>2. /\ 1 \in DOMAIN callbacks /\ Head(callbacks) = callbacks[1]
        /\ \A i \in DOMAIN callbacks' :
             i + 1 \in DOMAIN callbacks /\ callbacks'[i] = callbacks[i + 1]
        /\ Tail(callbacks) \in Seq(Answer)
    BY <2>1, TailSeq DEF TypeOK
  <2>3. DOMAIN callbacks' \subseteq Nat \ {0}
    BY <2>1, <2>2, SeqIsFunction
  <2>4. told' = told \cup {callbacks[1]}
    BY <2>1, <2>2
  <2>5. \A i \in DOMAIN callbacks' : i + 1 # 1
    BY <2>3
  <2>6. WaitersOK'
    BY <2>1, <2>2, <2>4 DEF WaitersOK
  <2>7. \A i, j \in DOMAIN callbacks' : callbacks'[i].write = callbacks'[j].write => i = j
    <3>1. \A i, j \in DOMAIN callbacks' :
            callbacks'[i].write = callbacks'[j].write => i + 1 = j + 1
      BY <2>2 DEF AnswersOK, AnsweredOnce
    <3> QED BY <2>3, <3>1
  <2>8. \A i \in DOMAIN callbacks', a \in told' : callbacks'[i].write # a.write
    BY <2>2, <2>4, <2>5 DEF AnswersOK, AnsweredOnce
  <2>9. \A a, b \in told' : a.write = b.write => a = b
    BY <2>2, <2>4 DEF AnswersOK, AnsweredOnce
  <2>10. /\ \A i \in DOMAIN callbacks' : callbacks'[i].write <= asked'
         /\ \A a \in told' : a.write <= asked'
    BY <2>1, <2>2, <2>4 DEF AnswersOK
  <2>11. AnswersOK'
    BY <2>7, <2>8, <2>9, <2>10 DEF AnswersOK, AnsweredOnce
  <2>12. TruthOK'
    BY <2>1, <2>2, <2>4 DEF TruthOK, SuccessIsTrue
  <2> QED BY <2>6, <2>11, <2>12
<1>8. CASE EndProcess
  <2>1. /\ UNCHANGED <<asked, told, committed>> /\ waiting' = {} /\ callbacks' = <<>>
    BY <1>8 DEF EndProcess, userVars, serverVars
  <2>2. DOMAIN callbacks' = {}
    BY <2>1
  <2> QED BY <2>1, <2>2 DEF WaitersOK, AnswersOK, AnsweredOnce, TruthOK, SuccessIsTrue
<1>9. CASE Launch
  <2>1. ~up /\ UNCHANGED <<asked, told, committed, waiting, callbacks>>
    BY <1>9 DEF Launch, userVars, serverVars
  <2>2. waiting' = {}
    BY <2>1 DEF WaitersOK
  <2> QED BY <2>1, <2>2 DEF WaitersOK, AnswersOK, AnsweredOnce, TruthOK, SuccessIsTrue
<1> QED BY <1>1, <1>2, <1>3, <1>4, <1>5, <1>6, <1>7, <1>8, <1>9, Steps

\* The front has left the pipeline.
LEMMA FrontLeft ==
  ASSUME IInv, worker = "free", pipeline # <<>>, pipeline' = Tail(pipeline)
  PROVE  /\ Len(pipeline') = Len(pipeline) - 1
         /\ DOMAIN pipeline' = 1 .. Len(pipeline) - 1
         /\ \A i \in DOMAIN pipeline' :
              /\ i \in Nat \ {0} /\ i + 1 \in DOMAIN pipeline
              /\ pipeline'[i] = pipeline[i + 1]
              /\ pipeline'[i].id \in DOMAIN queue
              /\ pipeline'[i].write = queue[pipeline'[i].id]
              /\ pipeline[1].id < pipeline'[i].id
         /\ \A i, j \in DOMAIN pipeline' : i < j => pipeline'[i].id < pipeline'[j].id
         /\ \A i \in DOMAIN pipeline', id \in DOMAIN queue :
              id < pipeline'[i].id =>
                \/ id = pipeline[1].id
                \/ \E j \in DOMAIN pipeline' : j < i /\ pipeline'[j].id = id
<1>1. /\ Len(pipeline') = Len(pipeline) - 1
      /\ DOMAIN pipeline' = 1 .. Len(pipeline) - 1
      /\ 1 \in DOMAIN pipeline
      /\ \A i \in DOMAIN pipeline' : i + 1 \in DOMAIN pipeline /\ pipeline'[i] = pipeline[i + 1]
  BY FrontIsFirst DEF IInv
<1>2. Len(pipeline) \in Nat /\ DOMAIN pipeline = 1 .. Len(pipeline)
  BY Shapes DEF IInv
<1>3. ASSUME NEW i \in DOMAIN pipeline'
      PROVE  /\ i \in Nat \ {0} /\ i + 1 \in DOMAIN pipeline
             /\ pipeline'[i] = pipeline[i + 1]
             /\ pipeline'[i].id \in DOMAIN queue
             /\ pipeline'[i].write = queue[pipeline'[i].id]
             /\ pipeline[1].id < pipeline'[i].id
  <2>1. i \in Nat \ {0} /\ 1 < i + 1
    BY <1>1, <1>2
  <2> QED BY <1>1, <2>1 DEF IInv, PipelineOK
<1>4. ASSUME NEW i \in DOMAIN pipeline', NEW j \in DOMAIN pipeline', i < j
      PROVE  pipeline'[i].id < pipeline'[j].id
  <2>1. i + 1 < j + 1
    BY <1>3, <1>4
  <2> QED BY <1>3, <2>1 DEF IInv, PipelineOK
<1>5. ASSUME NEW i \in DOMAIN pipeline', NEW id \in DOMAIN queue, id < pipeline'[i].id,
             id # pipeline[1].id
      PROVE  \E j \in DOMAIN pipeline' : j < i /\ pipeline'[j].id = id
  <2>1. PICK k \in DOMAIN pipeline : k < i + 1 /\ pipeline[k].id = id
    BY <1>3, <1>5 DEF IInv, PipelineOK
  <2>2. k # 1
    BY <1>5, <2>1
  <2>3. k - 1 \in DOMAIN pipeline' /\ k - 1 < i /\ (k - 1) + 1 = k
    BY <1>1, <1>2, <1>3, <2>1, <2>2
  <2> QED BY <1>3, <2>1, <2>3
<1> QED BY <1>1, <1>3, <1>4, <1>5

\* The pipeline with the next batch of the queue.
LEMMA PipelineGrown ==
  ASSUME IInv, AddToWritePipeline
  PROVE  /\ worker = "filling" /\ worker' = worker
         /\ Len(pipeline') = Len(pipeline) + 1
         /\ DOMAIN pipeline' = DOMAIN pipeline \cup {Len(pipeline) + 1}
         /\ Len(pipeline) + 1 \notin DOMAIN pipeline
         /\ \A i \in DOMAIN pipeline : pipeline'[i] = pipeline[i]
         /\ pipeline'[Len(pipeline) + 1].id = Min(Later)
         /\ pipeline'[Len(pipeline) + 1].write = queue[Min(Later)]
         /\ Min(Later) \in DOMAIN queue
         /\ handshake => requests' = Append(requests, queue[Min(Later)])
         /\ ~handshake => requests' = requests
<1> DEFINE batch == [id |-> Min(Later), write |-> queue[Min(Later)]]
<1>1. /\ pipeline' = Append(pipeline, batch) /\ Later # {}
      /\ worker = "filling" /\ worker' = worker
      /\ requests' = IF handshake THEN Append(requests, batch.write) ELSE requests
  BY DEF AddToWritePipeline, CanAdd
<1>2. Min(Later) \in DOMAIN queue /\ batch \in Batch
  BY <1>1, NextBatch, BatchOfQueue DEF IInv
<1>3. batch.id = Min(Later) /\ batch.write = queue[Min(Later)]
  OBVIOUS
<1> HIDE DEF batch
<1>4. /\ Len(pipeline') = Len(pipeline) + 1
      /\ DOMAIN pipeline' = DOMAIN pipeline \cup {Len(pipeline) + 1}
      /\ pipeline'[Len(pipeline) + 1] = batch
      /\ \A i \in DOMAIN pipeline : pipeline'[i] = pipeline[i]
  BY <1>1, <1>2, AppendSeq DEF IInv, TypeOK
<1>5. Len(pipeline) + 1 \notin DOMAIN pipeline
  BY Shapes DEF IInv
<1> QED BY <1>1, <1>2, <1>3, <1>4, <1>5

\* The pipeline stays the first part of the queue.
LEMMA PipelineStep ==
  ASSUME IInv, [Next]_vars
  PROVE  SettlingOK' /\ PipelineOK'
<1> USE DEF IInv
<1>0. /\ DOMAIN queue \subseteq Nat
      /\ \A i \in DOMAIN pipeline : i \in Nat /\ pipeline[i].id \in Nat
      /\ Len(pipeline) \in Nat
  BY Shapes DEF TypeOK, IsMap
<1>1. CASE Stream \/ Server \/ RunCallback \/ UNCHANGED vars
  <2>1. UNCHANGED <<queue, worker, settling, pipeline, up>>
    BY <1>1, StreamFrame, ServerFrame DEF RunCallback, vars, localVars
  <2>2. committed \subseteq committed'
    BY <1>1, StreamFrame DEF Server, Commit, Refuse, RunCallback, vars, serverVars
  <2> QED BY <2>1, <2>2 DEF SettlingOK, PipelineOK
<1>2. CASE FillEnds \/ Launch
  <2>1. /\ UNCHANGED <<queue, pipeline>>
        /\ worker' # "acknowledging"
    BY <1>2 DEF FillEnds, Launch, userVars, localVars
  <2>2. worker # "acknowledging"
    BY <1>2 DEF FillEnds, Launch, SettlingOK
  <2> QED BY <2>1, <2>2 DEF SettlingOK, PipelineOK
<1>3. CASE WriteMutations
  <2>1. worker = "free" /\ worker' = "filling" /\ pipeline' = pipeline /\ up
    BY <1>3 DEF WriteMutations, Free
  <2>2. \A id \in DOMAIN queue : id < nextId
    BY <2>1 DEF QueueOK
  <2>3. ASSUME NEW i \in DOMAIN pipeline, NEW id \in DOMAIN queue', id < pipeline[i].id
        PROVE  id \in DOMAIN queue
    <3>1. pipeline[i].id < nextId
      BY <2>2 DEF PipelineOK
    <3>2. id # nextId
      BY <1>0, <2>3, <3>1 DEF TypeOK
    <3> QED BY <1>3, <3>2, QueueGrown
  <2> QED BY <1>3, <2>1, <2>3, QueueGrown DEF SettlingOK, PipelineOK
<1>4. CASE MutationResult
  <2>1. /\ worker = "free" /\ up /\ up' = up /\ worker' = "acknowledging"
        /\ pipeline' = Tail(pipeline) /\ settling' = Head(pipeline)
        /\ UNCHANGED <<queue, committed>>
    BY <1>4 DEF MutationResult, Free, serverVars
  <2>2. pipeline # <<>> /\ Head(pipeline).write \in committed
    BY <1>4, ResultIsTrue
  <2>3. /\ Head(pipeline) = pipeline[1] /\ Head(pipeline).id \in DOMAIN queue
        /\ Head(pipeline).write = queue[Head(pipeline).id]
        /\ \A id \in DOMAIN queue : Head(pipeline).id <= id
    BY <2>1, <2>2, FrontIsFirst
  <2>4. SettlingOK'
    BY <2>1, <2>2, <2>3, FrontLeft DEF SettlingOK
  <2>5. PipelineOK'
    BY <2>1, <2>2, <2>3, FrontLeft DEF PipelineOK
  <2> QED BY <2>4, <2>5
<1>5. CASE AcknowledgeBatch
  <2>1. /\ worker = "acknowledging" /\ worker' = "filling" /\ pipeline' = pipeline
        /\ queue' = Drop(queue, {settling.id})
    BY <1>5 DEF AcknowledgeBatch
  <2>2. /\ DOMAIN queue' = DOMAIN queue \ {settling.id}
        /\ \A id \in DOMAIN queue' : queue'[id] = queue[id]
    BY <2>1 DEF Drop
  <2>3. \A i \in DOMAIN pipeline : pipeline[i].id # settling.id
    BY <1>0, <2>1 DEF SettlingOK, TypeOK, IsMap
  <2>4. \A i \in DOMAIN pipeline' :
          pipeline'[i].id \in DOMAIN queue' /\ pipeline'[i].write = queue'[pipeline'[i].id]
    BY <2>1, <2>2, <2>3 DEF PipelineOK
  <2>5. \A i, j \in DOMAIN pipeline' : i < j => pipeline'[i].id < pipeline'[j].id
    BY <2>1 DEF PipelineOK
  <2>6. \A i \in DOMAIN pipeline', id \in DOMAIN queue' :
          id < pipeline'[i].id =>
            \E j \in DOMAIN pipeline' : j < i /\ pipeline'[j].id = id
    BY <2>1, <2>2 DEF PipelineOK
  <2>7. SettlingOK'
    BY <2>1 DEF SettlingOK
  <2>8. PipelineOK'
    BY <2>4, <2>5, <2>6 DEF PipelineOK
  <2> QED BY <2>7, <2>8
<1>6. CASE HandleWriteError
  <2>1. /\ worker = "free" /\ worker' = "filling" /\ ended # "no"
        /\ pipeline' = Tail(pipeline) /\ queue' = Drop(queue, {Head(pipeline).id})
    BY <1>6 DEF HandleWriteError, Free
  <2>2. pipeline # <<>>
    BY <2>1, PipelineNeeded
  <2>3. Head(pipeline) = pipeline[1] /\ 1 \in DOMAIN pipeline
    BY <2>1, <2>2, FrontIsFirst
  <2>4. /\ DOMAIN queue' = DOMAIN queue \ {pipeline[1].id}
        /\ \A id \in DOMAIN queue' : queue'[id] = queue[id]
    BY <2>1, <2>3 DEF Drop
  <2>5. \A i \in DOMAIN pipeline' : pipeline'[i].id \in DOMAIN queue'
    BY <1>0, <2>1, <2>2, <2>3, <2>4, FrontLeft
  <2>6. \A i \in DOMAIN pipeline' :
          pipeline'[i].id \in DOMAIN queue' /\ pipeline'[i].write = queue'[pipeline'[i].id]
    <3> SUFFICES ASSUME NEW i \in DOMAIN pipeline'
                 PROVE  /\ pipeline'[i].id \in DOMAIN queue'
                        /\ pipeline'[i].write = queue'[pipeline'[i].id]
      OBVIOUS
    <3>1. pipeline'[i].write = queue[pipeline'[i].id]
      BY <2>1, <2>2, FrontLeft
    <3> QED BY <2>4, <2>5, <3>1
  <2>7. \A i, j \in DOMAIN pipeline' : i < j => pipeline'[i].id < pipeline'[j].id
    BY <2>1, <2>2, FrontLeft
  <2>8. \A i \in DOMAIN pipeline', id \in DOMAIN queue' :
          id < pipeline'[i].id =>
            \E j \in DOMAIN pipeline' : j < i /\ pipeline'[j].id = id
    BY <2>1, <2>2, <2>4, FrontLeft
  <2> QED BY <2>1, <2>6, <2>7, <2>8 DEF SettlingOK, PipelineOK
<1>7. CASE RestartNetwork \/ EndProcess
  <2>1. pipeline' = <<>> /\ worker' # "acknowledging"
    BY <1>7 DEF RestartNetwork, EndProcess
  <2>2. DOMAIN pipeline' = {}
    BY <2>1
  <2> QED BY <2>1, <2>2 DEF SettlingOK, PipelineOK
<1>8. CASE AddToWritePipeline
  <2> DEFINE new == Len(pipeline) + 1
             next == Min(Later)
  <2>1. /\ worker = "filling" /\ worker' = worker /\ queue' = queue
        /\ DOMAIN pipeline' = DOMAIN pipeline \cup {new} /\ new \notin DOMAIN pipeline
        /\ \A i \in DOMAIN pipeline : pipeline'[i] = pipeline[i]
        /\ pipeline'[new].id = next /\ pipeline'[new].write = queue[next]
        /\ next \in DOMAIN queue
    BY <1>8, PipelineGrown, FillFrame
  <2>2. Later # {}
    BY <1>8 DEF AddToWritePipeline, CanAdd
  <2>3. /\ \A id \in Later : next <= id
        /\ pipeline # <<>> => pipeline[Len(pipeline)].id < next
    BY <1>0, <2>2, NextBatch DEF TypeOK, IsMap
  <2>4. \A i \in DOMAIN pipeline : i < new /\ i <= Len(pipeline) /\ pipeline # <<>>
    BY Shapes
  <2>5. ASSUME NEW i \in DOMAIN pipeline PROVE pipeline[i].id < next
    <3>1. Len(pipeline) \in DOMAIN pipeline
      BY Shapes
    <3>2. pipeline[i].id <= pipeline[Len(pipeline)].id
      BY <1>0, <2>4, <3>1 DEF PipelineOK
    <3> QED BY <1>0, <2>1, <2>3, <2>4, <3>1, <3>2
  <2>6. ASSUME NEW id \in DOMAIN queue, id < next
        PROVE  \E j \in DOMAIN pipeline : pipeline[j].id = id
    <3>1. id \notin Later
      BY <1>0, <2>1, <2>3, <2>6
    <3>2. pipeline # <<>> /\ id <= pipeline[Len(pipeline)].id
      BY <1>0, <2>6, <3>1 DEF Later
    <3>3. Len(pipeline) \in DOMAIN pipeline
      BY <1>0, <3>2, Shapes, EmptySeq DEF TypeOK
    <3>4. CASE id = pipeline[Len(pipeline)].id
      BY <3>3, <3>4
    <3>5. CASE id < pipeline[Len(pipeline)].id
      BY <2>1, <3>3, <3>5 DEF PipelineOK
    <3> QED BY <1>0, <3>2, <3>3, <3>4, <3>5
  <2> HIDE DEF new, next
  <2>7. \A i \in DOMAIN pipeline' :
          pipeline'[i].id \in DOMAIN queue' /\ pipeline'[i].write = queue'[pipeline'[i].id]
    BY <2>1 DEF PipelineOK
  <2>8. \A i, j \in DOMAIN pipeline' : i < j => pipeline'[i].id < pipeline'[j].id
    <3>1. \A i \in DOMAIN pipeline : ~(new < i)
      BY <1>0, <2>4 DEF new
    <3>2. ~(new < new)
      BY <1>0 DEF new
    <3> QED BY <2>1, <2>5, <3>1, <3>2 DEF PipelineOK
  <2>9. ASSUME NEW i \in DOMAIN pipeline', NEW id \in DOMAIN queue', id < pipeline'[i].id
        PROVE  \E j \in DOMAIN pipeline' : j < i /\ pipeline'[j].id = id
    <3>1. CASE i = new
      BY <2>1, <2>4, <2>6, <2>9, <3>1
    <3>2. CASE i \in DOMAIN pipeline
      BY <2>1, <2>9, <3>2 DEF PipelineOK
    <3> QED BY <2>1, <3>1, <3>2
  <2> QED BY <2>1, <2>7, <2>8, <2>9 DEF SettlingOK, PipelineOK
<1> QED BY <1>1, <1>2, <1>3, <1>4, <1>5, <1>6, <1>7, <1>8, Steps

-----------------------------------------------------------------------------
\* The call and the stream.

\* A call that is gone carries nothing.
LEMMA ClosedCall == Closed => CallOK'
<1> SUFFICES ASSUME Closed PROVE CallOK'
  OBVIOUS
<1>1. /\ ~handshake' /\ requests' = <<>> /\ responses' = <<>> /\ ended' = "no"
  BY DEF Closed
<1>2. DOMAIN requests' = {} /\ DOMAIN responses' = {}
  BY <1>1
<1> QED BY <1>1, <1>2 DEF CallOK

\* What a call on its way says of lengths.
LEMMA CallLengths ==
  ASSUME IInv, handshake
  PROVE  /\ Len(pipeline) \in Nat /\ Len(responses) \in Nat /\ Len(requests) \in Nat
         /\ Rejected \in 0 .. 1
         /\ Len(pipeline) = Len(responses) + Rejected + Len(requests)
         /\ DOMAIN pipeline = 1 .. Len(pipeline)
         /\ DOMAIN responses = 1 .. Len(responses)
         /\ DOMAIN requests = 1 .. Len(requests)
<1>1. TypeOK
  BY DEF IInv
<1>2. Rejected \in 0 .. 1
  BY DEF Rejected
<1>3. Len(pipeline) = Len(responses) + Rejected + Len(requests)
  BY DEF IInv, CallOK
<1> QED BY <1>1, <1>2, <1>3, Shapes

\* The handshake puts the whole pipeline on the call.
LEMMA HandshakeCall ==
  ASSUME IInv, HandshakeComplete
  PROVE  CallOK'
<1>1. /\ ~handshake /\ handshake' /\ responses' = <<>> /\ requests = <<>> /\ ended = "no"
      /\ requests' = requests \o WritesOf(pipeline) /\ ended' = "no" /\ pipeline' = pipeline
  BY DEF HandshakeComplete, IInv, CallOK
<1>2. requests' = WritesOf(pipeline)
  BY <1>1, WritesOfPipeline, ConcatSeq DEF IInv
<1>3. /\ Len(pipeline) \in Nat /\ Len(requests') = Len(pipeline)
      /\ DOMAIN requests' = 1 .. Len(pipeline)
      /\ \A i \in 1 .. Len(pipeline) : requests'[i] = pipeline[i].write
  BY <1>2, WritesOfPipeline, Shapes, SeqIsFunction DEF IInv
<1>4. Len(responses') = 0 /\ DOMAIN responses' = {} /\ Rejected' = 0
  BY <1>1 DEF Rejected
<1>5. \A i \in DOMAIN requests' : Len(responses') + Rejected' + i = i
  BY <1>3, <1>4
<1>6. Len(pipeline') = Len(responses') + Rejected' + Len(requests')
  BY <1>1, <1>3, <1>4
<1> QED BY <1>1, <1>3, <1>4, <1>5, <1>6 DEF CallOK

\* A result read leaves the call with the front of the pipeline.
LEMMA ResultCall ==
  ASSUME IInv, MutationResult
  PROVE  CallOK'
<1>1. /\ handshake /\ handshake' = handshake /\ responses # <<>> /\ worker = "free"
      /\ responses' = Tail(responses) /\ requests' = requests /\ pipeline' = Tail(pipeline)
      /\ ended' = "no" <=> ended = "no"
      /\ committed' = committed /\ refused' = refused
  BY DEF MutationResult, Free, streamVars, serverVars
<1>2. pipeline # <<>>
  BY <1>1, PipelineNeeded
<1>3. Rejected' = Rejected
  BY <1>1 DEF Rejected
<1>4. /\ Len(responses') = Len(responses) - 1
      /\ \A i \in DOMAIN responses' : i + 1 \in DOMAIN responses /\ responses'[i] = responses[i + 1]
      /\ responses' \in Seq(1 .. MaxWrites)
  BY <1>1, TailSeq DEF IInv, TypeOK
<1>5. DOMAIN responses' = 1 .. Len(responses) - 1
  BY <1>4, SeqIsFunction
<1>6. /\ Len(pipeline') = Len(pipeline) - 1 /\ DOMAIN pipeline' = 1 .. Len(pipeline) - 1
      /\ \A i \in DOMAIN pipeline' : pipeline'[i] = pipeline[i + 1]
  BY <1>1, <1>2, FrontLeft
<1>11. /\ Len(pipeline) \in Nat /\ Len(responses) \in Nat /\ Len(requests) \in Nat
      /\ Rejected \in 0 .. 1
      /\ Len(pipeline) = Len(responses) + Rejected + Len(requests)
      /\ DOMAIN requests = 1 .. Len(requests)
  BY <1>1, CallLengths
<1>7. Len(pipeline') = Len(responses') + Rejected' + Len(requests')
  BY <1>1, <1>3, <1>4, <1>6, <1>11
<1>8. ASSUME NEW i \in DOMAIN responses'
      PROVE  responses'[i] \in committed' /\ responses'[i] = pipeline'[i].write
  <2>1. i \in DOMAIN pipeline'
    BY <1>5, <1>6, <1>11
  <2> QED BY <1>1, <1>4, <1>6, <2>1 DEF IInv, CallOK
<1>9. ASSUME NEW i \in DOMAIN requests'
      PROVE  requests'[i] = pipeline'[Len(responses') + Rejected' + i].write
  <2> DEFINE k == Len(responses') + Rejected' + i
  <2>0. i \in 1 .. Len(requests)
    BY <1>1, <1>11
  <2>6. Len(responses') = Len(responses) - 1 /\ DOMAIN pipeline' = 1 .. Len(pipeline) - 1
    BY <1>4, <1>6
  <2>7. Len(responses) > 0
    BY <1>1, EmptySeq, <1>11 DEF IInv, TypeOK
  <2>8. k = Len(responses) - 1 + Rejected + i
    BY <2>6, <1>3
  <2>1. k \in DOMAIN pipeline' /\ k + 1 = Len(responses) + Rejected + i
    BY <1>11, <2>0, <2>6, <2>7, <2>8
  <2> HIDE DEF k
  <2>2. pipeline'[k] = pipeline[k + 1]
    BY <1>6, <2>1
  <2>3. pipeline[k + 1] = pipeline[Len(responses) + Rejected + i]
    BY <2>1
  <2>4. i \in DOMAIN requests /\ requests'[i] = requests[i]
    BY <1>1
  <2>5. requests[i] = pipeline[Len(responses) + Rejected + i].write
    BY <1>1, <2>4 DEF IInv, CallOK
  <2> QED BY <2>2, <2>3, <2>4, <2>5 DEF k
<1>10. ASSUME ended' # "no" PROVE pipeline'[Len(responses') + 1].write \in refused'
  <2>1. Rejected = 1
    BY <1>1, <1>10 DEF Rejected
  <2>2. Len(responses') + 1 \in DOMAIN pipeline' /\ Len(responses') + 1 = Len(responses)
    BY <1>1, <1>4, <1>6, <2>1, <1>11
  <2>3. pipeline'[Len(responses') + 1] = pipeline[Len(responses) + 1]
    BY <1>6, <2>2
  <2> QED BY <1>1, <1>10, <2>3 DEF IInv, CallOK
<1> QED BY <1>1, <1>7, <1>8, <1>9, <1>10 DEF CallOK

\* A batch added is sent after the others, once the handshake is complete.
LEMMA GrownCall ==
  ASSUME IInv, AddToWritePipeline
  PROVE  CallOK'
<1>1. UNCHANGED <<handshake, responses, ended, committed, refused>>
  BY DEF AddToWritePipeline, serverVars
<1>2. Rejected' = Rejected
  BY <1>1 DEF Rejected
<1>3. CASE ~handshake
  <2>1. requests' = requests /\ requests = <<>> /\ responses = <<>> /\ ended = "no"
    BY <1>3, PipelineGrown DEF IInv, CallOK
  <2>2. DOMAIN requests' = {} /\ DOMAIN responses' = {}
    BY <1>1, <2>1
  <2> QED BY <1>1, <1>3, <2>1, <2>2 DEF CallOK
<1>4. CASE handshake
  <2> DEFINE write == queue[Min(Later)]
  <2>1. /\ Len(pipeline') = Len(pipeline) + 1
        /\ \A i \in DOMAIN pipeline : pipeline'[i] = pipeline[i]
        /\ pipeline'[Len(pipeline) + 1].write = write
        /\ requests' = Append(requests, write) /\ write \in 1 .. MaxWrites
    BY <1>4, PipelineGrown DEF IInv, TypeOK, IsMap
  <2> HIDE DEF write
  <2>2. /\ Len(requests') = Len(requests) + 1
        /\ DOMAIN requests' = DOMAIN requests \cup {Len(requests) + 1}
        /\ requests'[Len(requests) + 1] = write
        /\ \A i \in DOMAIN requests : requests'[i] = requests[i]
    BY <2>1, AppendSeq DEF IInv, TypeOK
  <2>7. /\ Len(pipeline) \in Nat /\ Len(responses) \in Nat /\ Len(requests) \in Nat
        /\ Rejected \in 0 .. 1
        /\ Len(pipeline) = Len(responses) + Rejected + Len(requests)
        /\ DOMAIN requests = 1 .. Len(requests)
        /\ DOMAIN pipeline = 1 .. Len(pipeline)
    BY <1>4, CallLengths
  <2>3. Len(pipeline') = Len(responses') + Rejected' + Len(requests')
    BY <1>1, <1>2, <2>1, <2>2, <2>7
  <2>4. ASSUME NEW i \in DOMAIN responses'
        PROVE  responses'[i] \in committed' /\ responses'[i] = pipeline'[i].write
    <3>1. i \in DOMAIN responses /\ i \in DOMAIN pipeline
      BY <1>1, <1>4, CallLengths
    <3> QED BY <1>1, <2>1, <3>1 DEF IInv, CallOK
  <2>5. ASSUME NEW i \in DOMAIN requests'
        PROVE  requests'[i] = pipeline'[Len(responses') + Rejected' + i].write
    <3>1. Len(responses') + Rejected' + i = Len(responses) + Rejected + i
      BY <1>1, <1>2
    <3>2. CASE i \in DOMAIN requests
      <4>1. Len(responses) + Rejected + i \in DOMAIN pipeline
        BY <3>2, <2>7
      <4> QED BY <2>1, <2>2, <3>1, <3>2, <4>1 DEF IInv, CallOK
    <3>3. CASE i = Len(requests) + 1
      <4>1. Len(responses) + Rejected + i = Len(pipeline) + 1
        BY <3>3, <2>7
      <4> QED BY <2>1, <2>2, <3>1, <3>3, <4>1
    <3> QED BY <2>2, <3>2, <3>3
  <2>6. ASSUME ended' # "no" PROVE pipeline'[Len(responses') + 1].write \in refused'
    <3>1. Rejected = 1
      BY <1>1, <2>6 DEF Rejected
    <3>2. Len(responses) + 1 \in DOMAIN pipeline
      BY <1>4, <3>1, CallLengths
    <3> QED BY <1>1, <2>1, <2>6, <3>2 DEF IInv, CallOK
  <2> QED BY <1>1, <1>4, <2>3, <2>4, <2>5, <2>6 DEF CallOK
<1> QED BY <1>3, <1>4

\* The server handles the request that comes after the results.
LEMMA ServedRequest ==
  ASSUME IInv, Server
  PROVE  /\ handshake /\ ended = "no" /\ requests # <<>>
         /\ Len(responses) + 1 \in DOMAIN pipeline
         /\ Head(requests) = pipeline[Len(responses) + 1].write
         /\ Head(requests) \in 1 .. MaxWrites
         /\ Len(requests') = Len(requests) - 1
         /\ DOMAIN requests' = 1 .. Len(requests) - 1
         /\ \A i \in DOMAIN requests' :
              /\ Len(responses) + 1 + i \in DOMAIN pipeline
              /\ requests'[i] = pipeline[Len(responses) + 1 + i].write
<1>1. requests # <<>> /\ ended = "no" /\ requests' = Tail(requests)
  BY DEF Server, Commit, Refuse
<1>2. handshake
  BY <1>1 DEF IInv, CallOK
<1>3. /\ Head(requests) = requests[1] /\ 1 \in DOMAIN requests
      /\ Head(requests) \in 1 .. MaxWrites
      /\ requests' \in Seq(1 .. MaxWrites)
      /\ Len(requests') = Len(requests) - 1
      /\ \A i \in DOMAIN requests' : i + 1 \in DOMAIN requests /\ requests'[i] = requests[i + 1]
  BY <1>1, TailSeq DEF IInv, TypeOK
<1>4. DOMAIN requests' = 1 .. Len(requests) - 1
  BY <1>3, SeqIsFunction
<1>5. Rejected = 0
  BY <1>1 DEF Rejected
<1>6. ASSUME NEW i \in DOMAIN requests
      PROVE  /\ Len(responses) + i \in DOMAIN pipeline
             /\ requests[i] = pipeline[Len(responses) + i].write
  <2>1. /\ Len(responses) + i \in DOMAIN pipeline
        /\ Len(responses) + Rejected + i = Len(responses) + i
    BY <1>2, <1>5, CallLengths
  <2> QED BY <2>1 DEF IInv, CallOK
<1>7. Len(responses) + 1 \in DOMAIN pipeline /\ Head(requests) = pipeline[Len(responses) + 1].write
  BY <1>3, <1>6
<1>8. ASSUME NEW i \in DOMAIN requests'
      PROVE  /\ Len(responses) + 1 + i \in DOMAIN pipeline
             /\ requests'[i] = pipeline[Len(responses) + 1 + i].write
  <2>1. Len(responses) + (i + 1) = Len(responses) + 1 + i
    BY <1>2, <1>4, CallLengths
  <2> QED BY <1>3, <1>6, <2>1
<1> QED BY <1>1, <1>2, <1>3, <1>4, <1>7, <1>8

\* What the server handles moves from the requests to the results or ends the call.
LEMMA ServerCall ==
  ASSUME IInv, Server
  PROVE  CallOK'
<1>0. /\ handshake' = handshake /\ pipeline' = pipeline
      /\ committed \subseteq committed' /\ refused \subseteq refused'
  BY ServerFrame DEF Server, Commit, Refuse
<1>1. CASE Commit
  <2> DEFINE write == Head(requests)
  <2>1. responses' = Append(responses, write) /\ committed' = committed \cup {write} /\ ended' = "no"
    BY <1>1, ServedRequest DEF Commit
  <2>2. write = pipeline[Len(responses) + 1].write /\ write \in 1 .. MaxWrites
    BY <1>1, ServedRequest
  <2> HIDE DEF write
  <2>3. /\ Len(responses') = Len(responses) + 1
        /\ DOMAIN responses' = DOMAIN responses \cup {Len(responses) + 1}
        /\ responses'[Len(responses) + 1] = write
        /\ \A i \in DOMAIN responses : responses'[i] = responses[i]
    BY <2>1, <2>2, AppendSeq DEF IInv, TypeOK
  <2>4. Rejected' = 0 /\ Rejected = 0
    BY <2>1, ServedRequest DEF Rejected
  <2>5. Len(pipeline') = Len(responses') + Rejected' + Len(requests')
    BY <1>0, <2>3, <2>4, ServedRequest, CallLengths
  <2>6. \A i \in DOMAIN responses' :
          responses'[i] \in committed' /\ responses'[i] = pipeline'[i].write
    BY <1>0, <2>1, <2>2, <2>3 DEF IInv, CallOK
  <2>7. ASSUME NEW i \in DOMAIN requests'
        PROVE  requests'[i] = pipeline'[Len(responses') + Rejected' + i].write
    <3>1. Len(responses') + Rejected' + i = Len(responses) + 1 + i
      BY <2>3, <2>4, ServedRequest, CallLengths
    <3> QED BY <1>0, <3>1, ServedRequest
  <2> QED BY <1>0, <2>1, <2>5, <2>6, <2>7, ServedRequest DEF CallOK
<1>2. CASE Refuse
  <2>1. responses' = responses /\ refused' = refused \cup {Head(requests)} /\ ended' = "refused"
    BY <1>2 DEF Refuse
  <2>2. Rejected' = 1 /\ Rejected = 0
    BY <2>1, ServedRequest DEF Rejected
  <2>3. Len(pipeline') = Len(responses') + Rejected' + Len(requests')
    BY <1>0, <2>1, <2>2, ServedRequest, CallLengths
  <2>4. \A i \in DOMAIN responses' :
          responses'[i] \in committed' /\ responses'[i] = pipeline'[i].write
    BY <1>0, <2>1 DEF IInv, CallOK
  <2>5. \A i \in DOMAIN requests' :
          requests'[i] = pipeline'[Len(responses') + Rejected' + i].write
    BY <1>0, <2>1, <2>2, ServedRequest
  <2>6. pipeline'[Len(responses') + 1].write \in refused'
    BY <1>0, <2>1, ServedRequest
  <2> QED BY <1>0, <2>1, <2>3, <2>4, <2>5, <2>6, ServedRequest DEF CallOK
<1> QED BY <1>1, <1>2 DEF Server

\* The call stays in step with the pipeline.
LEMMA CallStep ==
  ASSUME IInv, [Next]_vars
  PROVE  CallOK'
<1>1. CASE TokenArrives \/ StaleTokenArrives \/ BackoffElapses \/ WriteMutations
           \/ AcknowledgeBatch \/ FillEnds \/ RunCallback \/ Launch \/ UNCHANGED vars
  <2>1. UNCHANGED <<handshake, requests, responses, ended, pipeline, committed, refused>>
    BY <1>1 DEF TokenArrives, StaleTokenArrives, BackoffElapses, WriteMutations, AcknowledgeBatch,
       FillEnds, RunCallback, Launch, vars, streamVars, callVars, serverVars
  <2> QED BY <2>1 DEF IInv, CallOK, Rejected
<1>2. CASE CloseAndRetry \/ IdleTimeout \/ RestartNetwork \/ HandleWriteError \/ EndProcess
  <2>1. Closed
    BY <1>2 DEF CloseAndRetry, IdleTimeout, RestartNetwork, HandleWriteError, EndProcess
  <2> QED BY <2>1, ClosedCall
<1> QED BY <1>1, <1>2, HandshakeCall, ResultCall, GrownCall, ServerCall, Steps
        DEF Stream, TokenFails, StreamBreaks

\* A stream that is not idle stays needed.
LEMMA StreamStep ==
  ASSUME IInv, [Next]_vars
  PROVE  StreamOK'
<1> USE DEF IInv
<1>1. CASE Server \/ WriteMutations \/ AcknowledgeBatch \/ RunCallback \/ Launch \/ UNCHANGED vars
  <2>1. UNCHANGED <<stream, handshake, idle, tokens, pipeline>>
    BY <1>1, ServerFrame DEF WriteMutations, AcknowledgeBatch, RunCallback, Launch, vars, streamVars
  <2> QED BY <2>1 DEF StreamOK
<1>2. CASE TokenArrives
  BY <1>2 DEF TokenArrives, StreamOK
<1>3. CASE StaleTokenArrives
  BY <1>3 DEF StaleTokenArrives, StreamOK
<1>4. CASE BackoffElapses
  BY <1>4 DEF BackoffElapses, Start, StreamOK
<1>5. CASE CloseAndRetry
  BY <1>5 DEF CloseAndRetry, Closed, Outdated, StreamOK
<1>6. CASE IdleTimeout \/ RestartNetwork \/ HandleWriteError \/ EndProcess
  <2>1. stream' = "initial" /\ ~handshake' /\ ~idle' /\ "current" \notin tokens'
    BY <1>6 DEF IdleTimeout, RestartNetwork, HandleWriteError, EndProcess, Closed, Outdated
  <2> QED BY <2>1 DEF StreamOK
<1>7. CASE HandshakeComplete
  BY <1>7 DEF HandshakeComplete, StreamOK
<1>8. CASE MutationResult
  <2>1. handshake /\ pipeline # <<>> /\ UNCHANGED <<stream, handshake, idle, tokens>>
    BY <1>8, ResultIsTrue DEF MutationResult, streamVars
  <2> QED BY <2>1 DEF StreamOK
<1>9. CASE AddToWritePipeline
  <2>1. /\ UNCHANGED <<stream, handshake, tokens>> /\ idle' = (idle /\ ~handshake)
    BY <1>9 DEF AddToWritePipeline
  <2>2. Len(pipeline') = Len(pipeline) + 1 /\ Len(pipeline) \in Nat
    BY <1>9, PipelineGrown, Shapes
  <2>3. pipeline' # <<>>
    BY <2>2
  <2> QED BY <2>1, <2>3 DEF StreamOK
<1>10. CASE FillEnds
  <2>1. /\ UNCHANGED <<handshake, pipeline>>
        /\ idle' = (idle \/ (pipeline = <<>> /\ stream = "open"))
        /\ \/ pipeline # <<>> /\ ~IsStarted(stream) /\ Start(stream)
           \/ UNCHANGED <<stream, tokens>>
    BY <1>10 DEF FillEnds
  <2>2. CASE UNCHANGED <<stream, tokens>>
    BY <2>1, <2>2 DEF StreamOK
  <2>3. CASE pipeline # <<>> /\ ~IsStarted(stream) /\ Start(stream)
    BY <2>1, <2>3 DEF IsStarted, Start, StreamOK
  <2> QED BY <2>1, <2>2, <2>3
<1> QED BY <1>1, <1>2, <1>3, <1>4, <1>5, <1>6, <1>7, <1>8, <1>9, <1>10, Steps
        DEF Stream, TokenFails, StreamBreaks

-----------------------------------------------------------------------------
\* What the server took.

\* The write the server handles: what is queued before it was taken.
LEMMA ServedWrite ==
  ASSUME IInv, Server
  PROVE  LET w == Head(requests)
             at == Len(responses) + 1
         IN  /\ w \in 1 .. asked /\ w \in Nat
             /\ at \in DOMAIN pipeline /\ pipeline[at].id \in DOMAIN queue
             /\ w = queue[pipeline[at].id]
             /\ \A v \in 1 .. MaxWrites : v < w => v \in Answered
             /\ \A i \in DOMAIN responses : responses[i] < w
             /\ worker = "acknowledging" => settling.write < w
<1> USE DEF IInv
<1> DEFINE w == Head(requests)
           at == Len(responses) + 1
<1>1. at \in DOMAIN pipeline /\ w = pipeline[at].write /\ w \in 1 .. MaxWrites /\ handshake
  BY ServedRequest
<1>2. Len(responses) \in Nat /\ DOMAIN responses = 1 .. Len(responses)
  BY Shapes
<1> HIDE DEF w
<1>3. /\ DOMAIN queue \subseteq Nat /\ asked \in 0 .. MaxWrites
      /\ \A id \in DOMAIN queue : queue[id] \in 1 .. MaxWrites
  BY DEF TypeOK, IsMap
<1>4. pipeline[at].id \in DOMAIN queue /\ w = queue[pipeline[at].id]
  BY <1>1 DEF PipelineOK
<1>5. w \in 1 .. asked /\ w \in Nat
  BY <1>1, <1>3, <1>4 DEF QueueOK
<1>6. \A i \in DOMAIN responses : i \in DOMAIN pipeline /\ i < at
  <2>1. Len(pipeline) \in Nat /\ DOMAIN pipeline = 1 .. Len(pipeline)
    BY Shapes
  <2> QED BY <1>1, <1>2, <2>1
<1>7. ASSUME NEW v \in 1 .. MaxWrites, v < w PROVE v \in Answered
  <2>1. v \in QueuedWrites \cup Answered
    BY <1>3, <1>5, <1>7 DEF NothingIsLost
  <2>2. ASSUME NEW id \in DOMAIN queue, v = queue[id] PROVE v \in Answered
    <3>1. id < pipeline[at].id
      BY <1>3, <1>4, <1>7, <2>2 DEF QueueOK
    <3>2. CASE worker = "acknowledging" /\ id = settling.id
      BY <2>2, <3>2 DEF SettlingOK, Answered
    <3>3. ASSUME NEW j \in DOMAIN pipeline, j < at, pipeline[j].id = id PROVE v \in Answered
      <4>1. j \in DOMAIN responses
        <5>1. j \in Nat \ {0}
          BY <3>3, Shapes
        <5> QED BY <1>2, <3>3, <5>1
      <4>2. pipeline[j].write = v
        BY <2>2, <3>3 DEF PipelineOK
      <4> QED BY <4>1, <4>2 DEF CallOK, Answered
    <3> QED BY <1>1, <3>1, <3>2, <3>3 DEF PipelineOK
  <2> QED BY <2>1, <2>2 DEF QueuedWrites
<1>8. ASSUME NEW i \in DOMAIN responses PROVE responses[i] < w
  <2>1. pipeline[i].id < pipeline[at].id
    BY <1>1, <1>6 DEF PipelineOK
  <2>2. responses[i] = queue[pipeline[i].id] /\ pipeline[i].id \in DOMAIN queue
    BY <1>6 DEF PipelineOK, CallOK
  <2> QED BY <1>4, <2>1, <2>2 DEF QueueOK
<1>9. ASSUME worker = "acknowledging" PROVE settling.write < w
  <2>1. settling.id < pipeline[at].id /\ settling.id \in DOMAIN queue
        /\ settling.write = queue[settling.id]
    BY <1>1, <1>9 DEF SettlingOK
  <2> QED BY <1>4, <2>1 DEF QueueOK
<1>10. /\ w \in 1 .. asked /\ w \in Nat
       /\ at \in DOMAIN pipeline /\ pipeline[at].id \in DOMAIN queue
       /\ w = queue[pipeline[at].id]
       /\ \A v \in 1 .. MaxWrites : v < w => v \in Answered
       /\ \A i \in DOMAIN responses : responses[i] < w
       /\ worker = "acknowledging" => settling.write < w
  BY <1>1, <1>4, <1>5, <1>7, <1>8, <1>9
<1> QED BY <1>10 DEF w

\* The server takes writes in the order they were asked.
LEMMA OrderStep ==
  ASSUME IInv, [Next]_vars
  PROVE  OrderOK'
<1>1. CASE ~Commit
  <2>1. committed' = committed /\ refused \subseteq refused'
    BY <1>1, Steps, StreamFrame, FillFrame DEF Server, Refuse, WriteMutations, MutationResult,
       AcknowledgeBatch, HandleWriteError, RunCallback, EndProcess, Launch, vars, serverVars
  <2>2. asked' = asked \/ WriteMutations
    BY <1>1, Steps, StreamFrame, FillFrame, ServerFrame DEF MutationResult,
       AcknowledgeBatch, HandleWriteError, RunCallback, EndProcess, Launch, vars, userVars
  <2>3. asked \in Nat /\ (asked' = asked \/ asked' = asked + 1)
    BY <2>2 DEF IInv, TypeOK, WriteMutations
  <2>4. committed \subseteq Nat /\ \A w \in committed : w <= asked
    BY DEF IInv, OrderOK, TypeOK
  <2>5. \A w \in committed' : w <= asked'
    BY <2>1, <2>3, <2>4
  <2> QED BY <2>1, <2>5 DEF IInv, OrderOK, WritesStayInOrder, Answered
<1>2. CASE Commit
  <2> DEFINE w == Head(requests)
  <2>1. /\ committed' = committed \cup {w} /\ refused' = refused /\ asked' = asked
    BY <1>2, ServerFrame DEF Commit, Server
  <2>2. w \in 1 .. asked /\ \A v \in 1 .. MaxWrites : v < w => v \in Answered
    BY <1>2, ServedWrite DEF Server
  <2> HIDE DEF w
  <2> QED BY <2>1, <2>2 DEF IInv, OrderOK, WritesStayInOrder, Answered
<1> QED BY <1>1, <1>2

\* What is newer than the document stays queued.
LEMMA DocumentStep ==
  ASSUME IInv, [Next]_vars
  PROVE  DocumentOK'
<1> USE DEF IInv
<1>1. CASE \/ TokenArrives \/ StaleTokenArrives \/ BackoffElapses \/ HandshakeComplete
           \/ AddToWritePipeline \/ FillEnds \/ RunCallback \/ Launch \/ UNCHANGED vars
  <2>1. UNCHANGED <<committed, refused, document, queue, responses, settling>>
    BY <1>1 DEF TokenArrives, StaleTokenArrives, BackoffElapses, HandshakeComplete,
       AddToWritePipeline, FillEnds, RunCallback, Launch, vars, userVars, localVars, callVars,
       serverVars
  <2>2. worker' = worker \/ worker' # "acknowledging"
    BY <1>1 DEF TokenArrives, StaleTokenArrives, BackoffElapses, HandshakeComplete,
       AddToWritePipeline, FillEnds, RunCallback, Launch, vars
  <2> QED BY <2>1, <2>2 DEF DocumentOK, QueuedWrites
<1>2. CASE CloseAndRetry \/ IdleTimeout \/ RestartNetwork \/ EndProcess
  <2>1. UNCHANGED <<committed, refused, document, queue>> /\ responses' = <<>>
    BY <1>2 DEF CloseAndRetry, IdleTimeout, RestartNetwork, EndProcess, Closed, localVars,
       serverVars
  <2>2. (worker' = worker /\ settling' = settling) \/ worker' # "acknowledging"
    BY <1>2 DEF CloseAndRetry, IdleTimeout, RestartNetwork, EndProcess
  <2>3. DOMAIN responses' = {}
    BY <2>1
  <2> QED BY <2>1, <2>2, <2>3 DEF DocumentOK, QueuedWrites
<1>3. CASE WriteMutations
  <2>1. UNCHANGED <<committed, refused, document, responses>> /\ worker' = "filling"
    BY <1>3 DEF WriteMutations, callVars, serverVars
  <2>2. QueuedWrites \subseteq QueuedWrites'
    BY <1>3, QueueGrown
  <2> QED BY <2>1, <2>2 DEF DocumentOK
<1>4. CASE Refuse
  <2>1. /\ UNCHANGED <<committed, document, responses, queue, worker, settling>>
        /\ refused \subseteq refused'
    BY <1>4, ServerFrame DEF Refuse, Server
  <2> QED BY <2>1 DEF DocumentOK, QueuedWrites
<1>5. CASE Commit
  <2> DEFINE w == Head(requests)
             at == Len(responses) + 1
  <2>1. /\ committed' = committed \cup {w} /\ document' = w
        /\ responses' = Append(responses, w)
        /\ UNCHANGED <<queue, worker, settling>>
    BY <1>5, ServerFrame DEF Commit, Server
  <2>2. /\ w \in 1 .. asked /\ w \in Nat
        /\ pipeline[at].id \in DOMAIN queue /\ w = queue[pipeline[at].id]
        /\ \A i \in DOMAIN responses : responses[i] < w
        /\ worker = "acknowledging" => settling.write < w
    BY <1>5, ServedWrite DEF Server
  <2>3. w \in 1 .. MaxWrites
    BY <1>5, ServedRequest DEF Server
  <2> HIDE DEF w, at
  <2>4. \A i \in DOMAIN responses' : i \in DOMAIN responses \/ responses'[i] = w
    BY <2>1, <2>3, AppendSeq DEF TypeOK
  <2>5. \A i \in DOMAIN responses : responses'[i] = responses[i]
    BY <2>1, <2>3, AppendSeq DEF TypeOK
  <2>6. ASSUME NEW m \in committed', m > document'
        PROVE  /\ m \in QueuedWrites'
               /\ \A i \in DOMAIN responses' : responses'[i] # m
               /\ worker' = "acknowledging" => settling'.write # m
    <3>1. m \in committed /\ m > w /\ m \in 1 .. MaxWrites /\ m <= asked
      BY <2>1, <2>2, <2>6 DEF OrderOK, TypeOK
    <3>2. m \in 1 .. asked /\ w <= m /\ m # w
      BY <2>2, <3>1 DEF TypeOK
    <3>3. m \in QueuedWrites
      BY <2>2, <3>2 DEF QueueOK
    <3>4. \A i \in DOMAIN responses : responses[i] # m
      BY <2>2, <3>1
    <3>5. worker = "acknowledging" => settling.write # m
      BY <2>2, <3>1
    <3> QED BY <2>1, <2>4, <2>5, <3>2, <3>3, <3>4, <3>5 DEF QueuedWrites
  <2> QED BY <2>1, <2>6 DEF DocumentOK
<1>6. CASE MutationResult
  <2>1. /\ UNCHANGED <<committed, refused, document, queue>>
        /\ responses' = Tail(responses) /\ responses # <<>> /\ settling' = Head(pipeline)
    BY <1>6 DEF MutationResult, serverVars
  <2>2. Head(pipeline).write = responses[1] /\ 1 \in DOMAIN responses
    BY <1>6, ResultIsTrue
  <2>3. \A i \in DOMAIN responses' : i + 1 \in DOMAIN responses /\ responses'[i] = responses[i + 1]
    BY <2>1, TailSeq DEF TypeOK
  <2>4. settling'.write = responses[1]
    BY <2>1, <2>2
  <2> QED BY <2>1, <2>2, <2>3, <2>4 DEF DocumentOK, QueuedWrites
<1>7. CASE AcknowledgeBatch
  <2>1. PICK first \in DOMAIN queue :
          /\ \A id \in DOMAIN queue : first <= id
          /\ queue' = Drop(queue, {first})
          /\ UNCHANGED <<asked, up, nextId, committed, refused, document>>
          /\ first = settling.id
    BY <1>7, FirstLeaves
  <2>2. QueuedWrites' = QueuedWrites \ {queue[first]}
    BY <2>1, QueueServed
  <2>3. worker = "acknowledging" /\ worker' = "filling" /\ responses' = responses
    BY <1>7 DEF AcknowledgeBatch, callVars
  <2>4. queue[first] = settling.write
    BY <2>1, <2>3 DEF SettlingOK
  <2> QED BY <2>1, <2>2, <2>3, <2>4 DEF DocumentOK
<1>8. CASE HandleWriteError
  <2>1. PICK first \in DOMAIN queue :
          /\ \A id \in DOMAIN queue : first <= id
          /\ queue' = Drop(queue, {first})
          /\ UNCHANGED <<asked, up, nextId, committed, refused, document>>
          /\ first = pipeline[1].id
    BY <1>8, FirstLeaves
  <2>2. QueuedWrites' = QueuedWrites \ {queue[first]}
    BY <2>1, QueueServed
  <2>3. worker = "free" /\ ended # "no" /\ worker' = "filling" /\ responses' = <<>>
    BY <1>8 DEF HandleWriteError, Free, Closed
  <2>4. queue[first] = pipeline[1].write
    <3>1. pipeline # <<>>
      BY <2>3, PipelineNeeded
    <3>2. 1 \in DOMAIN pipeline
      BY <2>3, <3>1, FrontIsFirst
    <3> QED BY <2>1, <3>2 DEF PipelineOK
  <2>5. \/ queue[first] \in refused
        \/ 1 \in DOMAIN responses /\ queue[first] = responses[1]
    BY <2>3, <2>4, FrontIsAnswered
  <2>6. DOMAIN responses' = {}
    BY <2>3
  <2> QED BY <2>1, <2>2, <2>3, <2>5, <2>6 DEF DocumentOK
<1> QED BY <1>1, <1>2, <1>3, <1>4, <1>5, <1>6, <1>7, <1>8, Steps
        DEF Stream, Server, TokenFails, StreamBreaks

-----------------------------------------------------------------------------
\* The invariant and what it says.

\* It holds at first.
LEMMA InvariantHolds == Init => IInv
<1> SUFFICES ASSUME Init PROVE IInv
  OBVIOUS
<1>1. TypeOK
  BY InitTypes
<1>2. /\ asked = 0 /\ told = {} /\ queue = NoEntries /\ up = TRUE /\ nextId = 1 /\ waiting = {}
      /\ callbacks = <<>> /\ worker = "free" /\ pipeline = <<>>
      /\ stream = "initial" /\ handshake = FALSE /\ idle = FALSE /\ tokens = {}
      /\ requests = <<>> /\ responses = <<>> /\ ended = "no"
      /\ committed = {} /\ document = 0
  BY DEF Init
<1>3. /\ DOMAIN queue = {} /\ DOMAIN callbacks = {} /\ DOMAIN pipeline = {}
      /\ DOMAIN requests = {} /\ DOMAIN responses = {}
  BY <1>2 DEF NoEntries
<1>4. NothingIsLost /\ QueueOK
  BY <1>2, <1>3 DEF NothingIsLost, QueueOK
<1>5. WaitersOK /\ AnswersOK /\ TruthOK
  BY <1>2, <1>3 DEF WaitersOK, AnswersOK, AnsweredOnce, TruthOK, SuccessIsTrue
<1>6. SettlingOK /\ PipelineOK
  BY <1>2, <1>3 DEF SettlingOK, PipelineOK
<1>7. CallOK /\ StreamOK
  BY <1>2, <1>3 DEF CallOK, StreamOK
<1>8. OrderOK /\ DocumentOK
  BY <1>2 DEF OrderOK, WritesStayInOrder, DocumentOK
<1> QED BY <1>1, <1>4, <1>5, <1>6, <1>7, <1>8 DEF IInv

\* Every step keeps it.
LEMMA InvariantStays == IInv /\ [Next]_vars => IInv'
<1> SUFFICES ASSUME IInv, [Next]_vars PROVE IInv'
  OBVIOUS
<1>1. TypeOK'
  <2>1. CASE Client
    <3>1. WriteMutations => nextId <= MaxWrites
      BY QueueGrown DEF IInv, TypeOK
    <3>2. responses # <<>> \/ ended # "no" => pipeline # <<>>
      BY PipelineNeeded
    <3> QED BY <2>1, <3>1, <3>2, ClientTypes DEF IInv
  <2>2. CASE UNCHANGED vars
    BY <2>2 DEF IInv, TypeOK, vars, userVars, localVars, streamVars, callVars, serverVars
  <2> QED BY <2>1, <2>2, StreamTypes, OutsideTypes DEF IInv, Next
<1> QED BY <1>1, QueueStep, AnswersStep, PipelineStep, CallStep, StreamStep, OrderStep,
           DocumentStep DEF IInv

\* The invariant is one of every behaviour.
THEOREM Invariance == Spec => []IInv
BY InvariantHolds, InvariantStays, PTL DEF Spec

\* Every variable of the write path keeps its type, whatever breaks.
THEOREM TypeCorrect == Spec => []TypeOK
<1>1. IInv => TypeOK
  BY DEF IInv
<1> QED BY <1>1, Invariance, PTL

\* SyncEngine, LocalStore: a write asked is on the device until the server has
\* answered it, through breaks of the stream and ends of the process.
THEOREM WritesAreKept == Spec => []NothingIsLost
<1>1. IInv => NothingIsLost
  BY DEF IInv
<1> QED BY <1>1, Invariance, PTL

\* SyncEngine::NotifyUser: no writer is told of a success the server has not taken,
\* though results name no write and are taken to be about the front of the pipeline.
THEOREM SuccessesAreTrue == Spec => []SuccessIsTrue
<1>1. IInv => SuccessIsTrue
  BY DEF IInv, TruthOK
<1> QED BY <1>1, Invariance, PTL

\* mutation_callbacks_: a write sent many times is answered once.
THEOREM WritersHearOnce == Spec => []AnsweredOnce
<1>1. IInv => AnsweredOnce
  BY DEF IInv, AnswersOK
<1> QED BY <1>1, Invariance, PTL

\* The HARD_ASSERTs of RemoteStore, Stream and MutationQueue hold.
THEOREM AssertionsNeverFail == Spec => []AssertionsHold
<1>1. ASSUME IInv PROVE AssertionsHold
  <2>1. responses # <<>> \/ ended # "no" => pipeline # <<>>
    BY <1>1, PipelineNeeded
  <2>2. \A i \in DOMAIN pipeline : pipeline[i].id \in DOMAIN queue
    BY <1>1 DEF IInv, PipelineOK
  <2>3. worker = "acknowledging" => settling.id \in DOMAIN queue
    BY <1>1 DEF IInv, SettlingOK
  <2> QED BY <1>1, <2>1, <2>2, <2>3 DEF IInv, StreamOK, AssertionsHold
<1> QED BY <1>1, Invariance, PTL

\* FillWritePipeline: the server takes writes in the order they were asked.
THEOREM OrderIsKept == Spec => []WritesStayInOrder
<1>1. IInv => WritesStayInOrder
  BY DEF IInv, OrderOK
<1> QED BY <1>1, Invariance, PTL

\* OnWriteStreamHandshakeComplete sends what was sent before: an older write taken
\* again is followed by the newer ones.
THEOREM LastWriteWins == Spec => []LastWriteStands
<1>1. ASSUME IInv, queue = NoEntries, committed \cap refused = {}, committed # {}
      PROVE  document = Max(committed)
  <2>1. DOMAIN queue = {}
    BY <1>1 DEF NoEntries
  <2>2. document \in committed /\ \A m \in committed : ~(m > document)
    BY <1>1, <2>1 DEF IInv, DocumentOK, QueuedWrites
  <2>3. committed \subseteq 0 .. MaxWrites /\ committed \subseteq Nat /\ MaxWrites \in Nat
    BY <1>1, WritesAssumption DEF IInv, TypeOK
  <2> DEFINE top == Max(committed)
  <2>4. top \in committed /\ \A m \in committed : m <= top
    BY <1>1, <2>3, GreatestOf
  <2> HIDE DEF top
  <2>5. document \in Nat /\ top \in Nat
    BY <2>2, <2>3, <2>4
  <2>6. ~(top > document) /\ document <= top
    BY <2>2, <2>4
  <2>7. document = top
    BY <2>5, <2>6
  <2> QED BY <2>7 DEF top
<1>2. IInv => LastWriteStands
  BY <1>1 DEF LastWriteStands
<1> QED BY <1>2, Invariance, PTL

-----------------------------------------------------------------------------
\* No wake-up is lost.

\* When the worker queue is free what waits is in the pipeline, at least its first, and
\* a pipeline has a stream that is started.
ServiceOK ==
  /\ stream = "starting" => "current" \in tokens
  /\ Free => (queue # NoEntries => pipeline # <<>>)
  /\ Free /\ pipeline # <<>> => IsStarted(stream)

\* The loop of FillWritePipeline does not end before the pipeline has a write, if there
\* is one.
LEMMA FillFindsWrites ==
  ASSUME TypeOK, FillEnds
  PROVE  queue # NoEntries => pipeline # <<>>
<1> SUFFICES ASSUME pipeline = <<>> PROVE queue = NoEntries
  OBVIOUS
<1>1. Later = DOMAIN queue
  BY DEF Later
<1>2. Len(pipeline) < MaxPending
  BY WritesAssumption
<1>3. DOMAIN queue = {}
  BY <1>1, <1>2 DEF FillEnds, CanAdd
<1> QED BY <1>3 DEF TypeOK, IsMap, NoEntries

LEMMA ServiceStep ==
  ASSUME IInv, ServiceOK, [Next]_vars
  PROVE  ServiceOK'
<1> USE DEF ServiceOK, Free
<1>1. CASE Server \/ RunCallback \/ UNCHANGED vars
  <2>1. UNCHANGED <<stream, tokens, up, worker, queue, pipeline>>
    BY <1>1, ServerFrame DEF RunCallback, vars, localVars, streamVars
  <2> QED BY <2>1
<1>2. CASE AddToWritePipeline \/ WriteMutations \/ MutationResult \/ AcknowledgeBatch \/ Launch
  <2>1. UNCHANGED <<stream, tokens>> /\ worker' # "free"
    BY <1>2 DEF AddToWritePipeline, WriteMutations, MutationResult, AcknowledgeBatch, Launch,
       streamVars
  <2> QED BY <2>1
<1>3. CASE RestartNetwork \/ HandleWriteError \/ EndProcess
  <2>1. stream' = "initial" /\ (worker' # "free" \/ ~up')
    BY <1>3 DEF RestartNetwork, HandleWriteError, EndProcess
  <2> QED BY <2>1
<1>4. CASE FillEnds
  <2>1. /\ UNCHANGED <<up, queue, pipeline>>
        /\ IF pipeline # <<>> /\ ~IsStarted(stream)
           THEN Start(stream) ELSE UNCHANGED <<stream, tokens>>
    BY <1>4 DEF FillEnds, localVars
  <2>2. queue # NoEntries => pipeline # <<>>
    BY <1>4, FillFindsWrites DEF IInv
  <2>3. stream' = "starting" => "current" \in tokens'
    BY <2>1 DEF Start, IsStarted
  <2>4. pipeline # <<>> => IsStarted(stream')
    BY <2>1 DEF Start, IsStarted
  <2> QED BY <2>1, <2>2, <2>3, <2>4
<1>5. CASE Stream
  <2>1. Free /\ UNCHANGED <<up, worker, queue, pipeline>>
    BY <1>5, StreamFrame DEF Stream, TokenArrives, TokenFails, StaleTokenArrives, BackoffElapses,
       HandshakeComplete, StreamBreaks, IdleTimeout
  <2>2. SUFFICES /\ stream' = "starting" => "current" \in tokens'
                 /\ pipeline # <<>> => IsStarted(stream')
    BY <2>1 DEF IsStarted
  <2>3. CASE TokenArrives
    BY <2>3 DEF TokenArrives, IsStarted
  <2>4. CASE CloseAndRetry
    BY <2>4 DEF CloseAndRetry, IsStarted
  <2>5. CASE StaleTokenArrives \/ HandshakeComplete
    <3>1. stream' = stream /\ ("current" \in tokens => "current" \in tokens')
      BY <2>5 DEF StaleTokenArrives, HandshakeComplete
    <3> QED BY <2>1, <3>1 DEF IsStarted
  <2>6. CASE BackoffElapses
    BY <2>6 DEF BackoffElapses, Start, IsStarted
  <2>7. CASE IdleTimeout
    BY <2>7 DEF IdleTimeout, IInv, StreamOK
  <2> QED BY <1>5, <2>3, <2>4, <2>5, <2>6, <2>7 DEF Stream, TokenFails, StreamBreaks
<1> QED BY <1>1, <1>2, <1>3, <1>4, <1>5, Steps

\* RemoteStore never sleeps on a write: while one waits on the device and the worker
\* queue is free, credentials, a timer, the handshake or an answer is on its way.
THEOREM WakeUpsAreKept == Spec => []NothingStalls
<1>1. Init => ServiceOK
  BY DEF Init, ServiceOK
<1>2. Spec => []ServiceOK
  BY <1>1, ServiceStep, Invariance, PTL DEF Spec
<1>3. ASSUME IInv, ServiceOK, Free, queue # NoEntries,
             "current" \notin tokens, stream # "backoff", stream = "open" => handshake,
             requests = <<>>, responses = <<>>, ended = "no"
      PROVE  FALSE
  <2>1. pipeline # <<>> /\ handshake
    BY <1>3 DEF ServiceOK, IsStarted
  <2>2. Len(pipeline) = 0
    BY <1>3, <2>1 DEF IInv, CallOK, Rejected
  <2> QED BY <2>1, <2>2, <1>3, EmptySeq DEF IInv, TypeOK
<1>4. IInv /\ ServiceOK => NothingStalls
  BY <1>3 DEF NothingStalls
<1> QED BY <1>2, <1>4, Invariance, PTL

-----------------------------------------------------------------------------
\* Failures.

\* The write whose failure is on its way has left the device.
GoneOK ==
  \A i \in DOMAIN callbacks : ~callbacks[i].ok => callbacks[i].write \notin QueuedWrites

\* A failure told, or on its way, is of a write the server refused.
FailuresOK ==
  /\ FailureIsTrue
  /\ \A i \in DOMAIN callbacks : ~callbacks[i].ok => callbacks[i].write \in refused

\* The batch rejected is the front; it is the one refused if results are read first.
LEMMA RejectedWrite ==
  ASSUME IInv, HandleWriteError
  PROVE  /\ "early" \notin Faults => queue[Head(pipeline).id] \in refused
         /\ QueuedWrites' = QueuedWrites \ {queue[Head(pipeline).id]}
         /\ \A e \in waiting : e.id = Head(pipeline).id => e.write = queue[Head(pipeline).id]
<1>1. /\ worker = "free" /\ ended # "no" /\ ("early" \notin Faults => responses = <<>>)
      /\ queue' = Drop(queue, {Head(pipeline).id})
      /\ UNCHANGED <<asked, up, nextId>>
  BY DEF HandleWriteError, Free, userVars
<1>2. pipeline # <<>>
  BY <1>1, PipelineNeeded
<1>3. /\ Head(pipeline).id \in DOMAIN queue /\ Head(pipeline) = pipeline[1]
      /\ Head(pipeline).write = queue[Head(pipeline).id]
      /\ \A id \in DOMAIN queue : Head(pipeline).id <= id
  BY <1>1, <1>2, FrontIsFirst DEF IInv
<1>4. "early" \notin Faults => queue[Head(pipeline).id] \in refused
  BY <1>1, <1>3, FrontIsAnswered
<1>5. QueuedWrites' = QueuedWrites \ {queue[Head(pipeline).id]}
  BY <1>1, <1>3, QueueServed DEF IInv
<1> QED BY <1>3, <1>4, <1>5 DEF IInv, WaitersOK

\* What a step puts on its way to the user, and what it tells.
LEMMA CallbacksChange ==
  ASSUME IInv, [Next]_vars
  PROVE  /\ \A i \in DOMAIN callbacks' :
              \/ \E j \in DOMAIN callbacks : callbacks'[i] = callbacks[j]
              \/ callbacks'[i].ok
              \/ HandleWriteError /\ callbacks'[i].write = queue[Head(pipeline).id]
         /\ \A answer \in told' :
              answer \in told \/ \E j \in DOMAIN callbacks : answer = callbacks[j]
<1>1. CASE \/ Stream \/ Server \/ AddToWritePipeline \/ FillEnds \/ RestartNetwork
           \/ WriteMutations \/ AcknowledgeBatch \/ UNCHANGED vars
  BY <1>1, StreamFrame, FillFrame, ServerFrame
     DEF WriteMutations, AcknowledgeBatch, vars, userVars, localVars
<1>2. CASE MutationResult
  <2>1. NotifyUser(Head(pipeline).id, TRUE) /\ told' = told
    BY <1>2 DEF MutationResult, userVars
  <2>2. AnswersOf(Head(pipeline).id, TRUE)
    BY <2>1, NotifyAnswers
  <2> QED BY <2>1, <2>2 DEF AnswersOf
<1>3. CASE HandleWriteError
  <2>1. NotifyUser(Head(pipeline).id, FALSE) /\ told' = told
    BY <1>3 DEF HandleWriteError, userVars
  <2>2. \A e \in waiting : e.id = Head(pipeline).id => e.write = queue[Head(pipeline).id]
    BY <1>3, RejectedWrite
  <2>3. AnswersOf(Head(pipeline).id, FALSE)
    BY <2>1, NotifyAnswers
  <2> QED BY <1>3, <2>1, <2>2, <2>3 DEF AnswersOf
<1>4. CASE RunCallback
  <2>1. /\ callbacks # <<>> /\ callbacks' = Tail(callbacks)
        /\ told' = told \cup {callbacks[1]} /\ 1 \in DOMAIN callbacks
    BY <1>4, TailSeq DEF RunCallback, IInv, TypeOK
  <2>2. \A i \in DOMAIN callbacks' : i + 1 \in DOMAIN callbacks /\ callbacks'[i] = callbacks[i + 1]
    BY <2>1, TailSeq DEF IInv, TypeOK
  <2> QED BY <2>1, <2>2
<1>5. CASE EndProcess \/ Launch
  <2>1. told' = told /\ (callbacks' = <<>> \/ callbacks' = callbacks)
    BY <1>5 DEF EndProcess, Launch, userVars
  <2>2. DOMAIN callbacks' = {} \/ callbacks' = callbacks
    BY <2>1
  <2> QED BY <2>1, <2>2
<1> QED BY <1>1, <1>2, <1>3, <1>4, <1>5, Steps

\* A write leaves the device before its failure is on its way, and never comes back.
LEMMA GoneStep ==
  ASSUME IInv, GoneOK, [Next]_vars
  PROVE  GoneOK'
<1>1. QueuedWrites' \subseteq QueuedWrites \cup {asked + 1}
  <2>1. CASE WriteMutations
    BY <2>1, QueueGrown DEF IInv
  <2>2. CASE AcknowledgeBatch \/ HandleWriteError
    BY <2>2, FirstLeaves, QueueServed DEF IInv
  <2>3. CASE \/ Stream \/ Server \/ AddToWritePipeline \/ FillEnds \/ RestartNetwork
             \/ MutationResult \/ RunCallback \/ EndProcess \/ Launch \/ UNCHANGED vars
    BY <2>3, StreamFrame, FillFrame, ServerFrame
       DEF MutationResult, RunCallback, EndProcess, Launch, vars, localVars, QueuedWrites
  <2> QED BY <2>1, <2>2, <2>3, Steps
<1>2. \A j \in DOMAIN callbacks : callbacks[j].write # asked + 1
  BY DEF IInv, AnswersOK, TypeOK, Answer
<1>3. HandleWriteError => queue[Head(pipeline).id] \notin QueuedWrites'
  BY RejectedWrite
<1> QED BY <1>1, <1>2, <1>3, CallbacksChange DEF GoneOK

\* What was refused stays refused.
LEMMA FailuresStep ==
  ASSUME "early" \notin Faults, IInv, FailuresOK, [Next]_vars
  PROVE  FailuresOK'
<1>1. refused \subseteq refused'
  BY StreamFrame, FillFrame, Steps
     DEF Server, Commit, Refuse, WriteMutations, MutationResult, AcknowledgeBatch,
         HandleWriteError, RunCallback, EndProcess, Launch, vars, serverVars
<1>2. HandleWriteError => queue[Head(pipeline).id] \in refused
  BY RejectedWrite
<1> QED BY <1>1, <1>2, CallbacksChange DEF FailuresOK, FailureIsTrue

\* OnWriteStreamClose, HandleWriteError: a writer is told of a failure only if the
\* server refused its write, even by a server that changes its mind.
THEOREM FailuresAreTrue ==
  ASSUME "early" \notin Faults
  PROVE  Spec => []FailureIsTrue
<1>1. Init => FailuresOK
  <2> SUFFICES ASSUME Init PROVE FailuresOK
    OBVIOUS
  <2>1. told = {} /\ callbacks = <<>>
    BY DEF Init
  <2>2. DOMAIN callbacks = {}
    BY <2>1
  <2> QED BY <2>1, <2>2 DEF FailuresOK, FailureIsTrue
<1>2. Spec => []FailuresOK
  BY <1>1, FailuresStep, Invariance, PTL DEF Spec
<1>3. FailuresOK => FailureIsTrue
  BY DEF FailuresOK
<1> QED BY <1>2, <1>3, PTL

-----------------------------------------------------------------------------
\* FirestoreWrites implements WriteDelivery.

\* What the abstract specification does not see.
LEMMA Unseen ==
  ASSUME IInv,
         \/ Stream \/ Refuse \/ AddToWritePipeline \/ FillEnds \/ RestartNetwork
         \/ MutationResult \/ EndProcess \/ Launch \/ UNCHANGED vars
  PROVE  UNCHANGED <<1 .. asked, QueuedWrites, committed, told>>
<1>1. UNCHANGED <<asked, queue, committed, told>>
  BY StreamFrame, FillFrame, ServerFrame DEF Server, Refuse, MutationResult, EndProcess, Launch,
     vars, userVars, localVars, serverVars
<1> QED BY <1>1 DEF QueuedWrites

\* Every step is one of the abstract specification, or none.
LEMMA DeliveryStep ==
  ASSUME IInv, GoneOK, [Next]_vars
  PROVE  Delivery!Next \/ UNCHANGED Delivery!deliveryVars
<1> USE DEF IInv
<1>1. CASE WriteMutations
  <2>1. asked < MaxWrites /\ UNCHANGED <<told, committed>>
    BY <1>1 DEF WriteMutations, serverVars
  <2>2. QueuedWrites' = QueuedWrites \cup {asked + 1} /\ asked' = asked + 1
    BY <1>1, QueueGrown
  <2>3. /\ 1 .. (asked + 1) = (1 .. asked) \cup {asked + 1}
        /\ asked + 1 \in (1 .. MaxWrites) \ (1 .. asked)
    BY <2>1, WritesAssumption DEF TypeOK
  <2>4. Delivery!Ask(asked + 1)
    BY <2>1, <2>2, <2>3 DEF Delivery!Ask
  <2> QED BY <2>3, <2>4 DEF Delivery!Next
<1>2. CASE Commit
  <2> DEFINE w == Head(requests)
  <2>1. committed' = committed \cup {w} /\ UNCHANGED <<asked, queue, told>>
    BY <1>2, ServerFrame DEF Commit, Server
  <2>2. w \in 1 .. asked /\ w \in QueuedWrites
    BY <1>2, ServedWrite DEF Server, QueuedWrites
  <2> HIDE DEF w
  <2>3. UNCHANGED QueuedWrites
    BY <2>1 DEF QueuedWrites
  <2>4. Delivery!Commit(w)
    BY <2>1, <2>2, <2>3 DEF Delivery!Commit
  <2> QED BY <2>2, <2>4 DEF Delivery!Next
<1>3. CASE AcknowledgeBatch \/ HandleWriteError
  <2>1. PICK first \in DOMAIN queue :
          /\ \A id \in DOMAIN queue : first <= id
          /\ queue' = Drop(queue, {first})
          /\ UNCHANGED <<asked, up, nextId, committed, refused, document>>
    BY <1>3, FirstLeaves
  <2>2. QueuedWrites' = QueuedWrites \ {queue[first]}
    BY <2>1, QueueServed
  <2>3. queue[first] \in 1 .. asked /\ queue[first] \in QueuedWrites
    BY DEF QueueOK, TypeOK, IsMap, QueuedWrites
  <2>4. told' = told
    BY <1>3 DEF AcknowledgeBatch, HandleWriteError, userVars
  <2>5. Delivery!Leave(queue[first])
    BY <2>1, <2>2, <2>3, <2>4 DEF Delivery!Leave
  <2> QED BY <2>3, <2>5 DEF Delivery!Next
<1>4. CASE RunCallback
  <2> DEFINE a == Head(callbacks)
  <2>1. /\ callbacks # <<>> /\ told' = told \cup {a}
        /\ UNCHANGED <<asked, queue, committed>>
    BY <1>4 DEF RunCallback, localVars, serverVars
  <2>2. a \in Answer /\ a = callbacks[1] /\ 1 \in DOMAIN callbacks
    BY <2>1, TailSeq DEF TypeOK
  <2> HIDE DEF a
  <2>3. /\ a.write \in 1 .. asked /\ a.ok \in BOOLEAN
        /\ a = [write |-> a.write, ok |-> a.ok]
    BY <2>2 DEF AnswersOK, Answer, TypeOK
  <2>4. ~\E answer \in told : answer.write = a.write
    BY <2>2 DEF AnswersOK, AnsweredOnce
  <2>5. IF a.ok THEN a.write \in committed ELSE a.write \notin QueuedWrites
    BY <2>2 DEF TruthOK, GoneOK
  <2>6. UNCHANGED QueuedWrites
    BY <2>1 DEF QueuedWrites
  <2>7. Delivery!Hear(a.write, a.ok)
    BY <2>1, <2>3, <2>4, <2>5, <2>6 DEF Delivery!Hear, Delivery!Heard
  <2> QED BY <2>3, <2>7 DEF Delivery!Next
<1> QED BY <1>1, <1>2, <1>3, <1>4, Unseen, Steps DEF Server, Delivery!deliveryVars

\* To whoever writes a document the batches, the pipeline, the stream and its
\* repetitions are a device that keeps a write until the server has settled it.
THEOREM WritesAreDelivered == Spec => ImplementsDelivery
<1>1. Init => Delivery!Init /\ GoneOK
  <2> SUFFICES ASSUME Init PROVE Delivery!Init /\ GoneOK
    OBVIOUS
  <2>1. /\ asked = 0 /\ told = {} /\ queue = NoEntries /\ callbacks = <<>> /\ committed = {}
    BY DEF Init
  <2>2. DOMAIN queue = {} /\ DOMAIN callbacks = {} /\ 1 .. asked = {}
    BY <2>1 DEF NoEntries
  <2> QED BY <2>1, <2>2 DEF Delivery!Init, GoneOK, QueuedWrites
<1>2. IInv /\ GoneOK /\ [Next]_vars => GoneOK' /\ [Delivery!Next]_Delivery!deliveryVars
  BY GoneStep, DeliveryStep
<1>3. Spec => []GoneOK
  BY <1>1, <1>2, Invariance, PTL DEF Spec
<1> QED BY <1>1, <1>2, <1>3, Invariance, PTL DEF Spec, ImplementsDelivery, Delivery!Spec
=============================================================================
