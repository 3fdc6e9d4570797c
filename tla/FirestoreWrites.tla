-------------------------- MODULE FirestoreWrites --------------------------
(***************************************************************************)
(* How Firestore delivers the document PostPublishing gives it.  On one    *)
(* worker queue SyncEngine and LocalStore put each write into a queue in   *)
(* LevelDB; RemoteStore takes the oldest into its pipeline and sends them  *)
(* on a WriteStream, which fails, backs off and is opened again; results   *)
(* come back in the order of sending and settle the front of the pipeline. *)
(* The queue outlives the process, everything else of the client does not. *)
(* The server is outside: it commits or refuses what reaches it.           *)
(***************************************************************************)
EXTENDS Integers, Sequences, FiniteSetsExt, PartialMaps

CONSTANTS
  MaxWrites,   \* bound: writes asked
  MaxPending,  \* kMaxPendingWrites
  Faults       \* "fickle": the server may refuse what it took before, and the reverse;
               \* "early": a send that fails may end the stream before results are read

ASSUME WritesAssumption ==
  /\ MaxWrites \in Nat /\ MaxPending \in Nat \ {0}
  /\ Faults \subseteq {"fickle", "early"}

VARIABLES
  asked,      \* number of writes asked: they are 1 .. asked
  told,       \* answers the callbacks gave: [write, ok]
  \* on the device
  queue,      \* mutation queue: batch id -> write
  \* the process
  up,         \* the process runs
  nextId,     \* next_batch_id_
  waiting,    \* mutation_callbacks_: [id, write]
  callbacks,  \* blocks on the way to the user's queue: [write, ok], oldest first
  worker,     \* what the operation on the worker queue still has to do
  settling,   \* the batch HandleSuccessfulWrite is about, while it acknowledges
  pipeline,   \* write_pipeline_: [id, write], oldest first
  stream,     \* Stream::state_
  handshake,  \* handshake_complete_
  idle,       \* idleness_timer_ runs
  tokens,     \* requests for credentials not answered, by their close count
  \* the gRPC call and the server
  requests,   \* writes sent and not yet handled by the server, oldest first
  responses,  \* writes committed whose result is not yet read, oldest first
  ended,      \* the call: "no"; "refused": ended by the server with a permanent error;
              \* "reading": and a read was begun since
  committed,  \* writes the server has taken
  refused,    \* writes the server has refused
  document    \* the last write taken, were all about one document; 0: none

callVars == <<requests, responses, ended>>
serverVars == <<committed, refused, document>>
streamVars == <<stream, handshake, idle, tokens>>
userVars == <<asked, told>>
localVars == <<queue, nextId, waiting>>
vars == <<userVars, localVars, up, callbacks, worker, settling, pipeline, streamVars,
          callVars, serverVars>>

NoBatch == [id |-> 0, write |-> 0]

WritesOf(batches) == [i \in DOMAIN batches |-> batches[i].write]

Init ==
  /\ asked = 0 /\ told = {}
  /\ queue = NoEntries /\ up = TRUE /\ nextId = 1 /\ waiting = {} /\ callbacks = <<>>
  /\ worker = "free" /\ settling = NoBatch /\ pipeline = <<>>
  /\ stream = "initial" /\ handshake = FALSE /\ idle = FALSE /\ tokens = {}
  /\ requests = <<>> /\ responses = <<>> /\ ended = "no"
  /\ committed = {} /\ refused = {} /\ document = 0

-----------------------------------------------------------------------------
\* The stream.

IsStarted(state) == state \in {"starting", "backoff", "open"}

\* Stream::Start, told the state it finds: after an error it waits first.
Start(state) ==
  IF state = "error"
  THEN stream' = "backoff" /\ UNCHANGED tokens
  ELSE stream' = "starting" /\ tokens' = tokens \cup {"current"}

\* What Stream::Close leaves, but for the state: the call is gone, timers are
\* cancelled, and answers about credentials belong to the past.
Closed ==
  /\ handshake' = FALSE /\ idle' = FALSE
  /\ requests' = <<>> /\ responses' = <<>> /\ ended' = "no"

Outdated == {"stale" : t \in tokens}

\* Mutant: OnWriteStreamClose does not start the stream again.
CloseWithoutRetry ==
  /\ stream' = "error"
  /\ tokens' = Outdated
  /\ Closed
  /\ UNCHANGED <<userVars, localVars, up, callbacks, worker, settling, pipeline, serverVars>>

\* Close after an error that is not the fault of a write: OnWriteStreamClose starts
\* the stream again, by way of the backoff, if writes are pending.
CloseAndRetry ==
  /\ stream' = IF pipeline # <<>> THEN "backoff" ELSE "error"
  /\ tokens' = Outdated
  /\ Closed
  /\ UNCHANGED <<userVars, localVars, up, callbacks, worker, settling, pipeline, serverVars>>

Free == up /\ worker = "free"

\* The credentials asked by RequestCredentials come: the call is made, the stream is
\* open at once and WriteHandshake sends its request.
TokenArrives ==
  /\ Free /\ "current" \in tokens
  /\ tokens' = tokens \ {"current"}
  /\ stream' = "open"
  /\ idle' = FALSE
  /\ UNCHANGED <<userVars, localVars, up, callbacks, worker, settling, pipeline, handshake,
                 callVars, serverVars>>

TokenFails ==
  /\ Free /\ "current" \in tokens
  /\ CloseAndRetry

\* Mutant: the close count is not compared.
StaleTokenOpens ==
  /\ Free /\ "stale" \in tokens
  /\ tokens' = tokens \ {"stale"}
  /\ stream' = "open"
  /\ UNCHANGED <<userVars, localVars, up, callbacks, worker, settling, pipeline, handshake,
                 idle, callVars, serverVars>>

\* Credentials asked before the stream was closed: the close count differs.
StaleTokenArrives ==
  /\ Free /\ "stale" \in tokens
  /\ tokens' = tokens \ {"stale"}
  /\ UNCHANGED <<userVars, localVars, up, callbacks, worker, settling, pipeline, stream,
                 handshake, idle, callVars, serverVars>>

BackoffElapses ==
  /\ Free /\ stream = "backoff"
  /\ Start("initial")
  /\ UNCHANGED <<userVars, localVars, up, callbacks, worker, settling, pipeline, handshake,
                 idle, callVars, serverVars>>

\* The first response of the server: the whole pipeline is sent, again if it was sent
\* on an earlier stream.
HandshakeComplete ==
  /\ Free /\ stream = "open" /\ ~handshake
  /\ handshake' = TRUE
  /\ requests' = requests \o WritesOf(pipeline)
  /\ idle' = (idle /\ pipeline = <<>>)
  /\ UNCHANGED <<userVars, localVars, up, callbacks, worker, settling, pipeline, stream, tokens,
                 responses, ended, serverVars>>

\* The connection breaks, or the server refuses the handshake or asks to try again.
StreamBreaks ==
  /\ Free /\ stream = "open"
  /\ CloseAndRetry

\* kIdleTimeout passes: a graceful Stop.
IdleTimeout ==
  /\ Free /\ idle
  /\ stream' = "initial"
  /\ tokens' = Outdated
  /\ Closed
  /\ UNCHANGED <<userVars, localVars, up, callbacks, worker, settling, pipeline, serverVars>>

-----------------------------------------------------------------------------
\* RemoteStore::FillWritePipeline, the end of most operations, in turns of its loop.

\* GetNextMutationBatch after the last of the pipeline.
Later == {id \in DOMAIN queue :
            pipeline # <<>> => id > pipeline[Len(pipeline)].id}

CanAdd == Len(pipeline) < MaxPending /\ Later # {}

\* Mutant: a batch is sent as soon as the stream is open.
AddAndSendAtOnce ==
  /\ up /\ worker = "filling" /\ CanAdd
  /\ LET batch == [id |-> Min(Later), write |-> queue[Min(Later)]]
     IN /\ pipeline' = Append(pipeline, batch)
        /\ requests' = IF stream = "open" THEN Append(requests, batch.write) ELSE requests
        /\ idle' = (idle /\ stream # "open")
  /\ UNCHANGED <<userVars, localVars, up, callbacks, worker, settling, stream, handshake, tokens,
                 responses, ended, serverVars>>

\* Mutant: the iterator stands at the newest batch.
AddNewestFirst ==
  /\ up /\ worker = "filling" /\ CanAdd
  /\ LET batch == [id |-> Max(Later), write |-> queue[Max(Later)]]
     IN /\ pipeline' = Append(pipeline, batch)
        /\ requests' = IF handshake THEN Append(requests, batch.write) ELSE requests
        /\ idle' = (idle /\ ~handshake)
  /\ UNCHANGED <<userVars, localVars, up, callbacks, worker, settling, stream, handshake, tokens,
                 responses, ended, serverVars>>

AddToWritePipeline ==
  /\ up /\ worker = "filling" /\ CanAdd
  /\ LET batch == [id |-> Min(Later), write |-> queue[Min(Later)]]
     IN /\ pipeline' = Append(pipeline, batch)
        /\ requests' = IF handshake THEN Append(requests, batch.write) ELSE requests
        /\ idle' = (idle /\ ~handshake)
  /\ UNCHANGED <<userVars, localVars, up, callbacks, worker, settling, stream, handshake, tokens,
                 responses, ended, serverVars>>

\* The loop is over: an open stream with nothing to do is marked idle, a stream that
\* is needed is started.
FillEnds ==
  /\ up /\ worker = "filling" /\ ~CanAdd
  /\ worker' = "free"
  /\ idle' = (idle \/ (pipeline = <<>> /\ stream = "open"))
  /\ IF pipeline # <<>> /\ ~IsStarted(stream)
     THEN Start(stream)
     ELSE UNCHANGED <<stream, tokens>>
  /\ UNCHANGED <<userVars, localVars, up, callbacks, settling, pipeline, handshake, callVars,
                 serverVars>>

-----------------------------------------------------------------------------
\* Operations on the worker queue.

\* setData: SyncEngine::WriteMutations, with the transaction of WriteLocally.
WriteMutations ==
  /\ Free /\ asked < MaxWrites
  /\ asked' = asked + 1
  /\ queue' = Put(queue, nextId, asked')
  /\ nextId' = nextId + 1
  /\ waiting' = waiting \cup {[id |-> nextId, write |-> asked']}
  /\ worker' = "filling"
  /\ UNCHANGED <<told, up, callbacks, settling, pipeline, streamVars, callVars, serverVars>>

\* Mutant: whoever waits is told.
NotifyAnyone(id, ok) ==
  /\ callbacks' = IF waiting # {}
                  THEN Append(callbacks, [write |-> (CHOOSE entry \in waiting : TRUE).write, ok |-> ok])
                  ELSE callbacks
  /\ waiting' = {entry \in waiting : entry.id # id}

\* SyncEngine::NotifyUser: batches of an earlier process have no callback.
NotifyUser(id, ok) ==
  /\ callbacks' = IF \E entry \in waiting : entry.id = id
                  THEN Append(callbacks,
                         [write |-> (CHOOSE entry \in waiting : entry.id = id).write, ok |-> ok])
                  ELSE callbacks
  /\ waiting' = {entry \in waiting : entry.id # id}

\* OnWriteStreamMutationResult and the first half of HandleSuccessfulWrite: the result
\* is taken to be about the front of the pipeline.
MutationResult ==
  /\ Free /\ handshake /\ responses # <<>>
  /\ responses' = Tail(responses)
  /\ ended' = IF ended = "no" THEN "no" ELSE "reading"
  /\ pipeline' = Tail(pipeline)
  /\ NotifyUser(Head(pipeline).id, TRUE)
  /\ settling' = Head(pipeline)
  /\ worker' = "acknowledging"
  /\ UNCHANGED <<userVars, queue, nextId, up, streamVars, requests, serverVars>>

\* The second half: LocalStore::AcknowledgeBatch removes the batch from LevelDB.
AcknowledgeBatch ==
  /\ up /\ worker = "acknowledging"
  /\ queue' = Drop(queue, {settling.id})
  /\ settling' = NoBatch
  /\ worker' = "filling"
  /\ UNCHANGED <<userVars, nextId, waiting, up, callbacks, pipeline, streamVars, callVars,
                 serverVars>>

\* Mutant: the batch rejected stays in LevelDB.
HandleErrorKeepingBatch ==
  /\ Free /\ handshake /\ ended # "no"
  /\ responses = <<>> \/ ("early" \in Faults /\ ended = "reading" /\ requests # <<>>)
  /\ pipeline' = Tail(pipeline)
  /\ NotifyUser(Head(pipeline).id, FALSE)
  /\ stream' = "initial"
  /\ tokens' = Outdated
  /\ Closed
  /\ worker' = "filling"
  /\ UNCHANGED <<userVars, queue, nextId, up, settling, serverVars>>

\* The server's permanent error, learnt when the results before it are read, or, with
\* "early", from a send that fails before the next read is done (OnOperationFailed):
\* HandleWriteError rejects the front.
HandleWriteError ==
  /\ Free /\ handshake /\ ended # "no"
  /\ responses = <<>> \/ ("early" \in Faults /\ ended = "reading" /\ requests # <<>>)
  /\ pipeline' = Tail(pipeline)
  /\ queue' = Drop(queue, {Head(pipeline).id})
  /\ NotifyUser(Head(pipeline).id, FALSE)
  /\ stream' = "initial"
  /\ tokens' = Outdated
  /\ Closed
  /\ worker' = "filling"
  /\ UNCHANGED <<userVars, nextId, up, settling, serverVars>>

\* The network is reachable again: RestartNetwork stops the stream, forgets the
\* pipeline and fills it from the queue.
RestartNetwork ==
  /\ Free
  /\ pipeline' = <<>>
  /\ stream' = "initial"
  /\ tokens' = Outdated
  /\ Closed
  /\ worker' = "filling"
  /\ UNCHANGED <<userVars, localVars, up, callbacks, settling, serverVars>>

\* The user's queue runs a callback.
RunCallback ==
  /\ callbacks # <<>>
  /\ told' = told \cup {Head(callbacks)}
  /\ callbacks' = Tail(callbacks)
  /\ UNCHANGED <<asked, localVars, up, worker, settling, pipeline, streamVars, callVars,
                 serverVars>>

-----------------------------------------------------------------------------
\* The process.

EndProcess ==
  /\ up /\ up' = FALSE
  /\ nextId' = 1 /\ waiting' = {} /\ callbacks' = <<>>
  /\ worker' = "free" /\ settling' = NoBatch /\ pipeline' = <<>>
  /\ stream' = "initial" /\ tokens' = {}
  /\ Closed
  /\ UNCHANGED <<userVars, queue, serverVars>>

\* Mutant: the highest id in LevelDB is used again.
LaunchWithHighest ==
  /\ ~up /\ up' = TRUE
  /\ nextId' = Max(DOMAIN queue \cup {1})
  /\ worker' = "filling"
  /\ UNCHANGED <<userVars, queue, waiting, callbacks, settling, pipeline, streamVars, callVars,
                 serverVars>>

\* LoadNextBatchIdFromDb, then RemoteStore::Start fills the pipeline.
Launch ==
  /\ ~up /\ up' = TRUE
  /\ nextId' = Max(DOMAIN queue \cup {0}) + 1
  /\ worker' = "filling"
  /\ UNCHANGED <<userVars, queue, waiting, callbacks, settling, pipeline, streamVars, callVars,
                 serverVars>>

-----------------------------------------------------------------------------
\* The server handles what it was sent in order.

Commit ==
  /\ requests # <<>> /\ ended = "no"
  /\ "fickle" \in Faults \/ Head(requests) \notin refused
  /\ committed' = committed \cup {Head(requests)}
  /\ document' = Head(requests)
  /\ responses' = Append(responses, Head(requests))
  /\ requests' = Tail(requests)
  /\ UNCHANGED <<userVars, localVars, up, callbacks, worker, settling, pipeline, streamVars,
                 ended, refused>>

\* A write it refuses ends the call; what was sent after it is not handled.
Refuse ==
  /\ requests # <<>> /\ ended = "no"
  /\ "fickle" \in Faults \/ Head(requests) \notin committed
  /\ refused' = refused \cup {Head(requests)}
  /\ ended' = "refused"
  /\ requests' = Tail(requests)
  /\ UNCHANGED <<userVars, localVars, up, callbacks, worker, settling, pipeline, streamVars,
                 responses, committed, document>>

-----------------------------------------------------------------------------
Stream ==
  \/ TokenArrives \/ TokenFails \/ StaleTokenArrives
  \/ BackoffElapses \/ HandshakeComplete \/ StreamBreaks \/ IdleTimeout

Client ==
  \/ WriteMutations \/ MutationResult \/ AcknowledgeBatch
  \/ HandleWriteError \/ RestartNetwork
  \/ AddToWritePipeline \/ FillEnds \/ RunCallback

Server == Commit \/ Refuse

Next == Stream \/ Client \/ Server \/ EndProcess \/ Launch

Spec == Init /\ [][Next]_vars

\* The process's own steps are taken; the network, which may break for ever, lets each
\* step of the exchange through if it is possible again and again.
Fairness ==
  /\ WF_vars(AcknowledgeBatch) /\ WF_vars(AddToWritePipeline) /\ WF_vars(FillEnds)
  /\ WF_vars(RunCallback) /\ WF_vars(BackoffElapses)
  /\ SF_vars(TokenArrives) /\ SF_vars(HandshakeComplete) /\ SF_vars(Server)
  /\ SF_vars(MutationResult \/ HandleWriteError)

FairSpec == Spec /\ Fairness

-----------------------------------------------------------------------------
Batch == [id : 1 .. MaxWrites, write : 1 .. MaxWrites]
Answer == [write : 1 .. MaxWrites, ok : BOOLEAN]

\* Every variable keeps its type.
TypeOK ==
  /\ asked \in 0 .. MaxWrites /\ told \subseteq Answer
  /\ IsMap(queue, 1 .. MaxWrites, 1 .. MaxWrites)
  /\ up \in BOOLEAN /\ nextId \in 1 .. MaxWrites + 1 /\ waiting \subseteq Batch
  /\ callbacks \in Seq(Answer)
  /\ worker \in {"free", "filling", "acknowledging"}
  /\ settling \in Batch \cup {NoBatch}
  /\ pipeline \in Seq(Batch) /\ Len(pipeline) <= MaxPending
  /\ stream \in {"initial", "starting", "open", "error", "backoff"}
  /\ handshake \in BOOLEAN /\ idle \in BOOLEAN /\ tokens \subseteq {"current", "stale"}
  /\ requests \in Seq(1 .. MaxWrites) /\ responses \in Seq(1 .. MaxWrites)
  /\ ended \in {"no", "refused", "reading"}
  /\ committed \subseteq 1 .. MaxWrites /\ refused \subseteq 1 .. MaxWrites
  /\ document \in 0 .. MaxWrites

QueuedWrites == {queue[id] : id \in DOMAIN queue}
Answered == committed \cup refused

\* No HARD_ASSERT of the write path fails: results and refusals find a batch in the
\* pipeline which LevelDB still has ("Got result for empty write pipeline", "Attempt to
\* reject nonexistent batch!"), credentials find the stream "still 'Starting'", and a
\* graceful stop finds nothing pending ("stopped gracefully while still needed").
AssertionsHold ==
  /\ (responses # <<>> \/ ended # "no") => pipeline # <<>>
  /\ \A i \in DOMAIN pipeline : pipeline[i].id \in DOMAIN queue
  /\ worker = "acknowledging" => settling.id \in DOMAIN queue
  /\ "current" \in tokens => stream = "starting"
  /\ handshake => stream = "open"
  /\ idle /\ worker = "free" => pipeline = <<>>

\* A write the device forgot has been answered by the server, whatever broke, ended or
\* was sent again before.
NothingIsLost == 1 .. asked \subseteq QueuedWrites \cup Answered

\* "A block to execute once the document has been successfully written to the server".
SuccessIsTrue ==
  \A answer \in told : answer.ok => answer.write \in committed

\* A writer hears one answer.
AnsweredOnce ==
  /\ \A a, b \in told : a.write = b.write => a = b
  /\ \A i, j \in DOMAIN callbacks : callbacks[i].write = callbacks[j].write => i = j
  /\ \A i \in DOMAIN callbacks, a \in told : callbacks[i].write # a.write

\* No write reaches the server before an earlier one was answered.
WritesStayInOrder ==
  \A w \in committed, v \in 1 .. MaxWrites : v < w => v \in Answered

\* With nothing left to send, the document is what the last write made it: the
\* repetitions after a break do not leave an older one on top.
LastWriteStands ==
  queue = NoEntries /\ committed \cap refused = {} /\ committed # {}
    => document = Max(committed)

\* No wake-up is lost: while a write waits on the device and the worker queue has run
\* its operation, something is on its way that goes on with it: credentials, the end of
\* a backoff, the handshake, or an answer of the server.
NothingStalls ==
  Free /\ queue # NoEntries =>
    \/ "current" \in tokens
    \/ stream = "backoff"
    \/ stream = "open" /\ ~handshake
    \/ requests # <<>> \/ responses # <<>> \/ ended # "no"

\* Every queued write is answered and leaves the device, if the process goes on.
WritesSettle ==
  \A w \in 1 .. MaxWrites : w \in QueuedWrites ~> (w \notin QueuedWrites \/ ~up)

\* Firestore as PostPublishing sees it.
Delivery == INSTANCE WriteDelivery WITH
  Writes <- 1 .. MaxWrites, asked <- 1 .. asked, queued <- QueuedWrites

ImplementsDelivery == Delivery!Spec

-----------------------------------------------------------------------------
\* What the code does not keep.

\* RemoteStore: "If this was a permanent error, the request itself was the problem":
\* a write that is told failed was refused.  Only sends that fail early break it.
FailureIsTrue ==
  \A answer \in told : ~answer.ok => answer.write \in refused
=============================================================================
