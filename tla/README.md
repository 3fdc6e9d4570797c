# TLA+ specification of the Tiktok-Clone app

A TLA+ development of the iOS app in this repository (`KD Tiktok-Clone/KD Tiktok-Clone`, about
3400 lines of Swift; everything else is vendored pods and project files). It models the app's own
stateful parts and the part of the vendored Firestore client that carries what the app publishes,
checks them with TLC on small instances and proves the safety of every one of them with TLAPS for
every value of the constants. The app has no tests.

Paths below are relative to `KD Tiktok-Clone/KD Tiktok-Clone/`; `Notes.md` is
`Documentation/Notes.md`; `core/` is `../Pods/FirebaseFirestore/Firestore/core/src/`.

Contents: 1 inventory, 2 modules and how they correspond to the code, 3 runs, bounds and fairness,
4 proofs, 5 where code and comments disagree, 6 abstractions, 7 not modelled, 8 plan.

## 1. Inventory

### Parts, state, operations

| Part | Source | State | Operations | Runs on |
|---|---|---|---|---|
| Video cache | `Entity/VideoCache/VideoCacheManager.swift` | `NSCache`, a directory, a serial queue | store, query URL, query data, clear | its queue; `queryDataFromCache` on the caller's thread |
| Video player | `Modules/Home/VideoPlayerView.swift` | URL, item, URLSession and task, data received, loading requests | configure, cancel, session and resource-loader delegates | main, the session's delegate queue, `cancelLoadingQueue`, the cache's queue |
| Home feed | `Modules/Home/HomeViewController.swift`, `HomeTableViewCell.swift` | `currentIndex`; per cell `isPlaying`, pause sign, player | table, scroll and page callbacks, taps | main; animation completions and blocks arrive later |
| Feed loading | `Modules/Home/HomeViewModel.swift`, `Network/GetRequests/PostsRequest.swift` | three RxSwift subjects, posts | one request at launch | Firestore's callback |
| Comment pop-up | `Modules/Home/CommentPopUpView.swift` | frame, accumulated pan | show, pan, dismiss | main |
| Media capture | `Modules/Media/CameraManager.swift`, `MediaViewController.swift` | permissions, session, output, preview, buttons | ask, set up, start, stop, finish, exit | main, `sessionQueue`, permission handlers, AVFoundation |
| Post publishing | `Modules/Media/MediaPostingViewController.swift`, `MediaViewModel.swift`, `Network/PostRequests/VideoPostRequest.swift` | button, video URL; Storage, Firestore, its offline queue | post, upload, locate, write; save to the photo library | main, Firebase's and Photos' callbacks |
| Firestore write path | `core/core/sync_engine.cc`, `core/local/local_store.cc`, `leveldb_mutation_queue.cc`, `core/remote/remote_store.cc`, `stream.cc`, `write_stream.cc`, `grpc_stream.cc` | mutation queue in LevelDB, callbacks, pipeline, stream with its credentials, backoff and handshake | write, send, result, rejection, restart of the network, launch | the worker queue; gRPC's queue and the credentials provider call it back |
| Profile page | `Modules/Profile/*` | header, slide bar, layout | scroll, clear the cache | main |
| Helpers, shell, static pages, pods | `Extensions/*`, `MainApplication/*`, ... | none of their own | formatting, tabs | main |

### How they interact

- Each feed cell owns a player. `configure` asks the cache with `dispatchQueue.sync`, so main waits
  behind every store and clear; the answer is a block on main. The player's completed download is
  the cache's only store. The profile page's button is its only clear.
- The feed gets its posts through the view model's subjects, subscribed in `viewDidLoad`; the
  request starts in the view model's `init`.
- The recorder is presented over the current tab. A finished recording gives it a `videoURL`; Next
  saves that video to the photo library and pushes a posting page; success dismisses both.
- The document a posting page publishes goes through Firestore's write path, whose mutation queue
  outlives the process.

### What is hard, and what correctness means

- **Video cache.** A clear takes many steps between stores and queries, may fail half-way or die
  with the process, and is reported later. *Correct*: a clear that reports success left no older
  file; a path handed out is a file; the two levels agree; main is never left waiting; every clear
  is reported.
- **Video player.** Four threads, no lock, one set of fields, and a view that is reused while the
  block cancelling its past is still queued. *Correct*: a cell shows the video of its post, files
  are whole videos under their own URL, AVFoundation gets the units it asked, downloads reach the
  cache, no request is forgotten.
- **Home feed.** Two flags per video (the cell's and the player's) written by table callbacks,
  scrolling, the page and animation completions. *Correct*: no sound without control, hidden cells
  and left pages are silent, a reused cell shows its post, comments about when videos play hold.
- **Media capture.** Two permission handlers may each start a set-up; a set-up reads
  `captureSession` several times on two threads, and its layer comes into the view by a later block
  on main. *Correct*: no camera without both permissions, the preview shows the last session, a
  recording released ends, the page can be left.
- **Post publishing.** Three remote calls that fail separately, a page that comes and goes while
  they run, an offline queue that outlives the process. *Correct*: no document without its video,
  a page posts once, a failure told is final (what was not published by then never is), a dismissal
  means published.
- **Firestore write path.** A stream that breaks between a commit and its result, results that name
  no write, writes sent again, answers for a stream that is gone, ids counted anew at each launch.
  *Correct*: no write is lost, a success told is true, one answer per write, writes keep their
  order, the last one wins, no `HARD_ASSERT` fails, every write is settled in the end.

`PROJECT.json` lists each hazard at its line with the properties that cover it.

## 2. Modules

```
PartialMaps        dictionaries: Put, Drop
CacheStore         abstract: what the cache promises its clients
VideoCache         VideoCacheManager               implements CacheStore
VideoPlayer        VideoPlayerView                 composes the player with CacheStore
HomeFeed           HomeViewController + HomeTableViewCell + the request for the posts
MediaCapture       CameraManager + MediaViewController
PostPublishing     posting page, view model, request, photo library; composes them with WriteDelivery
WriteDelivery      abstract: what Firestore promises who writes a document
FirestoreWrites    Firestore's write path          implements WriteDelivery
MC*                constants and symmetry for TLC
DataFacts          lemmas about sequences, maps, minima of sets
VideoCacheProofs, VideoPlayerProofs, HomeFeedProofs, MediaCaptureProofs,
PostPublishingProofs, FirestoreWritesProofs        TLAPS
```

The composition goes through the abstract specification: `VideoCache` is shown to implement
`CacheStore`, and `VideoPlayer` is checked against `CacheStore`, with six variables fewer. Epochs
(history of clears) are 0 in the player, which asks for no clear. In the same way `FirestoreWrites`
is shown to implement `WriteDelivery`, and `PostPublishing` is checked against it: its Firestore is
an instance of `WriteDelivery` in which a write is named by the attempt that asked it.

**VideoCache.** `queue` is the serial queue with the running block first and `phase` its progress.
One action is one call on the file system or the `NSCache`: a store is `AskStore`,
`StoreDataToMemoryCache`, `StoreDataToDiskCache`; a clear is `AskClear`, `ClearMemoryCache`,
`ListDiskCache` (or `ListDiskCacheFails`), `RemoveItem` per file (or `RemoveItemFails`),
`ClearDiskCacheReturns`, and its report in `mainQueue` for `RunMainBlock`. `AskQuery` blocks main
(`MainBlocked`) until `QueryURLFromCache` ran. `LookInMemory`, `DataFromDiskCache` and
`FillMemoryCache` are `queryDataFromCache` on its caller's thread. `Evict` is NSCache dropping an
entry, `Relaunch` the end of the process: the directory survives. `clears`, `swept` and the epochs
are history variables.

**VideoPlayer.** Main: `CellForRow` and `ReuseCell` (prepareForReuse, then configure), `ShowVideo`
(configure's block), `ShouldWaitForLoading` and `DidCancel` (the resource loader). Delegate queue:
`DidReceiveResponse`, `DidReceiveData`, `DidComplete`, `DidCompleteWithError`; the loop of
`processLoadingRequest` and the assignment of its filter are two steps (`kept`, `AssignFilter`),
since other threads write the list in between. Cancel queue: `InvalidateSession`, `ForgetSession`,
`ForgetTask`, `FinishRequests`, `RemoveRequests`, the statements of the block. `CompletionTraps` and
`TaskTraps` are runtime traps, which end the process. `Respond`, `SendData`, `EndOfData`,
`NetworkFails` are URLSession's side.

**HomeFeed.** `cellAt` is what the table shows, `cell` the state of every cell object. `Pause`,
`Play`, `Replay` and `PrepareForReuse` are the methods of the cell; `WillDisplay` (cellForRowAt and
willDisplay), `DidEndDisplaying`, `Expose`, `BeginDrag`, `DidEndDragging`, `Settle`,
`ViewWillAppear`, `ViewWillDisappear` the controller's callbacks and UIKit's part in them;
`PostsArrive` and `NoPostsArrive` the outcome of the one request for posts (`request`);
`ConfigureBlock` gives a cell its player; `HandlePause` and `AnimationEnds` are a tap and the
completion of its animation; `Cover` and `Uncover` put the recorder or the comments over the page,
which does not disappear.

**MediaCapture.** `ViewDidLoad`, `AskForAccess`, `Answer` (the user), `AccessHandler` (any thread),
`AccessCompletion` (main, which may call `SetUpSession`); `RemoveAllTempFiles`, `ConfigureSession`,
`StartSession` are `sessionQueue`; `StartRecording`, `StopRecording`, `FinishRecording`,
`RecordingFails`; `Exit`, `EndProcess`, and the exceptions `StartTraps`, `StopTraps`. A session is
numbered by its set-up, so the fields that refer to different sessions can be told apart. `layers`
are the preview layers made, the last being `previewLayer`, and `onView` those in `previewView`:
`SetUpSession` takes only the layer of the moment away, and `AddPreviewLayer` runs later.
`recordings` are the files being written, each with the session of its output and whether it was told
to end; several may go on at once. `Retained` says what refers to a session: the manager, the running
block, or a layer that is the manager's or in the view. A recording is over (`Ending`) when it was
told to end or nothing refers to its session.

**PostPublishing.** `NavigateToPosting` (Next), `Back`, `Exit`, `PublishPost` (the button);
`UploadEnds`, `UploadFails`, `LocationFound`, `LocationFails`, `Published`, `WriteFails` are the
callbacks of one attempt; `FirestoreWorks` is a step of `WriteDelivery` (a queued document is
committed, or settled and leaves the device, in this process or a later one), and `Published` and
`WriteFails` hear its answer: a success only of what is committed, a failure of anything that waits
no more, committed or not; `AnswerPhotoRequest`, `PhotoHandler`, `PerformChanges` are
`saveToLibrary`.

**FirestoreWrites.** A write is a number in the order of asking. `queue` is the mutation queue in
LevelDB (batch id to write), `pipeline` is `write_pipeline_`, `stream` the state of the
`WriteStream`, `requests` and `responses` the two directions of its gRPC call, `ended` the status
with which the server ended it. One action is one operation on the worker queue, except where
another thread or the end of the process can come between: `WriteMutations` (a write is asked and
stored), `AddToWritePipeline` and `FillEnds` (the turns of `FillWritePipeline`'s loop, and the start
of the stream after it), `TokenArrives`, `TokenFails`, `StaleTokenArrives` (credentials, guarded by
the close count), `HandshakeComplete` (which sends the whole pipeline again), `MutationResult` and
`AcknowledgeBatch` (the user is notified before LevelDB forgets the batch: the process may end
between), `HandleWriteError` (a permanent error rejects the front), `StreamBreaks`,
`BackoffElapses`, `IdleTimeout`, `RestartNetwork`, `RunCallback`, `EndProcess`, `Launch`. `Commit`
and `Refuse` are the server.

## 3. Runs

`tlc -config <name>.cfg MC<Module>`; sizes are distinct states.

| Run | Properties | Instance | States |
|---|---|---|---|
| `cache_app` | `ReportedClearIsComplete`, `HandedPathIsLive`, `AnswersInOrder`, `LevelsAgree` | 2 URLs, 3 queued blocks, 2 clears, failing clears, relaunches, no direct reader | 4.6 M |
| `cache_refines` | `ImplementsCacheStore`, `MainIsReleased`, `ClearIsReported` | 1 URL, 2 blocks, 2 clears, a direct reader, failing writes, listings, removals | 190 k |
| `player_reuse` | `StoredWhole`, `ShownVideoMatchesPost`, `WaitingIsListed`, `ServedIsUpToDate`, `DownloadNeverStalls` | 2 URLs, posts without URL, 2 units, 2 requests, 1 reuse | 1.9 M |
| `player_once` | `DeliveredIsTheVideo`, `FirstUseStoresItsVideo`, `DownloadIsHandedOver`, `ListedIsServed` | the same without reuse | 55 k |
| `feed_cells` | `SoundIsUnderControl`, `HiddenCellsArePaused`, `LeftPageIsSilent`, `PlayerHasItsPost` | 3 posts, one without URL, 3 cells, 2 taps pending per cell, 2 blocks | 1.4 M |
| `capture_setup` | `CameraNeedsBothPermissions`, `PreviewShowsTheSession`, `ExitUnlessLost`, `GrantIsNotLost`, `ReleasedIsStopped`, `GrantsLeadToCamera`, `ReleasedRecordingEnds` | 3 requests, 3 set-ups, 2 recordings | 226 k |
| `post_publish` | `DocumentsHaveVideos`, `OnePostPerPage`, `ToldIsFinal`, `DismissedIsPublished` | 2 videos, 3 pages, 3 uploads, Firestore as `WriteDelivery` | 2.2 M |
| `write_path` | `AssertionsHold`, `NothingIsLost`, `SuccessIsTrue`, `AnsweredOnce`, `WritesStayInOrder`, `LastWriteStands`, `NothingStalls` | 4 writes, pipeline of 3, a fickle server, sends that fail early | 1.2 M |
| `write_delivery` | `ImplementsDelivery`, `WritesSettle` | 3 writes, pipeline of 2, the same faults | 89 k |

Each module's `TypeOK` is a theorem (`TypeCorrect`), so no run repeats it. The other three runs are
violations (section 5).

What they show:

- The serial queue is enough for the clear: a success report is never followed by an older file,
  and a failed or killed clear never claims success. Memory never holds what the disk does not; so
  a clear that reports success emptied memory as well. That needs that nobody calls
  `queryDataFromCache`: its caller's thread may put back what a clear removed, so `cache_app` has no
  reader. The disk half does not need it (proved with readers). Main hears of queries and clears in
  the order it asked, and once of each clear, whatever fails in it.
- A reused cell always ends up showing its own post, and every file is empty or one whole video;
  but not necessarily the video of its key (section 5). Until a cell is reused, all is in order. Even
  after a reuse no unit of a download is missed or counted twice, and a request that was listed in
  time and got something has all that came, on whichever thread it was listed.
- Everything that plays is under the control of a later `pause()`, and what is hidden is paused,
  with one exception that the properties name: a tap's animation that ends after the cell has gone.
- However the dialogs are answered, no capture session exists before both permissions; overlapping
  set-ups leave the preview on the last session. The flag is looked up once per answer, and that is
  enough for the page never to keep asking for what it has. A recording the user released ends,
  whichever set-up made its output: `stopRecording` reaches it, or the next set-up takes its session
  away. One case escapes both, and the properties name it (`LeftInView`): the layer of its session
  came into the view after the next set-up had cleared it, and keeps the session (section 5).
- Publishing is safe through failures, navigation and the end of the process, page by page, over all
  that `WriteDelivery` lets Firestore do. That a failure told is *final* does not say that it is
  true: the document may have been taken before the failure was told (section 5).
- A document given to Firestore is delivered at least once, in order, and told right when it
  succeeds, although results carry no id and everything unanswered is sent again. A failure is told
  of the right write only if results are read before the error (section 5); that it ends the write is
  kept in any case, and is all that `WriteDelivery` says of a failure. While a write waits, something
  is always on its way that will go on with it.

### Bounds

- *Cache.* Two keys distinguish "this file" from "another"; three queued blocks put a store or a
  query before and after a clear; two clears let a report be followed by another clear. The
  refinement run has one key since its mapping is per path; a proof covers every instance.
- *Player.* Two videos (old and new), two requests (one served, one just listed), two units (a
  partial download exists), one reuse (old work meets new state). Requests ask any range.
- *Feed.* At most two rows show at once; with three cells one is always in the reuse pool, and with
  three posts a cell is reused for another post. `MaxBlocks` = 2 answers of the cache may wait, and
  two taps per cell, so that one animation ends after another has begun.
- *Capture.* `MaxAsks` bounds permission requests main has not done with, blocks included, so at
  most that many set-ups happen; three overlap in every way.
- *Publishing.* Two videos and three pages give one video two pages; three attempts fill them.
- *Writes.* Four writes overfill a pipeline of three, so that one waits in LevelDB while results make
  room; ids, results and rejections can be off by one in either direction. `kMaxPendingWrites` is 10
  in the code: the proofs are for every depth.

The bounds are guards on actions of the user or of callers (or, for `MaxBlocks`, on how far the main
queue lags); none cuts a handler short. Deadlock is checked in all runs. Symmetry is used only where
all properties are invariants.

### Fairness

- `VideoCache`: weak for the worker (GCD runs the blocks of a serial queue), strong for main's
  blocks (main is interrupted by its own waits but returns to its queue).
- `VideoPlayer`: weak for the cache, the delegate queue, the cancel queue and the server (a task
  ends within its 60 s timeout, `VideoPlayerView.swift:261`); strong for `ShowVideo`, which waits
  while main is in `sync`.
- `MediaCapture`: weak for handlers of answered dialogs, main, `sessionQueue`, and, file by file, the
  end of a recording that was told to end or whose session is gone.
- `FirestoreWrites`: weak for the worker queue's own steps, the backoff timer and the user's queue;
  strong for the arrival of credentials, the handshake, the server, and the reading of a result or an
  error: the network may break any number of times, but what is possible again and again happens.
  Without that a stream that always breaks before its first result would loop for ever, as the code
  does.
- Nowhere for users, evictions, network errors, AVFoundation's requests, or the end of the process.
  `HomeFeed` and `PostPublishing` have safety only.

The leads-to properties that the end of the process would end are stated so that it discharges them,
or hold since it empties the queue in question; in `cache_refines` the process lives (`kill` is left
out of `Faults`), because `ClearIsReported` is a promise to a living process.

## 4. Proofs

Checked by `tlapm`; all constants arbitrary, under the modules' `ASSUME`s (bounds are naturals, nil
is no value, faults are known kinds). Every safety property that a passing run checks is a theorem
about `Spec`, and so are both refinements. One of them, `LevelsStayTogether`, assumes something of
`Faults` and of the readers, as said below, which its run meets. In each module the pattern is: an
inductive invariant (`Inv`, or `IInv`) that adds to the properties what they rest on, its start and
its steps, one lemma per part or per action, and the theorems read off it. The invariants were first
checked by TLC.

**`VideoCacheProofs`**: `TypeCorrect`, `ClearsAreComplete` (`ReportedClearIsComplete`),
`HandedPathsAreLive` (`HandedPathIsLive`), `MainHearsInOrder` (`AnswersInOrder`),
`LevelsStayTogether` (`LevelsAgree`), `CacheImplementsStore` (`ImplementsCacheStore`). Neither of the
first two is inductive. The invariant is

    Inv == TypeOK /\ QueueOrdered /\ QueueIsCurrent /\ SweepCovers /\ AnswersAreOlder
             /\ ReportedClearIsComplete /\ HandedPathIsLive /\ AnswersInOrder

Blocks are queued in the order of their epochs, a clear strictly after what is ahead of it
(`QueueOrdered`), and none is older than the last clear reported (`QueueIsCurrent`). While a clear
sweeps, every file is on its list (`SweepCovers`): the queue is serial, so no store makes a file the
listing missed. So when the list is empty, no file is left, and what is stored later was asked later.
For a handed path: the clears still queued were asked after every answer main has not run yet
(`AnswersAreOlder`), so while no clear was asked since the query, none is there to remove the file.
The same fact orders what main hears: what a block appends for main is never older than what is there
already, a report strictly newer. `LevelsStayTogether` assumes no reader and no failing `createFile`;
its invariant says that between the two halves of a store memory is ahead by that key only, and that
memory is empty while a clear runs. The refinement is a step-by-step simulation: one concrete action
for each `CacheStore` step, all others stutter.

**`VideoPlayerProofs`**: `TypeCorrect`, `FilesAreWhole` (`StoredWhole`), `PlayerShowsThePost`
(`ShownVideoMatchesPost`), `RequestsAreKnown` (`WaitingIsListed`), `GivenInOrder`
(`DeliveredIsTheVideo`), `KeysFit` (`FirstUseStoresItsVideo`), `ServedAsItComes`
(`ServedIsUpToDate`), `NothingIsMissed` (`DownloadNeverStalls`). They rest on one fact the code
nowhere states: a view downloads *once*, since `cancelAllLoadingRequest` gives the session up for
good and the data with it (`OneDownload`). While there is data it is therefore the beginning of that
one video, and the events on the delegate queue are its continuation, nothing missing or twice
(`StreamOK`), so a completion finds all of it. `NothingIsMissed` counts the same units against what
the server sent. `ServedAsItComes` needs no more than `RequestsAreKnown`: every unit answers the
whole list, and a request that was listed in time and still waits is on it. What is shown follows
from the order of main: a query blocks it, so the last answer queued is for the last post configured
(`LastAnswer`). Before the first reuse everything is of one post (`FirstUse`).

**`HomeFeedProofs`**: `TypeCorrect`, `PlayersObey` (`SoundIsUnderControl`), `CellsOutOfViewRest`
(`HiddenCellsArePaused`), `PageLeavesQuietly` (`LeftPageIsSilent`), `PostsHaveTheirVideos`
(`PlayerHasItsPost`). `TableOK` says which rows can be in view in each state of the scroll: one at
rest, so that pausing the first visible cell is enough. `LastBlockOK` says that the last block a cell
waits for brings the video of its post; the last property alone is not inductive, as an older block
may overwrite a newer item in between.

**`MediaCaptureProofs`**: `TypeCorrect`, `PermissionsComeFirst` (`CameraNeedsBothPermissions`),
`PreviewFollows` (`PreviewShowsTheSession`), `ExitComesBack` (`ExitUnlessLost`), `GrantsAreAnswered`
(`GrantIsNotLost`), `ReleasedEnds` (`ReleasedIsStopped`). `FlagOK`: the flag is set only after both
grants, which nothing takes back while the process lives. `SetUpOK`: blocks and sessions belong to a
controller in front. `PreviewOK`: with no block of a set-up pending the last layer made is the last
session's, and on the view or on its way there. `RecordingOK`: a recording is of a session made, and
one not told to end, with the button released, is of neither the session nor the output
`stopRecording` looks at: a set-up makes a session no recording is of. With no set-up under way such
a recording's session is therefore an earlier one, and by `PreviewOK` neither the manager nor its
layer refers to it: only a layer in the view can.

**`PostPublishingProofs`**: `TypeCorrect`, `VideosComeFirst` (`DocumentsHaveVideos`),
`PagesPublishOnce` (`OnePostPerPage`), `FailuresAreFinal` (`ToldIsFinal`),
`DismissalMeansPublished` (`DismissedIsPublished`), `PermissionComesFirst` (`SavesAreAuthorized`,
which has no run: two steps of one closure).

    Inv == TypeOK /\ StagesAgree /\ OneAttemptPerPage /\ FrontPageIsFresh

`StagesAgree` ties files, documents asked of Firestore and alerts to how far their attempt is. Of
Firestore the proof uses the steps of `WriteDelivery` only (`FirestoreSteps`): a document is queued
or committed only if it was asked, so only with its video, and no longer waits once its failure was
told, so that it is not committed from then on.
`FrontPageIsFresh` says that an enabled page in front has no attempt; it is needed because
`Published` enables the button again: it is inductive as success acts either on a page that is not in
front or takes the page away in the same step.

**`FirestoreWritesProofs`**: `TypeCorrect`, `WritesAreKept` (`NothingIsLost`), `SuccessesAreTrue`
(`SuccessIsTrue`), `WritersHearOnce` (`AnsweredOnce`), `AssertionsNeverFail` (`AssertionsHold`),
`OrderIsKept` (`WritesStayInOrder`), `LastWriteWins` (`LastWriteStands`) and `WritesAreDelivered`
(`ImplementsDelivery`), all for every fault. `IInv` ties the four places a write
can be in: the pipeline, after the batch being acknowledged, is the first part of the queue
(`SettlingOK`, `PipelineOK`); after the handshake the results to read, the write refused and the
requests not handled, in this order, make up the pipeline (`CallOK`), which is why a result, which
names no write, is about the front; and what was committed and is newer than the document is still
queued and unanswered (`DocumentOK`), so that a repetition ends with the newest. `WakeUpsAreKept`
(`NothingStalls`) rests on `ServiceOK`: a free worker with a write on the device has one in the
pipeline, and a pipeline has a stream that is started; then on `IInv`: what is in a pipeline after
the handshake is a request or an answer. `FailuresAreTrue` (`FailureIsTrue`) holds for every fault
but sends that fail early, by `FailuresOK`: a failure on its way is of a write that was refused and
has left the device. `WritesAreDelivered` needs no condition, since a failure promises less: a write
whose failure is on its way has left the device (`GoneOK`), and what notifies its writer is the
removal of its batch (`AnswersOf`); a success is of a committed write by `IInv`.

Only model-checked: the seven leads-to properties (liveness and `ENABLED` are out of TLAPS's reach),
on the instances of section 3. Where the code can break them by dropping something, that is a safety
property of its own and a theorem: `GrantIsNotLost` for `GrantsLeadToCamera`, `ReleasedIsStopped` for
`ReleasedRecordingEnds`, `DownloadNeverStalls` for `DownloadIsHandedOver`, `ServedIsUpToDate` for
`ListedIsServed`, `NothingStalls` for `WritesSettle`; what is left to TLC is that the steps which are
due are taken.

## 5. Where the code and its comments disagree

Each is a definition in its module's section "What the code does not keep", with a configuration.
The first three are runs of the project; the others are reproduced by running their `.cfg` by hand.

| Config | Comment or doc | What the code does |
|---|---|---|
| `player_poison` | `VideoCacheManager.swift:47` keys are the video's URL | `VideoPlayerView.swift:202` stores a finished download under the URL the cell has *by then*: reuse between the last chunk and completion files the old video under the new URL, or (after the cancel block) an empty file, which is then a hit for ever |
| `post_twice` | `MediaPostingViewController.swift:70` no duplicate posts | the button belongs to a page: Back, Next, Post uploads the video again while the first upload runs |
| `write_blame` | `core/remote/remote_store.cc:513` a permanent error is the fault of the request | `core/remote/grpc_stream.cc:313` a failing send ends the call at once and drops the results not yet read; the permanent error of a later write then rejects the front, which the server has committed. Only such sends do it (`FailuresAreTrue`, section 4) |
| `player_miss` | `HomeViewModel.swift:46` a miss is downloaded | `VideoPlayerView.swift:123` the session of a reused cell is invalidated and never made again: its misses wait for nothing |
| `feed_first` | `HomeViewController.swift:154` the first cell starts by itself | posts arrive after `viewWillAppear`; `willDisplay` pauses the cell and nothing starts it |
| `capture_report` | `CameraManager.swift:18` completion with URL and error | `:171` prints the error; the delegate is not called and the exit button stays hidden |
| `cache_hit_memory` | `Notes.md:16` a disk hit is stored in memory | `VideoCacheManager.swift:88` returns the path only |
| `player_trap` | `VideoPlayerView.swift:202` unwraps `originalURL!` | a reuse just before completion has set it to nil: the app traps |
| `feed_drag` | `HomeViewController.swift:155` paused until the drag ends | `:182` replays the row of `currentIndex` when the finger lifts: a row that only the deceleration brings, or to which a drag turned back, rests paused |
| `feed_lost` | the same | `HomeTableViewCell.swift:113` sets `isPlaying` with no player yet; the player made later never starts |
| `feed_late` | `HomeViewController.swift:164` a cell no longer displayed is paused | `HomeTableViewCell.swift:141` the completion of a tap's animation starts it again |
| `feed_sign` | `HomeTableViewCell.swift:127`, `:136` the sign shows a paused video | `play()` and `replay()` from scrolling or the page leave the sign |
| `feed_under` | a page that is left is paused (`viewWillDisappear`) | the recorder is presented over the page and the comments are put into the window: it does not disappear and plays on |
| `capture_layer` | `CameraManager.swift:83` `stopRecording` stops the recording of the button released | `CameraManager.swift:71` the layer of a first set-up may come into the view after a second one took away what was there (`:62`); it keeps the first session, and the recording begun on it is not reached by `:83`: it may go on for ever, with the exit button hidden |
| `capture_files` | `MediaViewController.swift:55` old files are cleared | `CameraManager.swift:181` empties a `String`, no file goes |
| `post_told` | `MediaPostingViewController.swift:79` an alert says that the post failed | as `write_blame`, or a server that commits a document and refuses its repetition: told failed, yet published |
| `post_silent` | `NetworkModel.swift:14` failure when Firebase returns no data | `VideoPostRequest.swift:44` and `:48` return without calling either closure: the page waits for ever |

Two more were read, not modelled: a like survives the reuse of its cell
(`HomeTableViewCell.swift:148` keeps `liked`), and `Int.shorten` writes the counts from 999950 to
999999 as "1000.0K" (`Extensions/Number.swift:20` compares before it rounds).

## 6. Abstractions

- SHA-256 is injective; `createFile` and single array or dictionary operations are atomic. Races on
  `loadingRequests` are lost updates; torn memory is not modelled.
- Contents are model values; a video of the player is a sequence of `Size` units, so a prefix or a
  mixture can be told from a whole.
- The player's run has no clears and no cache of its own: `CacheStore` allows a store to leave no
  file. Content-information requests and file extensions are left out.
- The last loading request of a download is filled but never told finished, since
  `checkAndRespond` compares the offset before responding; `ListedIsServed` therefore speaks of the
  units. Requests that come after the completion wait: nothing in the code promises otherwise.
- The feed keeps no seek position. A cell's block is one per configuration; the cache's answer is
  abstracted to the item it brings. The page's `viewDidLoad` has run before the request for posts is
  answered (the tab bar shows it first), so the subjects have their subscribers.
- `StartSession` is one step after `beginConfiguration`: what follows the reading of
  `captureSession` is not interleaved further. A capture session nothing in the app refers to is
  deallocated, and its recording ends; a preview layer refers to its session, the view to its layers.
  Recognizers added by a second set-up are the first's. A later set-up that finds no device replaces
  `captureSession` by one that never runs, while the layer and so the session that records stay the
  manager's: that recording can no longer be stopped. `ReleasedIsStopped` and
  `ReleasedRecordingEnds` exempt that case (`noDevice`), as they do a layer left in the view.
- In publishing, enabling the button and dismissing the page are one step on main; a file once in
  Storage stays.
- In the write path each write is a document of its own, as the app's are; `document` follows the
  worst case, in which all are about one. Storing a write and putting it in front of the pipeline
  loop are one operation of the worker queue. The server handles nothing of a stream that is gone and
  never ends a call well; it may commit or refuse each time anew (`fickle`), or keep to its first
  decision. The stream token, and what the app never does (sign in, disable the network, transactions),
  are left out.
- `PostPublishing` takes its Firestore from `WriteDelivery`, which `FirestoreWrites` implements with
  every fault. That a failure told is final rests on the assumption just named, that the server
  handles nothing of a stream that is gone: a request still on its way when the error is read would be
  taken afterwards.
- UIKit, AVFoundation, NSCache, URLSession, Firestore, Storage and Photos are external: modelled
  by how the code uses them, and marked `external` in the map.

## 7. Not modelled

- **Layout and looks** (profile page, static pages, colours, record-button animations, the looping
  preview, labels): functions of the current geometry, with no state that outlives a callback. This
  is more than half of the app's own lines; about a third of them are mapped, nearly all that keep
  state.
- **The pan of the comment pop-up** moves one frame; its effect on the feed (it covers it) is in
  `HomeFeed`. **Number formatting** is wording. **Likes** are a flag and a colour per cell.
- **The loading animation** follows the one request; a snapshot and an error both nil would leave it
  on for ever, which Firestore's API excludes.
- **`VideoPlayerManager.swift`** is dead code; `getPostsVideoURL`, `resetCaptureSession` and
  `queryDataFromCache` have no caller (the last one is modelled all the same).
- **Other vendored code.** The pods make up over 600,000 lines. Of Firestore the write path is
  modelled; listening, targets, views, garbage collection and transactions are not, since the app's
  only read is one `getDocuments`. Storage, gRPC, LevelDB, BoringSSL, RxSwift and the interface
  libraries are used through narrow calls and are external actions where they are used.

## 8. Plan

Done, in order: PartialMaps, CacheStore, VideoCache; VideoPlayer over CacheStore; HomeFeed with its
request; MediaCapture; PostPublishing; WriteDelivery and FirestoreWrites; the proofs of all six.

Next:

1. Firestore's read path as far as `getDocuments` reaches: a listener that answers once, from the
   server or from the cache, against a stream that fails (`core/remote/watch_stream.cc`,
   `core/core/query_listener.cc`), to replace the external answer of `PostsArrive`.
2. Storage's upload (pause, resume, retry) under `UploadEnds` and `UploadFails`.
3. The comment pop-up's pan against running animations, should its geometry ever decide anything.
