---------------------------- MODULE MediaCapture ----------------------------
(***************************************************************************)
(* Shooting a video: MediaViewController and its CameraManager, from the   *)
(* permissions to the recorded file.  Main, the handlers of the permission *)
(* dialogs (on any thread), the serial sessionQueue and AVFoundation's end *)
(* of a recording interleave.  A capture session is numbered by the set-up *)
(* that made it, a preview layer by its place among those made.            *)
(***************************************************************************)
EXTENDS Naturals, Sequences

CONSTANTS
  Nil,        \* Swift's nil
  MaxAsks,    \* bound: requests for permission that main has not done with
  MaxSetUps,  \* bound: calls of setUpSession by one controller
  MaxFiles    \* bound: files recorded

Devices == {"camera", "microphone"}
SetUps == 1 .. MaxSetUps
FileIds == 1 .. MaxFiles

Recording == [file : FileIds, output : SetUps, stopped : BOOLEAN]

ASSUME BoundsAssumption == MaxAsks \in Nat /\ MaxSetUps \in Nat /\ MaxFiles \in Nat
ASSUME NilAssumption == Nil \notin Nat

VARIABLES
  auth,            \* the system's authorizationStatus of each device
  tempFiles,       \* files of the temporary directory
  \* MediaViewController
  shown,           \* the controller is presented
  asking,          \* permissionView is in front
  enabled,         \* buttons of permissionView
  exitHidden, recordHidden,
  videoURL,        \* file to post, or Nil
  pressed,         \* a finger is on the record button
  \* CameraManager
  permitted,       \* cameraAndAudioAccessPermitted
  captureSession,  \* 0: nil
  movieOutput,     \* Nil, the session it was added to, or 0: added to none
  layers,          \* the session each preview layer shows; the last is previewLayer
  onView,          \* the layers in previewView, the latest on top
  sessionQueue,    \* blocks, the running one first
  configuring,     \* the session between begin- and commitConfiguration, or 0
  session,         \* per session: whether it has an output, and its state
  recordings,      \* files being recorded, the session whose output records each,
                   \* and whether it was told to end
  \* other queues
  asked,           \* requestAccess calls whose handler has not run
  mainQueue,       \* blocks on main
  \* history
  lost,            \* a press recorded nothing, or a recording ended in an error
  noDevice         \* the last set-up found no camera or no microphone

permissionVars == <<auth, asked, permitted>>
viewVars == <<shown, asking, enabled, exitHidden, recordHidden, videoURL, pressed>>
cameraVars == <<captureSession, movieOutput, layers, onView, configuring, session>>
historyVars == <<lost, noDevice>>
vars == <<permissionVars, viewVars, cameraVars, historyVars, tempFiles, sessionQueue,
          recordings, mainQueue>>

BothGranted == \A d \in Devices : auth[d] = "granted"

SessionState == [output : BOOLEAN, state : {"new", "running", "stopped"}]
Sessions == [SetUps -> SessionState]
NoSessions == [n \in SetUps |-> [output |-> FALSE, state |-> "new"]]

\* previewLayer, or 0: nil.
PreviewLayer == Len(layers)

\* What refers to a session: the manager, the running block, a layer that is in the view
\* or the manager's.
Retained(n) ==
  \/ n \in {captureSession, configuring}
  \/ \E l \in DOMAIN layers : layers[l] = n /\ l \in onView \cup {PreviewLayer}

\* A recording ends when it is told to, or when its session is gone.
Ending(recording) == recording.stopped \/ ~Retained(recording.output)

\* No controller: all but the authorizations and the files is gone.
NoController ==
  /\ asked' = [d \in Devices |-> 0] /\ permitted' = FALSE
  /\ shown' = FALSE /\ asking' = FALSE /\ enabled' = [d \in Devices |-> TRUE]
  /\ exitHidden' = FALSE /\ recordHidden' = FALSE /\ videoURL' = Nil /\ pressed' = FALSE
  /\ captureSession' = 0 /\ movieOutput' = Nil /\ layers' = <<>> /\ onView' = {}
  /\ sessionQueue' = <<>> /\ configuring' = 0 /\ session' = NoSessions
  /\ recordings' = {} /\ mainQueue' = <<>>
  /\ lost' = FALSE /\ noDevice' = FALSE
  /\ UNCHANGED <<auth, tempFiles>>

Init ==
  /\ auth = [d \in Devices |-> "undetermined"] /\ tempFiles = {}
  /\ asked = [d \in Devices |-> 0] /\ permitted = FALSE
  /\ shown = FALSE /\ asking = FALSE /\ enabled = [d \in Devices |-> TRUE]
  /\ exitHidden = FALSE /\ recordHidden = FALSE /\ videoURL = Nil /\ pressed = FALSE
  /\ captureSession = 0 /\ movieOutput = Nil /\ layers = <<>> /\ onView = {}
  /\ sessionQueue = <<>> /\ configuring = 0 /\ session = NoSessions
  /\ recordings = {} /\ mainQueue = <<>>
  /\ lost = FALSE /\ noDevice = FALSE

-----------------------------------------------------------------------------
\* Main: setting up.

\* setUpSession and addPreviewLayerToView: the layer of the moment leaves the view, and
\* a new session is configured by a block if the devices are there.  The recognizers
\* come with the first set-up.
SetUpSession(queue, found) ==
  /\ captureSession < MaxSetUps
  /\ captureSession' = captureSession + 1
  /\ onView' = onView \ {PreviewLayer}
  /\ sessionQueue' = IF found THEN Append(queue, "configure") ELSE queue
  /\ noDevice' = ~found
  /\ asking' = FALSE

\* viewDidLoad of a new controller.
ViewDidLoad ==
  /\ ~shown
  /\ shown' = TRUE
  /\ permitted' = BothGranted
  /\ IF BothGranted
     THEN \E found \in BOOLEAN : SetUpSession(<<"clear">>, found)
     ELSE /\ asking' = TRUE
          /\ sessionQueue' = <<"clear">>
          /\ UNCHANGED <<captureSession, onView, noDevice>>
  /\ UNCHANGED <<auth, asked, tempFiles, enabled, exitHidden, recordHidden, videoURL, pressed,
                 movieOutput, layers, configuring, session, recordings, mainQueue,
                 lost>>

\* A button of permissionView.
AskForAccess(d) ==
  /\ asking /\ enabled[d]
  /\ asked["camera"] + asked["microphone"] + Len(mainQueue) < MaxAsks
  /\ asked' = [asked EXCEPT ![d] = @ + 1]
  /\ UNCHANGED <<auth, permitted, viewVars, cameraVars, historyVars, tempFiles, sessionQueue,
                 recordings, mainQueue>>

\* The user answers the system's dialog; it is asked once per device.
Answer(d, status) ==
  /\ asked[d] > 0 /\ auth[d] = "undetermined"
  /\ auth' = [auth EXCEPT ![d] = status]
  /\ UNCHANGED <<asked, permitted, viewVars, cameraVars, historyVars, tempFiles, sessionQueue,
                 recordings, mainQueue>>

\* Mutant: one permission is enough.
CheckIfEitherPermissionGranted == \E d \in Devices : auth[d] = "granted"

CheckIfBothPermissionGranted == BothGranted

\* Mutant: the flag is looked up before the answer.
AccessHandlerUnchecked(d) ==
  /\ asked[d] > 0 /\ auth[d] # "undetermined"
  /\ asked' = [asked EXCEPT ![d] = @ - 1]
  /\ mainQueue' = Append(mainQueue,
       [op |-> "access", device |-> d, access |-> auth[d] = "granted"])
  /\ UNCHANGED <<auth, permitted, viewVars, cameraVars, historyVars, tempFiles, sessionQueue,
                 recordings>>

\* The handler of requestAccess, on any thread.
AccessHandler(d) ==
  /\ asked[d] > 0 /\ auth[d] # "undetermined"
  /\ asked' = [asked EXCEPT ![d] = @ - 1]
  /\ permitted' = (permitted \/ CheckIfBothPermissionGranted)
  /\ mainQueue' = Append(mainQueue,
       [op |-> "access", device |-> d, access |-> auth[d] = "granted"])
  /\ UNCHANGED <<auth, viewVars, cameraVars, historyVars, tempFiles, sessionQueue, recordings>>

NextBlock(op) == mainQueue # <<>> /\ Head(mainQueue).op = op

\* The completion of askForCameraAccess or askForMicrophoneAccess; a refusal
\* shows an alert.
AccessCompletion ==
  /\ NextBlock("access")
  /\ mainQueue' = Tail(mainQueue)
  /\ LET block == Head(mainQueue) IN
       /\ enabled' = [enabled EXCEPT ![block.device] = @ /\ ~block.access]
       /\ IF block.access /\ permitted
          THEN \E found \in BOOLEAN : SetUpSession(sessionQueue, found)
          ELSE UNCHANGED <<captureSession, onView, sessionQueue, noDevice, asking>>
  /\ UNCHANGED <<permissionVars, shown, exitHidden, recordHidden, videoURL, pressed,
                 movieOutput, layers, configuring, session, tempFiles, recordings,
                 lost>>

\* The block that puts the layer of the moment into previewView; one that is there
\* already stays below it.
AddPreviewLayer ==
  /\ NextBlock("preview")
  /\ mainQueue' = Tail(mainQueue)
  /\ onView' = IF layers = <<>> THEN onView ELSE onView \cup {PreviewLayer}
  /\ UNCHANGED <<permissionVars, viewVars, captureSession, movieOutput, layers,
                 configuring, session, historyVars, tempFiles, sessionQueue, recordings>>

-----------------------------------------------------------------------------
\* sessionQueue.

NextOnSessionQueue(op) == sessionQueue # <<>> /\ Head(sessionQueue) = op /\ configuring = 0

\* removeAllTempFiles empties a copy of the directory's name.
RemoveAllTempFiles ==
  /\ NextOnSessionQueue("clear")
  /\ sessionQueue' = Tail(sessionQueue)
  /\ UNCHANGED <<permissionVars, viewVars, cameraVars, historyVars, tempFiles, recordings,
                 mainQueue>>

\* The block of setupCamera up to the output.  It takes the session of the
\* moment; a session that has an output takes no second one.
ConfigureSession ==
  /\ NextOnSessionQueue("configure")
  /\ configuring' = captureSession
  /\ movieOutput' = IF session[captureSession].output THEN 0 ELSE captureSession
  /\ session' = [session EXCEPT ![captureSession].output = TRUE]
  /\ UNCHANGED <<permissionVars, viewVars, captureSession, layers, onView, historyVars,
                 tempFiles, sessionQueue, recordings, mainQueue>>

\* Mutant: the layer of the first session is kept.
StartSessionKeepingLayer ==
  /\ configuring # 0
  /\ configuring' = 0
  /\ layers' = IF layers = <<>> THEN <<captureSession>> ELSE layers
  /\ session' = [session EXCEPT ![configuring].state = "running"]
  /\ sessionQueue' = Tail(sessionQueue)
  /\ mainQueue' = Append(mainQueue, [op |-> "preview"])
  /\ UNCHANGED <<permissionVars, viewVars, captureSession, movieOutput, onView, historyVars,
                 tempFiles, recordings>>

\* The rest of the block: setupPreviewLayer, of the session of the moment, then
\* commitConfiguration, startRunning and the completion.
StartSession ==
  /\ configuring # 0
  /\ configuring' = 0
  /\ layers' = Append(layers, captureSession)
  /\ session' = [session EXCEPT ![configuring].state = "running"]
  /\ sessionQueue' = Tail(sessionQueue)
  /\ mainQueue' = Append(mainQueue, [op |-> "preview"])
  /\ UNCHANGED <<permissionVars, viewVars, captureSession, movieOutput, onView, historyVars,
                 tempFiles, recordings>>

-----------------------------------------------------------------------------
\* Recording.

\* The output is of no session, or of one that is gone.
OutputIsAlone == movieOutput # Nil /\ (movieOutput = 0 \/ ~Retained(movieOutput))

\* The output can record into a new file.
OutputIsReady ==
  /\ movieOutput \in SetUps /\ ~OutputIsAlone
  /\ session[movieOutput].state = "running"
  /\ \A r \in recordings : r.output # movieOutput

\* Nothing stops a press once setUpSession has run.
Pressable == captureSession # 0 /\ ~recordHidden /\ ~pressed

\* recordBtnPressed, .began: the exit button goes whatever the camera does.  With
\* no output, or one that cannot record, nothing is recorded.
StartRecording ==
  /\ Pressable /\ movieOutput # 0
  /\ pressed' = TRUE
  /\ exitHidden' = TRUE
  /\ IF OutputIsReady
     THEN \E file \in FileIds \ tempFiles :
            /\ tempFiles' = tempFiles \cup {file}
            /\ recordings' = recordings \cup
                 {[file |-> file, output |-> movieOutput, stopped |-> FALSE]}
            /\ UNCHANGED lost
     ELSE /\ lost' = TRUE
          /\ UNCHANGED <<tempFiles, recordings>>
  /\ UNCHANGED <<permissionVars, shown, asking, enabled, recordHidden, videoURL, cameraVars,
                 noDevice, sessionQueue, mainQueue>>

\* Mutant: only the session is stopped.
StopSessionOnly ==
  /\ pressed
  /\ configuring = 0 \/ configuring # captureSession
  /\ pressed' = FALSE
  /\ session' = [session EXCEPT ![captureSession].state =
                   IF @ = "running" THEN "stopped" ELSE @]
  /\ UNCHANGED <<permissionVars, shown, asking, enabled, exitHidden, recordHidden, videoURL,
                 captureSession, movieOutput, layers, onView, configuring, historyVars,
                 tempFiles, sessionQueue, mainQueue, recordings>>

\* Mutant: only the output is stopped.
StopOutputOnly ==
  /\ pressed
  /\ pressed' = FALSE
  /\ recordings' = {[r EXCEPT !.stopped = @ \/ r.output = movieOutput] : r \in recordings}
  /\ UNCHANGED <<permissionVars, shown, asking, enabled, exitHidden, recordHidden, videoURL,
                 cameraVars, historyVars, tempFiles, sessionQueue, mainQueue>>

\* .ended or .cancelled: the session of the moment is stopped for good, which ends what
\* it records, then movieOutput, which may be of an earlier session.
StopRecording ==
  /\ pressed
  /\ configuring = 0 \/ configuring # captureSession
  /\ pressed' = FALSE
  /\ session' = [session EXCEPT ![captureSession].state =
                   IF @ = "running" THEN "stopped" ELSE @]
  /\ recordings' =
       {[r EXCEPT !.stopped = @ \/ r.output \in {captureSession, movieOutput}] : r \in recordings}
  /\ UNCHANGED <<permissionVars, shown, asking, enabled, exitHidden, recordHidden, videoURL,
                 captureSession, movieOutput, layers, onView, configuring, historyVars,
                 tempFiles, sessionQueue, mainQueue>>

\* Mutant: finishRecording leaves the exit button.
FinishRecordingHidden(r) ==
  /\ Ending(r)
  /\ recordings' = recordings \ {r}
  /\ videoURL' = r.file
  /\ recordHidden' = TRUE
  /\ UNCHANGED <<permissionVars, shown, asking, enabled, exitHidden, pressed, cameraVars,
                 historyVars, tempFiles, sessionQueue, mainQueue>>

\* fileOutput without an error: finishRecording, which shows the player.
FinishRecording(r) ==
  /\ Ending(r)
  /\ recordings' = recordings \ {r}
  /\ videoURL' = r.file
  /\ exitHidden' = FALSE /\ recordHidden' = TRUE
  /\ UNCHANGED <<permissionVars, shown, asking, enabled, pressed, cameraVars, historyVars,
                 tempFiles, sessionQueue, mainQueue>>

\* fileOutput with an error: it is printed, the delegate is not called.
RecordingFails(r) ==
  /\ recordings' = recordings \ {r}
  /\ lost' = TRUE
  /\ UNCHANGED <<permissionVars, viewVars, cameraVars, noDevice, tempFiles,
                 sessionQueue, mainQueue>>

-----------------------------------------------------------------------------
\* The end of the controller, or of the process.

\* The exit button of the page, or of permissionView.
Exit ==
  /\ shown
  /\ asking \/ ~exitHidden
  /\ NoController

\* The process ends: by the system; startRecording of an output alone raises; so does
\* stopRunning of a session being configured.
EndProcess ==
  /\ shown
  /\ NoController

StartTraps == Pressable /\ OutputIsAlone /\ EndProcess
StopTraps == pressed /\ configuring # 0 /\ configuring = captureSession /\ EndProcess

-----------------------------------------------------------------------------
Permissions ==
  \E d \in Devices :
    \/ AskForAccess(d)
    \/ \E status \in {"granted", "denied"} : Answer(d, status)

Handlers == \E d \in Devices : AccessHandler(d)

Main == AccessCompletion \/ AddPreviewLayer

SessionQueue == RemoveAllTempFiles \/ ConfigureSession \/ StartSession

Recorder == \E r \in recordings : FinishRecording(r) \/ RecordingFails(r)

\* AVFoundation is done with a file it was told to end.
RecordingEnds(file) ==
  \E r \in recordings :
    r.file = file /\ Ending(r) /\ (FinishRecording(r) \/ RecordingFails(r))

Next ==
  \/ ViewDidLoad \/ Exit \/ EndProcess
  \/ Permissions \/ Handlers \/ Main \/ SessionQueue
  \/ StartRecording \/ StopRecording \/ StartTraps \/ StopTraps
  \/ Recorder

Spec == Init /\ [][Next]_vars

\* Queues run their blocks, handlers of answered dialogs are called, AVFoundation
\* ends a recording it was told to stop, or whose session is gone.  None for the user.
Fairness ==
  /\ WF_vars(Handlers) /\ WF_vars(Main) /\ WF_vars(SessionQueue)
  /\ \A file \in FileIds : WF_vars(RecordingEnds(file))

FairSpec == Spec /\ Fairness

-----------------------------------------------------------------------------
AccessBlock == [op : {"access"}, device : Devices, access : BOOLEAN]
MainBlock == AccessBlock \cup [op : {"preview"}]

TypeOK ==
  /\ auth \in [Devices -> {"undetermined", "granted", "denied"}]
  /\ asked \in [Devices -> 0 .. MaxAsks] /\ permitted \in BOOLEAN
  /\ shown \in BOOLEAN /\ asking \in BOOLEAN /\ enabled \in [Devices -> BOOLEAN]
  /\ exitHidden \in BOOLEAN /\ recordHidden \in BOOLEAN /\ pressed \in BOOLEAN
  /\ videoURL \in FileIds \cup {Nil} /\ tempFiles \subseteq FileIds
  /\ captureSession \in 0 .. MaxSetUps /\ configuring \in 0 .. captureSession
  /\ movieOutput \in 0 .. captureSession \cup {Nil}
  /\ layers \in Seq(SetUps) /\ onView \subseteq DOMAIN layers
  /\ session \in Sessions
  /\ sessionQueue \in Seq({"clear", "configure"}) /\ mainQueue \in Seq(MainBlock)
  /\ recordings \subseteq Recording /\ \A r \in recordings : r.file \in tempFiles
  /\ lost \in BOOLEAN /\ noDevice \in BOOLEAN

\* Whatever order the answers, handlers and completions come in, no capture
\* session is made before the user has granted both devices.
CameraNeedsBothPermissions == captureSession # 0 => BothGranted

\* A block of setupCamera waits or runs.
SetUpPending == configuring # 0 \/ \E i \in DOMAIN sessionQueue : sessionQueue[i] = "configure"

\* When the queues are done, the preview in view is that of the last session made,
\* though each set-up reads captureSession several times on two threads.
PreviewShowsTheSession ==
  (captureSession # 0 /\ ~noDevice /\ mainQueue = <<>> /\ ~SetUpPending)
    => PreviewLayer \in onView /\ layers[PreviewLayer] = captureSession

\* The user can leave the page unless a recording is under way, or was lost.
ExitUnlessLost == exitHidden => recordings # {} \/ lost

\* While the permission page shows in spite of both permissions, an answer is on its way
\* that takes it away: a handler, which will find both, or its completion with the flag
\* set.  Each device answers on its own, and the flag is looked up once per answer.
GrantIsNotLost ==
  asking /\ BothGranted =>
    \/ \E d \in Devices : asked[d] > 0
    \/ permitted /\ \E i \in DOMAIN mainQueue :
                       mainQueue[i].op = "access" /\ mainQueue[i].access

\* A layer made for an earlier session is still in the view, and keeps it.
LeftInView(n) == n # captureSession /\ \E l \in onView : layers[l] = n

\* Once the user released the button and no set-up is under way, every recording ends:
\* stopRecording, which looks at the session and the output of the moment, or the set-ups
\* that took its session away have seen to it.  The only one that goes on is of a session
\* whose layer came into the view after the next set-up had cleared it.
ReleasedIsStopped ==
  (~pressed /\ ~noDevice /\ ~SetUpPending)
    => \A r \in recordings : Ending(r) \/ LeftInView(r.output)

\* Both permissions granted, the permission page gives way to the camera.
GrantsLeadToCamera == (asking /\ BothGranted) ~> ~asking

\* A recording the user released ends, whichever of the overlapping set-ups made its
\* output, or its layer is left in the view; unless the last set-up found no camera: its
\* session then hides the one that records.
ReleasedRecordingEnds ==
  \A file \in FileIds :
    (~pressed /\ ~noDevice /\ \E r \in recordings : r.file = file)
      ~> \A r \in recordings : r.file = file => LeftInView(r.output)

-----------------------------------------------------------------------------
\* What the code does not keep.

\* CameraManager, stopRecording: the recording of the button released is told to end.  One
\* of an earlier session is not, if its layer is left in the view.
ReleasedIsEnding ==
  (~pressed /\ ~noDevice /\ ~SetUpPending) => \A r \in recordings : Ending(r)

\* MediaViewController: "Clear files from previous sessions".
PreviousFilesAreCleared == [][RemoveAllTempFiles => tempFiles' = {}]_vars

\* CameraManager: "Finish Recording Completion Block: URL(*Path to the video*),
\* Error": a recording released comes back to the delegate, with its error if it
\* has one, and the exit button with it.
RecordingIsReported == (recordings # {} /\ ~pressed) ~> ~exitHidden
=============================================================================
