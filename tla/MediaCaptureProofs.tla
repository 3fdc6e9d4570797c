------------------------- MODULE MediaCaptureProofs -------------------------
(***************************************************************************)
(* The recorder for every number of permission requests, of overlapping    *)
(* set-ups and of recordings.  The inductive invariant adds to the         *)
(* properties that the manager's flag tells the truth (FlagOK), that only  *)
(* a controller in front has a session and a block that configures one is  *)
(* preceded by the session (SetUpOK), that the last block which starts a   *)
(* session leaves its layer on the view or on its way there (PreviewOK),   *)
(* and that a recording the release of the button did not reach is of an   *)
(* earlier session, which the block that starts the next one deprives of   *)
(* the manager's layer (RecordingOK).                                      *)
(***************************************************************************)
EXTENDS MediaCapture, DataFacts

-----------------------------------------------------------------------------
\* The inductive invariant.

ConfigurePending == \E i \in DOMAIN sessionQueue : sessionQueue[i] = "configure"

PreviewDue == \E i \in DOMAIN mainQueue : mainQueue[i].op = "preview"

\* The flag is set after both answers.
FlagOK == permitted => BothGranted

\* Blocks and sessions belong to a controller in front.
SetUpOK ==
  /\ ~shown => /\ captureSession = 0 /\ mainQueue = <<>> /\ ~asking
               /\ \A d \in Devices : asked[d] = 0
  /\ ConfigurePending => captureSession # 0
  /\ configuring # 0 => sessionQueue # <<>> /\ Head(sessionQueue) = "configure"

\* Nothing pending, the layer is that of the last session, and on the view or due there.
PreviewOK ==
  captureSession # 0 /\ ~noDevice /\ ~ConfigurePending =>
    /\ layers # <<>> /\ layers[PreviewLayer] = captureSession
    /\ PreviewLayer \in onView \/ PreviewDue

\* A recording is of a session made.  One not told to end by the release is of none that
\* stopRecording looks at.
RecordingOK ==
  \A r \in recordings :
    /\ r.output <= captureSession
    /\ r.stopped \/ pressed \/ r.output \notin {captureSession, movieOutput}

Inv ==
  /\ TypeOK
  /\ FlagOK /\ CameraNeedsBothPermissions
  /\ SetUpOK /\ PreviewOK
  /\ ExitUnlessLost
  /\ GrantIsNotLost /\ RecordingOK

-----------------------------------------------------------------------------
\* Steps.

\* The kinds of steps: those that end the controller are alike.
LEMMA Steps ==
  ASSUME [Next]_vars
  PROVE  \/ ViewDidLoad \/ NoController
         \/ \E d \in Devices : AskForAccess(d)
         \/ \E d \in Devices, status \in {"granted", "denied"} : Answer(d, status)
         \/ \E d \in Devices : AccessHandler(d)
         \/ AccessCompletion \/ AddPreviewLayer
         \/ RemoveAllTempFiles \/ ConfigureSession \/ StartSession
         \/ StartRecording \/ StopRecording
         \/ \E r \in recordings : FinishRecording(r) \/ RecordingFails(r)
         \/ UNCHANGED vars
BY DEF Next, Recorder, Exit, EndProcess, StartTraps, StopTraps, Permissions, Handlers, Main, SessionQueue

\* A queue of blocks after its first, and with one more.
LEMMA Pending ==
  ASSUME NEW q \in Seq({"clear", "configure"})
  PROVE  /\ q # <<>> /\ Head(q) = "clear" =>
              ((\E i \in DOMAIN Tail(q) : Tail(q)[i] = "configure")
                 <=> \E i \in DOMAIN q : q[i] = "configure")
         /\ \E i \in DOMAIN Append(q, "configure") : Append(q, "configure")[i] = "configure"
         /\ q # <<>> /\ Head(q) = "configure" => \E i \in DOMAIN q : q[i] = "configure"
         /\ q # <<>> /\ (\E i \in DOMAIN Tail(q) : Tail(q)[i] = "configure")
              => \E i \in DOMAIN q : q[i] = "configure"
         /\ q # <<>> => Tail(q) \in Seq({"clear", "configure"})
         /\ Append(q, "configure") \in Seq({"clear", "configure"})
<1>1. /\ Len(q) \in Nat /\ DOMAIN q = 1 .. Len(q)
  BY SeqIsFunction
<1>2. ASSUME q # <<>>
      PROVE  /\ Len(q) >= 1 /\ Tail(q) \in Seq({"clear", "configure"})
             /\ DOMAIN Tail(q) = 1 .. Len(q) - 1 /\ Head(q) = q[1]
             /\ \A i \in DOMAIN Tail(q) : i + 1 \in DOMAIN q /\ Tail(q)[i] = q[i + 1]
             /\ \A i \in DOMAIN q : i = 1 \/ (i - 1 \in DOMAIN Tail(q) /\ Tail(q)[i - 1] = q[i])
  BY <1>1, <1>2
<1>3. /\ Append(q, "configure") \in Seq({"clear", "configure"})
      /\ DOMAIN Append(q, "configure") = DOMAIN q \cup {Len(q) + 1}
      /\ Append(q, "configure")[Len(q) + 1] = "configure"
  BY AppendSeq
<1>4. ASSUME q # <<>>, NEW i \in DOMAIN Tail(q), Tail(q)[i] = "configure"
      PROVE  \E j \in DOMAIN q : q[j] = "configure"
  BY <1>2, <1>4
<1>5. ASSUME q # <<>>, Head(q) = "clear", NEW i \in DOMAIN q, q[i] = "configure"
      PROVE  \E j \in DOMAIN Tail(q) : Tail(q)[j] = "configure"
  <2>1. i # 1
    BY <1>2, <1>5
  <2> QED BY <1>2, <1>5, <2>1
<1>6. q # <<>> /\ Head(q) = "configure" => \E i \in DOMAIN q : q[i] = "configure"
  BY <1>1, <1>2
<1>7. \E i \in DOMAIN Append(q, "configure") : Append(q, "configure")[i] = "configure"
  BY <1>1, <1>3
<1> QED BY <1>2, <1>3, <1>4, <1>5, <1>6, <1>7

\* The running block stays first when another is queued.
LEMMA HeadStays ==
  ASSUME NEW q \in Seq({"clear", "configure"}), q # <<>>
  PROVE  Append(q, "configure") # <<>> /\ Head(Append(q, "configure")) = Head(q)
<1>1. Len(q) \in Nat /\ Len(q) >= 1 /\ Head(q) = q[1]
  BY SeqIsFunction
<1>2. Append(q, "configure") # <<>> /\ Append(q, "configure")[1] = q[1]
  BY <1>1
<1> QED BY <1>1, <1>2

\* The same of the blocks on main.
LEMMA Due ==
  ASSUME NEW q \in Seq(MainBlock)
  PROVE  /\ q # <<>> /\ Head(q).op = "access" =>
              ((\E i \in DOMAIN q : q[i].op = "preview")
                 => \E i \in DOMAIN Tail(q) : Tail(q)[i].op = "preview")
         /\ \A b \in MainBlock :
              /\ Append(q, b) \in Seq(MainBlock)
              /\ (\E i \in DOMAIN q : q[i].op = "preview")
                   => \E i \in DOMAIN Append(q, b) : Append(q, b)[i].op = "preview"
              /\ b.op = "preview" => \E i \in DOMAIN Append(q, b) : Append(q, b)[i].op = "preview"
         /\ q # <<>> => Tail(q) \in Seq(MainBlock) /\ Head(q) \in MainBlock
<1>1. /\ Len(q) \in Nat /\ DOMAIN q = 1 .. Len(q)
  BY SeqIsFunction
<1>2. ASSUME q # <<>>
      PROVE  /\ Tail(q) \in Seq(MainBlock) /\ Head(q) \in MainBlock /\ Head(q) = q[1]
             /\ \A i \in DOMAIN q : i = 1 \/ (i - 1 \in DOMAIN Tail(q) /\ Tail(q)[i - 1] = q[i])
  BY <1>1, <1>2
<1>3. ASSUME NEW b \in MainBlock
      PROVE  /\ Append(q, b) \in Seq(MainBlock)
             /\ DOMAIN Append(q, b) = DOMAIN q \cup {Len(q) + 1}
             /\ Append(q, b)[Len(q) + 1] = b
             /\ \A i \in DOMAIN q : Append(q, b)[i] = q[i]
  BY AppendSeq
<1> QED BY <1>1, <1>2, <1>3

-----------------------------------------------------------------------------
\* Types.

LEMMA RecordingStops ==
  ASSUME NEW r \in Recording, NEW b \in BOOLEAN
  PROVE  /\ [r EXCEPT !.stopped = b] \in Recording
         /\ [r EXCEPT !.stopped = b].file = r.file
         /\ [r EXCEPT !.stopped = b].output = r.output
         /\ [r EXCEPT !.stopped = b].stopped = b
BY DEF Recording

\* What stopRecording leaves of the recordings.
LEMMA StoppedRecordings ==
  ASSUME TypeOK, StopRecording
  PROVE  /\ \A r \in recordings' : \E q \in recordings :
              /\ r \in Recording /\ r.file = q.file /\ r.output = q.output
              /\ r.stopped <=> q.stopped \/ q.output \in {captureSession, movieOutput}
         /\ recordings # {} => recordings' # {}
<1> DEFINE Stop(q) == [q EXCEPT !.stopped = @ \/ q.output \in {captureSession, movieOutput}]
<1>1. recordings' = {Stop(q) : q \in recordings}
  BY DEF StopRecording
<1>2. ASSUME NEW q \in recordings
      PROVE  /\ Stop(q) \in Recording /\ Stop(q).file = q.file /\ Stop(q).output = q.output
             /\ Stop(q).stopped <=> q.stopped \/ q.output \in {captureSession, movieOutput}
  <2>1. q \in Recording
    BY DEF TypeOK
  <2> DEFINE b == q.stopped \/ q.output \in {captureSession, movieOutput}
  <2>2. b \in BOOLEAN
    BY <2>1 DEF Recording
  <2>3. Stop(q) = [q EXCEPT !.stopped = b]
    OBVIOUS
  <2> HIDE DEF b
  <2>4. /\ Stop(q) \in Recording /\ Stop(q).file = q.file /\ Stop(q).output = q.output
        /\ Stop(q).stopped = b
    BY <2>1, <2>2, <2>3, RecordingStops
  <2> QED BY <2>4 DEF b
<1> HIDE DEF Stop
<1> QED BY <1>1, <1>2

\* With no controller the types hold.
LEMMA NoControllerTypes ==
  ASSUME TypeOK, NoController
  PROVE  TypeOK'
<1> USE BoundsAssumption
<1>1. /\ asked' \in [Devices -> 0 .. MaxAsks] /\ enabled' \in [Devices -> BOOLEAN]
      /\ session' \in Sessions
  BY DEF NoController, NoSessions, Sessions, SessionState
<1>2. sessionQueue' \in Seq({"clear", "configure"}) /\ mainQueue' \in Seq(MainBlock)
  BY DEF NoController
<1>3. /\ auth' = auth /\ tempFiles' = tempFiles
      /\ videoURL' = Nil /\ movieOutput' = Nil /\ onView' = {}
      /\ recordings' = {} /\ captureSession' = 0 /\ configuring' = 0
  BY DEF NoController
<1>5. layers' \in Seq(SetUps)
  BY DEF NoController
<1>4. /\ permitted' \in BOOLEAN /\ shown' \in BOOLEAN /\ asking' \in BOOLEAN
      /\ exitHidden' \in BOOLEAN /\ recordHidden' \in BOOLEAN /\ pressed' \in BOOLEAN
      /\ lost' \in BOOLEAN /\ noDevice' \in BOOLEAN
  BY DEF NoController
<1> QED BY <1>1, <1>2, <1>3, <1>4, <1>5 DEF TypeOK

\* A set-up keeps the types of what it changes.
LEMMA SetUpTypes ==
  ASSUME TypeOK, NEW q \in Seq({"clear", "configure"}), NEW found \in BOOLEAN,
         SetUpSession(q, found)
  PROVE  /\ captureSession' \in 1 .. MaxSetUps /\ captureSession' = captureSession + 1
         /\ onView' \subseteq DOMAIN layers
         /\ sessionQueue' \in Seq({"clear", "configure"})
         /\ noDevice' \in BOOLEAN /\ asking' \in BOOLEAN
<1>1. sessionQueue' \in Seq({"clear", "configure"})
  BY Pending DEF SetUpSession
<1>2. captureSession' = captureSession + 1 /\ captureSession' \in 1 .. MaxSetUps
  BY BoundsAssumption DEF SetUpSession, TypeOK
<1> QED BY <1>1, <1>2 DEF SetUpSession, TypeOK

LEMMA Types ==
  ASSUME TypeOK, SetUpOK, [Next]_vars
  PROVE  TypeOK'
<1> USE BoundsAssumption
<1>1. CASE ViewDidLoad
  <2>1. <<"clear">> \in Seq({"clear", "configure"})
    OBVIOUS
  <2>2. /\ captureSession' \in 0 .. MaxSetUps
        /\ captureSession' = captureSession \/ captureSession' = captureSession + 1
        /\ onView' \subseteq DOMAIN layers
        /\ sessionQueue' \in Seq({"clear", "configure"})
        /\ noDevice' \in BOOLEAN /\ asking' \in BOOLEAN
    <3>1. CASE BothGranted
      <4>1. PICK found \in BOOLEAN : SetUpSession(<<"clear">>, found)
        BY <1>1, <3>1 DEF ViewDidLoad
      <4>2. /\ captureSession' \in 1 .. MaxSetUps /\ captureSession' = captureSession + 1
            /\ onView' \subseteq DOMAIN layers
            /\ sessionQueue' \in Seq({"clear", "configure"})
            /\ noDevice' \in BOOLEAN /\ asking' \in BOOLEAN
        BY <2>1, <4>1, SetUpTypes
      <4> QED BY <4>2
    <3>2. CASE ~BothGranted
      BY <1>1, <2>1, <3>2 DEF ViewDidLoad, TypeOK
    <3> QED BY <3>1, <3>2
  <2>3. permitted' \in BOOLEAN /\ shown' \in BOOLEAN
    BY <1>1 DEF ViewDidLoad, BothGranted
  <2>4. UNCHANGED <<auth, asked, tempFiles, enabled, exitHidden, recordHidden, videoURL, pressed,
                    movieOutput, layers, configuring, session, recordings, mainQueue, lost>>
    BY <1>1 DEF ViewDidLoad
  <2> QED BY <2>2, <2>3, <2>4 DEF TypeOK
<1>2. CASE NoController
  BY <1>2, NoControllerTypes
<1>3. ASSUME NEW d \in Devices, AskForAccess(d) PROVE TypeOK'
  <2>1. Len(mainQueue) \in Nat
    BY SeqIsFunction DEF TypeOK
  <2>2. asked' \in [Devices -> 0 .. MaxAsks]
    BY <1>3, <2>1 DEF AskForAccess, TypeOK, Devices
  <2> QED BY <1>3, <2>2 DEF AskForAccess, TypeOK, viewVars, cameraVars, historyVars
<1>4. ASSUME NEW d \in Devices, NEW status \in {"granted", "denied"}, Answer(d, status)
      PROVE  TypeOK'
  BY <1>4 DEF Answer, TypeOK, viewVars, cameraVars, historyVars
<1>5. ASSUME NEW d \in Devices, AccessHandler(d) PROVE TypeOK'
  <2> DEFINE block == [op |-> "access", device |-> d, access |-> auth[d] = "granted"]
  <2>1. block \in MainBlock
    BY DEF MainBlock, AccessBlock
  <2>2. mainQueue' = Append(mainQueue, block)
    BY <1>5 DEF AccessHandler
  <2> HIDE DEF block
  <2>3. mainQueue' \in Seq(MainBlock)
    BY <2>1, <2>2, Due DEF TypeOK
  <2>4. asked' \in [Devices -> 0 .. MaxAsks]
    BY <1>5 DEF AccessHandler, TypeOK
  <2>5. permitted' \in BOOLEAN
    BY <1>5 DEF AccessHandler, TypeOK, CheckIfBothPermissionGranted, BothGranted
  <2> QED BY <1>5, <2>3, <2>4, <2>5 DEF AccessHandler, TypeOK, viewVars, cameraVars, historyVars
<1>6. CASE AccessCompletion
  <2>1. mainQueue' \in Seq(MainBlock) /\ Head(mainQueue) \in MainBlock
        /\ Head(mainQueue).op = "access"
    BY <1>6, Due DEF AccessCompletion, NextBlock, TypeOK
  <2>2. Head(mainQueue).device \in Devices /\ Head(mainQueue).access \in BOOLEAN
    BY <2>1 DEF MainBlock, AccessBlock
  <2>3. enabled' \in [Devices -> BOOLEAN]
    BY <1>6, <2>2 DEF AccessCompletion, TypeOK
  <2>4. /\ captureSession' \in 0 .. MaxSetUps
        /\ captureSession' = captureSession \/ captureSession' = captureSession + 1
        /\ onView' \subseteq DOMAIN layers
        /\ sessionQueue' \in Seq({"clear", "configure"})
        /\ noDevice' \in BOOLEAN /\ asking' \in BOOLEAN
    <3>1. sessionQueue \in Seq({"clear", "configure"})
      BY DEF TypeOK
    <3>2. CASE \E found \in BOOLEAN : SetUpSession(sessionQueue, found)
      BY <3>1, <3>2, SetUpTypes
    <3>3. CASE UNCHANGED <<captureSession, onView, sessionQueue, noDevice, asking>>
      BY <3>3 DEF TypeOK
    <3> QED BY <1>6, <3>2, <3>3 DEF AccessCompletion
  <2> QED BY <1>6, <2>1, <2>3, <2>4 DEF AccessCompletion, TypeOK, permissionVars
<1>7. CASE AddPreviewLayer
  <2>1. mainQueue' \in Seq(MainBlock)
    BY <1>7, Due DEF AddPreviewLayer, NextBlock, TypeOK
  <2>2. layers' = layers /\ onView' \subseteq DOMAIN layers
    <3>1. layers # <<>> => PreviewLayer \in DOMAIN layers
      BY EmptySeq, SeqIsFunction DEF TypeOK, PreviewLayer
    <3> QED BY <1>7, <3>1 DEF AddPreviewLayer, TypeOK
  <2> QED BY <1>7, <2>1, <2>2 DEF AddPreviewLayer, TypeOK, permissionVars, viewVars, historyVars
<1>8. CASE RemoveAllTempFiles
  <2>1. sessionQueue' \in Seq({"clear", "configure"})
    BY <1>8, Pending DEF RemoveAllTempFiles, NextOnSessionQueue, TypeOK
  <2> QED BY <1>8, <2>1 DEF RemoveAllTempFiles, TypeOK, permissionVars, viewVars, cameraVars,
         historyVars
<1>9. CASE ConfigureSession
  <2>1. captureSession \in SetUps
    <3>1. ConfigurePending
      BY <1>9, Pending DEF ConfigureSession, NextOnSessionQueue, ConfigurePending, TypeOK
    <3> QED BY <3>1 DEF SetUpOK, TypeOK, SetUps
  <2>2. session' \in Sessions
    BY <1>9, <2>1 DEF ConfigureSession, TypeOK, Sessions, SessionState
  <2> QED BY <1>9, <2>1, <2>2 DEF ConfigureSession, TypeOK, permissionVars, viewVars, historyVars,
         SetUps
<1>10. CASE StartSession
  <2>1. configuring \in SetUps /\ captureSession \in SetUps
    BY <1>10 DEF StartSession, TypeOK, SetUps
  <2>2. session' \in Sessions
    BY <1>10, <2>1 DEF StartSession, TypeOK, Sessions, SessionState
  <2>3. mainQueue' \in Seq(MainBlock)
    <3>1. [op |-> "preview"] \in MainBlock
      BY DEF MainBlock
    <3> QED BY <1>10, <3>1, Due DEF StartSession, TypeOK
  <2>4. sessionQueue' \in Seq({"clear", "configure"})
    BY <1>10, Pending DEF StartSession, SetUpOK, TypeOK
  <2>5. layers' \in Seq(SetUps) /\ onView' \subseteq DOMAIN layers'
    BY <1>10, <2>1, AppendSeq DEF StartSession, TypeOK
  <2> QED BY <1>10, <2>1, <2>2, <2>3, <2>4, <2>5
      DEF StartSession, TypeOK, permissionVars, viewVars, historyVars, SetUps
<1>11. CASE StartRecording
  <2>1. /\ tempFiles' \subseteq FileIds /\ tempFiles \subseteq tempFiles'
        /\ recordings' \subseteq Recording
        /\ \A r \in recordings' : r.file \in tempFiles'
        /\ lost' \in BOOLEAN
    <3>1. CASE OutputIsReady
      <4>1. PICK file \in FileIds \ tempFiles :
              /\ tempFiles' = tempFiles \cup {file}
              /\ recordings' = recordings \cup
                   {[file |-> file, output |-> movieOutput, stopped |-> FALSE]}
              /\ lost' = lost
        BY <1>11, <3>1 DEF StartRecording
      <4> DEFINE new == [file |-> file, output |-> movieOutput, stopped |-> FALSE]
      <4>2. new \in Recording /\ new.file = file
        BY <3>1 DEF OutputIsReady, Recording
      <4>3. recordings' = recordings \cup {new}
        BY <4>1
      <4> HIDE DEF new
      <4> QED BY <4>1, <4>2, <4>3 DEF TypeOK
    <3>2. CASE ~OutputIsReady
      BY <1>11, <3>2 DEF StartRecording, TypeOK
    <3> QED BY <3>1, <3>2
  <2> QED BY <1>11, <2>1 DEF StartRecording, TypeOK, permissionVars, cameraVars
<1>12. CASE StopRecording
  <2>1. session' \in Sessions
    <3> DEFINE next == IF session[captureSession].state = "running"
                       THEN "stopped" ELSE session[captureSession].state
    <3>1. session' = [session EXCEPT ![captureSession].state = next]
      BY <1>12 DEF StopRecording
    <3>2. CASE captureSession \in SetUps
      <4>1. next \in {"new", "running", "stopped"}
        BY <3>2 DEF TypeOK, Sessions, SessionState
      <4> HIDE DEF next
      <4> QED BY <3>1, <3>2, <4>1 DEF TypeOK, Sessions, SessionState
    <3>3. CASE captureSession \notin SetUps
      <4> HIDE DEF next
      <4>1. session' = session
        BY <3>1, <3>3 DEF TypeOK, Sessions
      <4> QED BY <4>1 DEF TypeOK
    <3> QED BY <3>2, <3>3
  <2>2. recordings' \subseteq Recording /\ \A r \in recordings' : r.file \in tempFiles
    BY <1>12, StoppedRecordings DEF TypeOK
  <2>3. pressed' \in BOOLEAN
    BY <1>12 DEF StopRecording
  <2>4. UNCHANGED <<auth, asked, permitted, shown, asking, enabled, exitHidden, recordHidden,
                    videoURL, captureSession, movieOutput, layers, onView, configuring,
                    lost, noDevice, tempFiles, sessionQueue, mainQueue>>
    BY <1>12 DEF StopRecording, permissionVars, historyVars
  <2> QED BY <2>1, <2>2, <2>3, <2>4 DEF TypeOK
<1>13. ASSUME NEW r \in recordings, FinishRecording(r) PROVE TypeOK'
  <2>1. r.file \in FileIds
    BY DEF TypeOK, Recording
  <2> QED BY <1>13, <2>1 DEF FinishRecording, TypeOK, permissionVars, cameraVars, historyVars
<1>14. ASSUME NEW r \in recordings, RecordingFails(r) PROVE TypeOK'
  BY <1>14 DEF RecordingFails, TypeOK, permissionVars, viewVars, cameraVars
<1>15. CASE UNCHANGED vars
  BY <1>15 DEF vars, TypeOK, permissionVars, viewVars, cameraVars, historyVars
<1> QED
  BY Steps, <1>1, <1>2, <1>3, <1>4, <1>5, <1>6, <1>7, <1>8, <1>9, <1>10, <1>11, <1>12, <1>13,
     <1>14, <1>15

-----------------------------------------------------------------------------
\* Permissions and set-ups.

\* Once both are granted they stay so, and only then is the flag set or a session made.
LEMMA GrantsLast ==
  ASSUME TypeOK, FlagOK, CameraNeedsBothPermissions, [Next]_vars
  PROVE  /\ BothGranted => BothGranted'
         /\ FlagOK' /\ CameraNeedsBothPermissions'
<1>1. CASE ViewDidLoad
  <2>1. auth' = auth /\ permitted' = BothGranted
    BY <1>1 DEF ViewDidLoad
  <2>2. BothGranted' <=> BothGranted
    BY <2>1 DEF BothGranted
  <2>3. CASE BothGranted
    BY <2>2, <2>3 DEF FlagOK, CameraNeedsBothPermissions
  <2>4. CASE ~BothGranted
    <3>1. captureSession' = captureSession
      BY <1>1, <2>4 DEF ViewDidLoad
    <3> QED BY <2>1, <2>2, <2>4, <3>1 DEF FlagOK, CameraNeedsBothPermissions
  <2> QED BY <2>3, <2>4
<1>2. CASE NoController
  <2>1. auth' = auth /\ permitted' = FALSE /\ captureSession' = 0
    BY <1>2 DEF NoController
  <2> QED BY <2>1 DEF BothGranted, FlagOK, CameraNeedsBothPermissions
<1>3. ASSUME NEW d \in Devices, AskForAccess(d)
      PROVE  UNCHANGED <<auth, permitted, captureSession>>
  BY <1>3 DEF AskForAccess, cameraVars
<1>4. ASSUME NEW d \in Devices, NEW status \in {"granted", "denied"}, Answer(d, status)
      PROVE  /\ BothGranted => BothGranted'
             /\ FlagOK' /\ CameraNeedsBothPermissions'
  <2>1. ~BothGranted
    BY <1>4 DEF Answer, BothGranted
  <2> QED BY <1>4, <2>1 DEF Answer, cameraVars, FlagOK, CameraNeedsBothPermissions
<1>5. ASSUME NEW d \in Devices, AccessHandler(d)
      PROVE  /\ BothGranted => BothGranted'
             /\ FlagOK' /\ CameraNeedsBothPermissions'
  BY <1>5 DEF AccessHandler, CheckIfBothPermissionGranted, cameraVars, BothGranted, FlagOK,
     CameraNeedsBothPermissions
<1>6. CASE AccessCompletion
  <2>1. UNCHANGED <<auth, permitted>> /\ (captureSession' = captureSession \/ permitted)
    BY <1>6 DEF AccessCompletion, permissionVars
  <2> QED BY <2>1 DEF BothGranted, FlagOK, CameraNeedsBothPermissions
<1>7. CASE AddPreviewLayer \/ RemoveAllTempFiles \/ ConfigureSession \/ StartSession
             \/ StartRecording \/ StopRecording
             \/ (\E r \in recordings : FinishRecording(r) \/ RecordingFails(r))
             \/ UNCHANGED vars
  <2>1. UNCHANGED <<auth, permitted, captureSession>>
    BY <1>7 DEF AddPreviewLayer, RemoveAllTempFiles, ConfigureSession, StartSession,
       StartRecording, StopRecording, FinishRecording, RecordingFails, vars, permissionVars,
       cameraVars
  <2> QED BY <2>1 DEF BothGranted, FlagOK, CameraNeedsBothPermissions
<1>8. ASSUME UNCHANGED <<auth, permitted, captureSession>>
      PROVE  /\ BothGranted => BothGranted'
             /\ FlagOK' /\ CameraNeedsBothPermissions'
  BY <1>8 DEF BothGranted, FlagOK, CameraNeedsBothPermissions
<1> QED BY Steps, <1>1, <1>2, <1>3, <1>4, <1>5, <1>6, <1>7, <1>8

\* A set-up of a queue without a block to configure.
LEMMA SetUpLeaves ==
  ASSUME TypeOK, NEW q \in Seq({"clear", "configure"}), NEW found \in BOOLEAN,
         SetUpSession(q, found)
  PROVE  /\ captureSession' # 0
         /\ noDevice' \/ ConfigurePending'
<1>1. captureSession' # 0
  BY SetUpTypes
<1>2. CASE found
  <2>1. sessionQueue' = Append(q, "configure")
    BY <1>2 DEF SetUpSession
  <2> QED BY <1>1, <2>1, Pending DEF ConfigurePending
<1>3. CASE ~found
  BY <1>1, <1>3 DEF SetUpSession
<1> QED BY <1>1, <1>2, <1>3

\* What the queues hold of set-ups, and what is due on the view.
LEMMA SetUpsKept ==
  ASSUME TypeOK, SetUpOK, PreviewOK, [Next]_vars
  PROVE  SetUpOK' /\ PreviewOK'
<1>1. CASE ViewDidLoad
  <2>1. shown' = TRUE /\ configuring' = configuring /\ configuring = 0 /\ captureSession = 0
    BY <1>1 DEF ViewDidLoad, SetUpOK, TypeOK
  <2>2. <<"clear">> \in Seq({"clear", "configure"})
    OBVIOUS
  <2>3. CASE BothGranted
    <3>1. PICK found \in BOOLEAN : SetUpSession(<<"clear">>, found)
      BY <1>1, <2>3 DEF ViewDidLoad
    <3>2. captureSession' # 0 /\ (noDevice' \/ ConfigurePending')
      BY <2>2, <3>1, SetUpLeaves
    <3> QED BY <2>1, <3>2 DEF SetUpOK, PreviewOK
  <2>4. CASE ~BothGranted
    <3>1. sessionQueue' = <<"clear">> /\ captureSession' = captureSession
      BY <1>1, <2>4 DEF ViewDidLoad
    <3>2. ~ConfigurePending'
      BY <3>1 DEF ConfigurePending
    <3> QED BY <2>1, <3>1, <3>2 DEF SetUpOK, PreviewOK
  <2> QED BY <2>3, <2>4
<1>2. CASE NoController
  <2>1. /\ captureSession' = 0 /\ configuring' = 0 /\ sessionQueue' = <<>> /\ mainQueue' = <<>>
        /\ asking' = FALSE /\ \A d \in Devices : asked'[d] = 0
    BY <1>2 DEF NoController
  <2>2. ~ConfigurePending'
    BY <2>1 DEF ConfigurePending
  <2> QED BY <2>1, <2>2 DEF SetUpOK, PreviewOK
<1>10. ASSUME NEW d \in Devices, AskForAccess(d) PROVE SetUpOK' /\ PreviewOK'
  <2>1. /\ UNCHANGED <<shown, captureSession, configuring, sessionQueue, noDevice, layers,
                       onView, mainQueue>>
        /\ shown
    BY <1>10 DEF AskForAccess, viewVars, cameraVars, historyVars, SetUpOK
  <2> QED BY <2>1 DEF SetUpOK, PreviewOK, PreviewLayer, ConfigurePending, PreviewDue
<1>3. ASSUME \/ \E d \in Devices, status \in {"granted", "denied"} : Answer(d, status)
             \/ StartRecording \/ StopRecording
             \/ (\E r \in recordings : FinishRecording(r) \/ RecordingFails(r))
             \/ UNCHANGED vars
      PROVE  SetUpOK' /\ PreviewOK'
  <2>1. UNCHANGED <<shown, captureSession, configuring, sessionQueue, noDevice, layers,
                    onView, mainQueue, asking, asked>>
    BY <1>3 DEF Answer, StartRecording, StopRecording, FinishRecording,
       RecordingFails, vars, permissionVars, viewVars, cameraVars, historyVars
  <2> QED BY <2>1 DEF SetUpOK, PreviewOK, PreviewLayer, ConfigurePending, PreviewDue
<1>4. ASSUME NEW d \in Devices, AccessHandler(d) PROVE SetUpOK' /\ PreviewOK'
  <2> DEFINE block == [op |-> "access", device |-> d, access |-> auth[d] = "granted"]
  <2>1. block \in MainBlock
    BY DEF MainBlock, AccessBlock
  <2>2. mainQueue' = Append(mainQueue, block)
    BY <1>4 DEF AccessHandler
  <2> HIDE DEF block
  <2>3. PreviewDue => PreviewDue'
    BY <2>1, <2>2, Due DEF TypeOK, PreviewDue
  <2>4. UNCHANGED <<shown, captureSession, configuring, sessionQueue, noDevice, layers,
                    onView>>
    BY <1>4 DEF AccessHandler, viewVars, cameraVars, historyVars
  <2>6. shown
    BY <1>4 DEF AccessHandler, SetUpOK, TypeOK
  <2>5. ConfigurePending' <=> ConfigurePending
    BY <2>4 DEF ConfigurePending
  <2> QED BY <2>3, <2>4, <2>5, <2>6 DEF SetUpOK, PreviewOK, PreviewLayer
<1>5. CASE AccessCompletion
  <2>1. PreviewDue => PreviewDue'
    BY <1>5, Due DEF AccessCompletion, NextBlock, TypeOK, PreviewDue
  <2>2. UNCHANGED <<shown, configuring, layers>> /\ shown
    BY <1>5 DEF AccessCompletion, NextBlock, SetUpOK
  <2>3. CASE UNCHANGED <<captureSession, onView, sessionQueue, noDevice, asking>>
    <3>1. ConfigurePending' <=> ConfigurePending
      BY <2>3 DEF ConfigurePending
    <3> QED BY <2>1, <2>2, <2>3, <3>1 DEF SetUpOK, PreviewOK, PreviewLayer
  <2>4. ASSUME NEW found \in BOOLEAN, SetUpSession(sessionQueue, found)
        PROVE  SetUpOK' /\ PreviewOK'
    <3>1. captureSession' # 0 /\ (noDevice' \/ ConfigurePending')
      BY <2>4, SetUpLeaves DEF TypeOK
    <3>2. sessionQueue # <<>> => sessionQueue' # <<>> /\ Head(sessionQueue') = Head(sessionQueue)
      BY <2>4, HeadStays DEF SetUpSession, TypeOK
    <3>3. configuring # 0 => sessionQueue' # <<>> /\ Head(sessionQueue') = "configure"
      BY <2>2, <3>2 DEF SetUpOK
    <3> QED BY <2>2, <3>1, <3>3 DEF SetUpOK, PreviewOK
  <2> QED BY <1>5, <2>3, <2>4 DEF AccessCompletion
<1>6. CASE AddPreviewLayer
  <2>1. UNCHANGED <<shown, captureSession, configuring, sessionQueue, noDevice, layers>>
        /\ shown
    BY <1>6 DEF AddPreviewLayer, NextBlock, viewVars, historyVars, SetUpOK
  <2>2. ConfigurePending' <=> ConfigurePending
    BY <2>1 DEF ConfigurePending
  <2>3. layers # <<>> => PreviewLayer' \in onView'
    BY <1>6 DEF AddPreviewLayer, PreviewLayer
  <2> QED BY <2>1, <2>2, <2>3 DEF SetUpOK, PreviewOK, PreviewLayer
<1>7. CASE RemoveAllTempFiles
  <2>1. UNCHANGED <<shown, captureSession, configuring, noDevice, layers, onView, mainQueue, asking,
                    asked>>
        /\ configuring = 0
    BY <1>7 DEF RemoveAllTempFiles, NextOnSessionQueue, permissionVars, viewVars, cameraVars,
       historyVars
  <2>2. ConfigurePending' <=> ConfigurePending
    BY <1>7, Pending DEF RemoveAllTempFiles, NextOnSessionQueue, ConfigurePending, TypeOK
  <2> QED BY <2>1, <2>2 DEF SetUpOK, PreviewOK, PreviewLayer, PreviewDue
<1>8. CASE ConfigureSession
  <2>1. /\ UNCHANGED <<shown, captureSession, sessionQueue, noDevice, layers, onView,
                       mainQueue, asking, asked>>
        /\ sessionQueue # <<>> /\ Head(sessionQueue) = "configure"
    BY <1>8 DEF ConfigureSession, NextOnSessionQueue, permissionVars, viewVars, historyVars
  <2>2. ConfigurePending /\ ConfigurePending'
    BY <2>1, Pending DEF ConfigurePending, TypeOK
  <2> QED BY <2>1, <2>2 DEF SetUpOK, PreviewOK
<1>9. CASE StartSession
  <2>1. /\ configuring # 0 /\ configuring' = 0 /\ layers' = Append(layers, captureSession)
        /\ sessionQueue' = Tail(sessionQueue) /\ mainQueue' = Append(mainQueue, [op |-> "preview"])
        /\ UNCHANGED <<shown, captureSession, noDevice, onView>> /\ shown
    BY <1>9 DEF StartSession, viewVars, historyVars, SetUpOK, TypeOK
  <2>2. PreviewDue'
    <3>1. [op |-> "preview"] \in MainBlock
      BY DEF MainBlock
    <3> QED BY <2>1, <3>1, Due DEF TypeOK, PreviewDue
  <2>3. ConfigurePending' => ConfigurePending
    BY <2>1, Pending DEF SetUpOK, TypeOK, ConfigurePending
  <2>4. layers' # <<>> /\ layers'[PreviewLayer'] = captureSession
    <3>1. captureSession \in SetUps
      BY <2>1 DEF TypeOK, SetUps
    <3> QED BY <2>1, <3>1, AppendSeq DEF TypeOK, PreviewLayer
  <2> QED BY <2>1, <2>2, <2>3, <2>4 DEF SetUpOK, PreviewOK
<1> QED BY Steps, <1>1, <1>2, <1>3, <1>4, <1>5, <1>6, <1>7, <1>8, <1>9, <1>10

\* The exit button comes back with the recording.
LEMMA ExitKept ==
  ASSUME TypeOK, ExitUnlessLost, [Next]_vars
  PROVE  ExitUnlessLost'
<1>1. CASE \/ ViewDidLoad \/ AccessCompletion \/ AddPreviewLayer \/ RemoveAllTempFiles
           \/ ConfigureSession \/ StartSession \/ UNCHANGED vars
           \/ \E d \in Devices : AskForAccess(d) \/ AccessHandler(d)
           \/ \E d \in Devices, status \in {"granted", "denied"} : Answer(d, status)
  <2>1. UNCHANGED <<exitHidden, recordings, lost>>
    BY <1>1 DEF ViewDidLoad, AccessCompletion, AddPreviewLayer, RemoveAllTempFiles,
       ConfigureSession, StartSession, AskForAccess, AccessHandler, Answer, vars, viewVars,
       historyVars
  <2> QED BY <2>1 DEF ExitUnlessLost
<1>2. CASE NoController
  BY <1>2 DEF NoController, ExitUnlessLost
<1>3. CASE StartRecording
  <2>1. CASE OutputIsReady
    BY <1>3, <2>1 DEF StartRecording, ExitUnlessLost
  <2>2. CASE ~OutputIsReady
    BY <1>3, <2>2 DEF StartRecording, ExitUnlessLost
  <2> QED BY <2>1, <2>2
<1>4. CASE StopRecording
  BY <1>4, StoppedRecordings DEF StopRecording, historyVars, ExitUnlessLost
<1>5. ASSUME NEW r \in recordings, FinishRecording(r) \/ RecordingFails(r) PROVE ExitUnlessLost'
  BY <1>5 DEF FinishRecording, RecordingFails, ExitUnlessLost
<1> QED BY Steps, <1>1, <1>2, <1>3, <1>4, <1>5

-----------------------------------------------------------------------------
\* Answers and recordings on their way.

GrantDue == \E i \in DOMAIN mainQueue : mainQueue[i].op = "access" /\ mainQueue[i].access

\* A granted answer stays in main's queue until its own completion runs.
LEMMA GrantStaysDue ==
  ASSUME NEW q \in Seq(MainBlock)
  PROVE  /\ q # <<>> /\ ~(Head(q).op = "access" /\ Head(q).access) =>
              ((\E i \in DOMAIN q : q[i].op = "access" /\ q[i].access)
                 => \E i \in DOMAIN Tail(q) : Tail(q)[i].op = "access" /\ Tail(q)[i].access)
         /\ \A b \in MainBlock :
              /\ (\E i \in DOMAIN q : q[i].op = "access" /\ q[i].access)
                   => \E i \in DOMAIN Append(q, b) :
                        Append(q, b)[i].op = "access" /\ Append(q, b)[i].access
              /\ b.op = "access" /\ b.access
                   => \E i \in DOMAIN Append(q, b) :
                        Append(q, b)[i].op = "access" /\ Append(q, b)[i].access
<1>1. /\ Len(q) \in Nat /\ DOMAIN q = 1 .. Len(q)
  BY SeqIsFunction
<1>2. ASSUME q # <<>>
      PROVE  /\ Head(q) = q[1]
             /\ \A i \in DOMAIN q : i = 1 \/ (i - 1 \in DOMAIN Tail(q) /\ Tail(q)[i - 1] = q[i])
  BY <1>1, <1>2
<1>3. ASSUME NEW b \in MainBlock
      PROVE  /\ DOMAIN Append(q, b) = DOMAIN q \cup {Len(q) + 1}
             /\ Append(q, b)[Len(q) + 1] = b
             /\ \A i \in DOMAIN q : Append(q, b)[i] = q[i]
  BY AppendSeq
<1> QED BY <1>1, <1>2, <1>3

\* The last answer finds both permissions and sets the flag; a completion that finds
\* the flag takes the permission page away.
LEMMA GrantKept ==
  ASSUME TypeOK, GrantIsNotLost, [Next]_vars
  PROVE  GrantIsNotLost'
<1> USE DEF GrantIsNotLost, GrantDue
<1>1. CASE ViewDidLoad
  <2>1. CASE BothGranted
    BY <1>1, <2>1 DEF ViewDidLoad, SetUpSession
  <2>2. CASE ~BothGranted
    BY <1>1, <2>2 DEF ViewDidLoad, BothGranted
  <2> QED BY <2>1, <2>2
<1>2. CASE NoController
  BY <1>2 DEF NoController
<1>3. ASSUME NEW d \in Devices, AskForAccess(d) PROVE GrantIsNotLost'
  <2>1. asked'[d] > 0
    BY <1>3 DEF AskForAccess, TypeOK
  <2> QED BY <2>1
<1>4. ASSUME NEW d \in Devices, NEW status \in {"granted", "denied"}, Answer(d, status)
      PROVE  GrantIsNotLost'
  BY <1>4 DEF Answer
<1>5. ASSUME NEW d \in Devices, AccessHandler(d) PROVE GrantIsNotLost'
  <2> DEFINE block == [op |-> "access", device |-> d, access |-> auth[d] = "granted"]
  <2>1. block \in MainBlock /\ block.op = "access" /\ (BothGranted => block.access)
    BY DEF MainBlock, AccessBlock, BothGranted
  <2>2. mainQueue' = Append(mainQueue, block)
    BY <1>5 DEF AccessHandler
  <2> HIDE DEF block
  <2>3. BothGranted => GrantDue'
    BY <2>1, <2>2, GrantStaysDue DEF TypeOK
  <2>4. (BothGranted' <=> BothGranted) /\ (BothGranted => permitted')
    BY <1>5 DEF AccessHandler, CheckIfBothPermissionGranted, BothGranted
  <2> QED BY <2>3, <2>4
<1>6. CASE AccessCompletion
  <2>1. /\ UNCHANGED <<auth, asked, permitted>>
        /\ mainQueue # <<>> /\ Head(mainQueue).op = "access" /\ mainQueue' = Tail(mainQueue)
    BY <1>6 DEF AccessCompletion, NextBlock, permissionVars
  <2>2. BothGranted' <=> BothGranted
    BY <2>1 DEF BothGranted
  <2>3. CASE Head(mainQueue).access /\ permitted
    BY <1>6, <2>3 DEF AccessCompletion, SetUpSession
  <2>4. CASE ~(Head(mainQueue).access /\ permitted)
    <3>1. asking' = asking
      BY <1>6, <2>4 DEF AccessCompletion
    <3>2. permitted /\ GrantDue => GrantDue'
      BY <2>1, <2>4, GrantStaysDue DEF TypeOK
    <3> QED BY <2>1, <2>2, <3>1, <3>2
  <2> QED BY <2>3, <2>4
<1>7. CASE AddPreviewLayer
  <2>1. GrantDue => GrantDue'
    BY <1>7, GrantStaysDue DEF AddPreviewLayer, NextBlock, TypeOK
  <2>2. UNCHANGED <<auth, asked, permitted, asking>>
    BY <1>7 DEF AddPreviewLayer, permissionVars, viewVars
  <2> QED BY <2>1, <2>2 DEF BothGranted
<1>8. CASE StartSession
  <2>1. [op |-> "preview"] \in MainBlock
    BY DEF MainBlock
  <2>2. GrantDue => GrantDue'
    BY <1>8, <2>1, GrantStaysDue DEF StartSession, TypeOK
  <2>3. UNCHANGED <<auth, asked, permitted, asking>>
    BY <1>8 DEF StartSession, permissionVars, viewVars
  <2> QED BY <2>2, <2>3 DEF BothGranted
<1>9. CASE \/ RemoveAllTempFiles \/ ConfigureSession \/ StartRecording \/ StopRecording
           \/ (\E r \in recordings : FinishRecording(r) \/ RecordingFails(r))
           \/ UNCHANGED vars
  <2>1. UNCHANGED <<auth, asked, permitted, asking, mainQueue>>
    BY <1>9 DEF RemoveAllTempFiles, ConfigureSession, StartRecording, StopRecording,
       FinishRecording, RecordingFails, vars, permissionVars, viewVars, cameraVars
  <2> QED BY <2>1 DEF BothGranted
<1> QED BY Steps, <1>1, <1>2, <1>3, <1>4, <1>5, <1>6, <1>7, <1>8, <1>9

\* A set-up leaves the sessions of all recordings behind.
LEMMA RecordingsLeftBehind ==
  ASSUME TypeOK, RecordingOK, NEW q \in Seq({"clear", "configure"}), NEW found \in BOOLEAN,
         SetUpSession(q, found), UNCHANGED <<recordings, movieOutput, pressed>>
  PROVE  RecordingOK'
<1>1. captureSession' = captureSession + 1 /\ captureSession \in Nat
  BY SetUpTypes DEF TypeOK
<1>2. \A r \in recordings : r.output \in Nat
  BY DEF TypeOK, Recording, SetUps
<1> QED BY <1>1, <1>2 DEF RecordingOK

\* A recording starts while the button is pressed; the release stops those of the session
\* and the output of the moment, and no later session or output is that of another.
LEMMA RecordingKept ==
  ASSUME TypeOK, SetUpOK, RecordingOK, [Next]_vars
  PROVE  RecordingOK'
<1>1. CASE ViewDidLoad
  <2>1. CASE BothGranted
    <3>1. PICK found \in BOOLEAN : SetUpSession(<<"clear">>, found)
      BY <1>1, <2>1 DEF ViewDidLoad
    <3>2. <<"clear">> \in Seq({"clear", "configure"})
      OBVIOUS
    <3> QED BY <1>1, <3>1, <3>2, RecordingsLeftBehind DEF ViewDidLoad
  <2>2. CASE ~BothGranted
    BY <1>1, <2>2 DEF ViewDidLoad, RecordingOK
  <2> QED BY <2>1, <2>2
<1>2. CASE NoController
  BY <1>2 DEF NoController, RecordingOK
<1>3. CASE AccessCompletion
  <2>1. UNCHANGED <<recordings, movieOutput, pressed>>
    BY <1>3 DEF AccessCompletion
  <2>2. CASE \E found \in BOOLEAN : SetUpSession(sessionQueue, found)
    BY <2>1, <2>2, RecordingsLeftBehind DEF TypeOK
  <2>3. CASE UNCHANGED <<captureSession, onView, sessionQueue, noDevice, asking>>
    BY <2>1, <2>3 DEF RecordingOK
  <2> QED BY <1>3, <2>2, <2>3 DEF AccessCompletion
<1>4. CASE ConfigureSession
  <2>1. movieOutput' \in {0, captureSession}
    BY <1>4 DEF ConfigureSession
  <2>2. UNCHANGED <<captureSession, pressed, recordings>>
    BY <1>4 DEF ConfigureSession, viewVars
  <2>3. \A r \in recordings : r.output # 0
    BY DEF TypeOK, Recording, SetUps
  <2> QED BY <2>1, <2>2, <2>3 DEF RecordingOK
<1>5. CASE StartRecording
  <2>1. pressed' /\ captureSession' = captureSession
    BY <1>5 DEF StartRecording, cameraVars
  <2>2. CASE OutputIsReady
    <3>1. PICK file \in FileIds :
            recordings' = recordings \cup
              {[file |-> file, output |-> movieOutput, stopped |-> FALSE]}
      BY <1>5, <2>2 DEF StartRecording
    <3>2. movieOutput \in SetUps /\ movieOutput <= captureSession
      BY <2>2, NilAssumption DEF OutputIsReady, TypeOK, SetUps
    <3> QED BY <2>1, <3>1, <3>2 DEF RecordingOK
  <2>3. CASE ~OutputIsReady
    BY <1>5, <2>1, <2>3 DEF StartRecording, RecordingOK
  <2> QED BY <2>2, <2>3
<1>6. CASE StopRecording
  <2>1. UNCHANGED <<captureSession, movieOutput>>
    BY <1>6 DEF StopRecording
  <2> QED BY <1>6, <2>1, StoppedRecordings DEF RecordingOK
<1>7. ASSUME NEW r \in recordings, FinishRecording(r) \/ RecordingFails(r) PROVE RecordingOK'
  <2>1. recordings' \subseteq recordings /\ UNCHANGED <<captureSession, movieOutput, pressed>>
    BY <1>7 DEF FinishRecording, RecordingFails, viewVars, cameraVars
  <2> QED BY <2>1 DEF RecordingOK
<1>8. CASE \/ \E d \in Devices : AskForAccess(d) \/ AccessHandler(d)
           \/ \E d \in Devices, status \in {"granted", "denied"} : Answer(d, status)
           \/ AddPreviewLayer \/ RemoveAllTempFiles \/ StartSession \/ UNCHANGED vars
  <2>1. UNCHANGED <<recordings, captureSession, movieOutput, pressed>>
    BY <1>8 DEF AskForAccess, AccessHandler, Answer, AddPreviewLayer, RemoveAllTempFiles,
       StartSession, vars, viewVars, cameraVars
  <2> QED BY <2>1 DEF RecordingOK
<1> QED BY Steps, <1>1, <1>2, <1>3, <1>4, <1>5, <1>6, <1>7, <1>8

-----------------------------------------------------------------------------
\* The theorems.

LEMMA Start ==
  Init => Inv
<1> SUFFICES ASSUME Init PROVE Inv
  OBVIOUS
<1> USE BoundsAssumption
<1>1. TypeOK
  <2>1. /\ auth \in [Devices -> {"undetermined", "granted", "denied"}]
        /\ asked \in [Devices -> 0 .. MaxAsks] /\ enabled \in [Devices -> BOOLEAN]
        /\ session \in Sessions
    BY DEF Init, NoSessions, Sessions, SessionState
  <2>2. sessionQueue \in Seq({"clear", "configure"}) /\ mainQueue \in Seq(MainBlock)
    BY DEF Init
  <2>3. /\ permitted \in BOOLEAN /\ shown \in BOOLEAN /\ asking \in BOOLEAN
        /\ exitHidden \in BOOLEAN /\ recordHidden \in BOOLEAN /\ pressed \in BOOLEAN
        /\ lost \in BOOLEAN /\ noDevice \in BOOLEAN
    BY DEF Init
  <2>4. /\ tempFiles = {} /\ videoURL = Nil /\ movieOutput = Nil
        /\ onView = {} /\ recordings = {} /\ captureSession = 0 /\ configuring = 0
    BY DEF Init
  <2>5. layers \in Seq(SetUps)
    BY DEF Init
  <2> QED BY <2>1, <2>2, <2>3, <2>4, <2>5 DEF TypeOK
<1>2. ~ConfigurePending
  BY DEF Init, ConfigurePending
<1> QED
  BY <1>1, <1>2 DEF Init, Inv, FlagOK, CameraNeedsBothPermissions, SetUpOK, PreviewOK,
     ExitUnlessLost, GrantIsNotLost, RecordingOK

LEMMA Step ==
  Inv /\ [Next]_vars => Inv'
BY Types, GrantsLast, SetUpsKept, ExitKept, GrantKept, RecordingKept DEF Inv

\* Inv holds in every state.
THEOREM Invariance == Spec => []Inv
BY Start, Step, PTL DEF Spec

\* Every variable keeps its type: numbers of sessions are of sessions made, blocks to
\* configure find one, and a recording's file exists.
THEOREM TypeCorrect == Spec => []TypeOK
<1>1. Inv => TypeOK
  BY DEF Inv
<1> QED BY <1>1, Invariance, PTL

\* No capture session before both permissions, in whatever order dialogs, handlers and
\* completions come.
THEOREM PermissionsComeFirst == Spec => []CameraNeedsBothPermissions
<1>1. Inv => CameraNeedsBothPermissions
  BY DEF Inv
<1> QED BY <1>1, Invariance, PTL

\* When the queues are done the preview in view is that of the last session, however many
\* set-ups overlapped.
THEOREM PreviewFollows == Spec => []PreviewShowsTheSession
<1>1. Inv => PreviewShowsTheSession
  BY DEF Inv, PreviewOK, PreviewShowsTheSession, SetUpPending, ConfigurePending, PreviewDue
<1> QED BY <1>1, Invariance, PTL

\* The exit button is hidden only while something records, or after a loss.
THEOREM ExitComesBack == Spec => []ExitUnlessLost
<1>1. Inv => ExitUnlessLost
  BY DEF Inv
<1> QED BY <1>1, Invariance, PTL

\* Two answers on two threads cannot both miss the other's permission: while the page
\* that asks shows in spite of both, a handler or a completion that takes it away is due.
THEOREM GrantsAreAnswered == Spec => []GrantIsNotLost
<1>1. Inv => GrantIsNotLost
  BY DEF Inv
<1> QED BY <1>1, Invariance, PTL

\* A recording the user released was told to end, or lost its session to a later set-up,
\* or is of a session whose layer came into the view too late to be removed: nothing but
\* such a layer keeps a session that stopRecording no longer looks at.
THEOREM ReleasedEnds == Spec => []ReleasedIsStopped
<1>1. ASSUME Inv, ~pressed, ~noDevice, ~SetUpPending, NEW r \in recordings,
             ~r.stopped, Retained(r.output)
      PROVE  LeftInView(r.output)
  <2>1. r.output \notin {captureSession, movieOutput} /\ r.output <= captureSession
    BY <1>1 DEF Inv, RecordingOK
  <2>2. r.output \in Nat \ {0} /\ captureSession \in Nat /\ captureSession # 0
    <3>1. r \in Recording /\ captureSession \in 0 .. MaxSetUps
      BY <1>1 DEF Inv, TypeOK
    <3>2. r.output \in Nat \ {0}
      BY <3>1 DEF Recording, SetUps
    <3> QED BY <2>1, <3>1, <3>2
  <2>3. configuring = 0 /\ layers[PreviewLayer] = captureSession
    BY <1>1, <2>2 DEF Inv, PreviewOK, SetUpPending, ConfigurePending
  <2>4. PICK l \in DOMAIN layers : layers[l] = r.output /\ l \in onView \cup {PreviewLayer}
    BY <1>1, <2>1, <2>2, <2>3 DEF Retained
  <2> QED BY <2>1, <2>3, <2>4 DEF LeftInView
<1>2. Inv => ReleasedIsStopped
  BY <1>1 DEF ReleasedIsStopped, Ending
<1> QED BY <1>2, Invariance, PTL
=============================================================================
