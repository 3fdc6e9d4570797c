--------------------------- MODULE PostPublishing ---------------------------
(***************************************************************************)
(* Publishing a recorded video: from the Next button of the recorder to the*)
(* document in Firestore.  MediaViewController opens a posting page, which *)
(* by MediaViewModel and VideoPostRequest uploads the file to Storage,     *)
(* asks its download URL and writes a document.  Every callback runs on    *)
(* main; Firebase decides when, and the user may be elsewhere by then.     *)
(* A document waits in Firestore, which is WriteDelivery here, until its   *)
(* server has settled it, and outlives the process.                        *)
(***************************************************************************)
EXTENDS Naturals, Sequences

CONSTANTS
  MaxTakes,    \* bound: videos recorded
  MaxPages,    \* bound: posting pages opened
  MaxAttempts  \* bound: taps on Post that publish

ASSUME BoundsAssumption == MaxTakes \in Nat /\ MaxPages \in Nat /\ MaxAttempts \in Nat

VARIABLES
  take,       \* the video in the recorder; 0: the recorder is not open
  pages,      \* posting pages ever opened: their video and their button
  top,        \* the page in front; 0: the recorder itself, or nothing
  attempts,   \* calls of publishPost: their page and progress
  storage,    \* attempts whose file is in Storage
  \* Firestore: the documents are named by their attempts
  asked,      \* attempts whose document was given to it
  writes,     \* attempts whose document waits on the device
  documents,  \* attempts whose document the server has taken
  answers,    \* its callbacks that came
  \* the photo library
  photoAuth,  \* PHPhotoLibrary.authorizationStatus
  photoAsks,  \* requestAuthorization calls not answered
  saves,      \* blocks of saveToLibrary on sessionQueue and in performChanges
  \* history
  takes,      \* videos recorded so far
  told,       \* attempts whose failure the user was told
  copies      \* per video, copies put into the photo library

firestoreVars == <<asked, writes, documents, answers>>
firebaseVars == <<storage, firestoreVars>>
photoVars == <<photoAuth, photoAsks, saves, copies>>
pageVars == <<take, pages, top, takes>>
vars == <<pageVars, attempts, firebaseVars, photoVars, told>>

Firestore == INSTANCE WriteDelivery WITH
  Writes <- 1 .. MaxAttempts, queued <- writes, committed <- documents, told <- answers

Stages == {"upload", "locate", "write", "published", "failed", "silent", "killed"}
InFlight == {"upload", "locate", "write"}

PageOf(a) == pages[attempts[a].page]

Init ==
  /\ take = 0 /\ pages = <<>> /\ top = 0 /\ takes = 0
  /\ attempts = <<>> /\ told = {}
  /\ storage = {} /\ Firestore!Init
  /\ photoAuth = "undetermined" /\ photoAsks = <<>> /\ saves = <<>>
  /\ copies = [t \in 1 .. MaxTakes |-> 0]

-----------------------------------------------------------------------------
\* The user.

\* MediaCapture hands over a recording: videoURL is set.
Record ==
  /\ take = 0 /\ takes < MaxTakes
  /\ takes' = takes + 1
  /\ take' = takes'
  /\ UNCHANGED <<pages, top, attempts, firebaseVars, photoVars, told>>

\* navigateToPosting: the video is saved to the library, now or when the user has
\* allowed it, each time; then a new page is pushed.
NavigateToPosting ==
  /\ take # 0 /\ top = 0
  /\ Len(pages) < MaxPages
  /\ pages' = Append(pages, [take |-> take, enabled |-> TRUE])
  /\ top' = Len(pages')
  /\ IF photoAuth = "authorized"
     THEN saves' = Append(saves, take) /\ UNCHANGED photoAsks
     ELSE photoAsks' = Append(photoAsks, take) /\ UNCHANGED saves
  /\ UNCHANGED <<take, takes, attempts, firebaseVars, photoAuth, copies, told>>

\* Back to the recorder: the page is gone from the screen, its upload goes on.
Back ==
  /\ top # 0
  /\ top' = 0
  /\ UNCHANGED <<take, pages, takes, attempts, firebaseVars, photoVars, told>>

\* The exit button of the recorder.
Exit ==
  /\ take # 0 /\ top = 0
  /\ take' = 0
  /\ UNCHANGED <<pages, top, takes, attempts, firebaseVars, photoVars, told>>

\* Mutant: the button stays enabled.
PublishPostEnabled ==
  /\ top # 0 /\ pages[top].enabled
  /\ Len(attempts) < MaxAttempts
  /\ attempts' = Append(attempts, [page |-> top, stage |-> "upload"])
  /\ UNCHANGED <<pageVars, firebaseVars, photoVars, told>>

\* The Post button; videoURL is never nil on a page that was pushed.
PublishPost ==
  /\ top # 0 /\ pages[top].enabled
  /\ Len(attempts) < MaxAttempts
  /\ pages' = [pages EXCEPT ![top].enabled = FALSE]
  /\ attempts' = Append(attempts, [page |-> top, stage |-> "upload"])
  /\ UNCHANGED <<take, top, takes, firebaseVars, photoVars, told>>

-----------------------------------------------------------------------------
\* Callbacks.  self.dismiss and showAlert only reach a page that is in front.

At(a, stage) == a \in DOMAIN attempts /\ attempts[a].stage = stage
Goto(a, stage) == attempts' = [attempts EXCEPT ![a].stage = stage]

Failure(a) == told' = IF top = attempts[a].page THEN told \cup {a} ELSE told

\* putFile ends well: the size is printed and the download URL asked.
UploadEnds(a) ==
  /\ At(a, "upload")
  /\ storage' = storage \cup {a}
  /\ Goto(a, "locate")
  /\ UNCHANGED <<pageVars, firestoreVars, photoVars, told>>

\* Mutant: `return' is missing after failure(error).
UploadFailsAndGoesOn(a) ==
  /\ At(a, "upload")
  /\ Goto(a, "locate")
  /\ Failure(a)
  /\ UNCHANGED <<pageVars, firebaseVars, photoVars>>

\* Mutant: the upload is tried again after failure(error).
UploadFailsAndRetries(a) ==
  /\ At(a, "upload")
  /\ Failure(a)
  /\ UNCHANGED <<pageVars, attempts, firebaseVars, photoVars>>

UploadFails(a) ==
  /\ At(a, "upload")
  /\ Goto(a, "failed")
  /\ Failure(a)
  /\ UNCHANGED <<pageVars, firebaseVars, photoVars>>

\* downloadURL answers: the document is given to Firestore.
LocationFound(a) ==
  /\ At(a, "locate")
  /\ Firestore!Ask(a)
  /\ Goto(a, "write")
  /\ UNCHANGED <<pageVars, storage, photoVars, told>>

\* downloadURL fails (a putFile without metadata ends alike): nobody is told.
LocationFails(a) ==
  /\ At(a, "locate")
  /\ Goto(a, "silent")
  /\ UNCHANGED <<pageVars, firebaseVars, photoVars, told>>

\* Mutant: success is called when the document is queued.
PublishedWhenQueued(a) ==
  /\ At(a, "write")
  /\ Goto(a, "published")
  /\ IF top = attempts[a].page THEN take' = 0 /\ top' = 0 ELSE UNCHANGED <<take, top>>
  /\ pages' = [pages EXCEPT ![attempts[a].page].enabled = TRUE]
  /\ UNCHANGED <<takes, firebaseVars, photoVars, told>>

\* success: the button is enabled again and the page in front dismissed, with the
\* recorder under it.
Published(a) ==
  /\ At(a, "write")
  /\ Firestore!Hear(a, TRUE)
  /\ Goto(a, "published")
  /\ IF top = attempts[a].page THEN take' = 0 /\ top' = 0 ELSE UNCHANGED <<take, top>>
  /\ pages' = [pages EXCEPT ![attempts[a].page].enabled = TRUE]
  /\ UNCHANGED <<takes, storage, photoVars, told>>

\* Firestore gives the document up: failure, though the server may have taken it.
WriteFails(a) ==
  /\ At(a, "write")
  /\ Firestore!Hear(a, FALSE)
  /\ Goto(a, "failed")
  /\ Failure(a)
  /\ UNCHANGED <<pageVars, storage, photoVars>>

\* Firestore and its server settle a document, in this process or a later one.
FirestoreWorks ==
  /\ \E a \in asked : Firestore!Commit(a) \/ Firestore!Leave(a)
  /\ UNCHANGED <<pageVars, attempts, storage, photoVars, told>>

\* The process ends: uploads are lost, documents queued are not.
EndProcess ==
  /\ take' = 0 /\ top' = 0
  /\ attempts' = [a \in DOMAIN attempts |->
       IF attempts[a].stage \in InFlight THEN [attempts[a] EXCEPT !.stage = "killed"]
       ELSE attempts[a]]
  /\ photoAsks' = <<>> /\ saves' = <<>>
  /\ UNCHANGED <<pages, takes, firebaseVars, photoAuth, copies, told>>

-----------------------------------------------------------------------------
\* saveToLibrary.

AnswerPhotoRequest(status) ==
  /\ photoAsks # <<>> /\ photoAuth = "undetermined"
  /\ photoAuth' = status
  /\ UNCHANGED <<pageVars, attempts, firebaseVars, photoAsks, saves, copies, told>>

PhotoHandler ==
  /\ photoAsks # <<>> /\ photoAuth # "undetermined"
  /\ photoAsks' = Tail(photoAsks)
  /\ saves' = IF photoAuth = "authorized" THEN Append(saves, Head(photoAsks)) ELSE saves
  /\ UNCHANGED <<pageVars, attempts, firebaseVars, photoAuth, copies, told>>

\* performChanges saves the video or fails, which is printed.
PerformChanges ==
  /\ saves # <<>>
  /\ saves' = Tail(saves)
  /\ \/ copies' = [copies EXCEPT ![Head(saves)] = @ + 1]
     \/ UNCHANGED copies
  /\ UNCHANGED <<pageVars, attempts, firebaseVars, photoAuth, photoAsks, told>>

-----------------------------------------------------------------------------
User == Record \/ NavigateToPosting \/ Back \/ Exit \/ PublishPost

Firebase ==
  \/ \E a \in 1 .. MaxAttempts :
       \/ UploadEnds(a) \/ UploadFails(a)
       \/ LocationFound(a) \/ LocationFails(a)
       \/ Published(a) \/ WriteFails(a)
  \/ FirestoreWorks

PhotoLibrary ==
  \/ \E status \in {"authorized", "denied"} : AnswerPhotoRequest(status)
  \/ PhotoHandler
  \/ PerformChanges

Next == User \/ Firebase \/ PhotoLibrary \/ EndProcess

Spec == Init /\ [][Next]_vars

-----------------------------------------------------------------------------
Attempts == DOMAIN attempts

PagesTyped ==
  /\ takes \in 0 .. MaxTakes /\ take \in 0 .. takes
  /\ pages \in Seq([take : 1 .. takes, enabled : BOOLEAN]) /\ Len(pages) <= MaxPages
  /\ top \in 0 .. Len(pages) /\ (top # 0 => take = pages[top].take)

AttemptsTyped ==
  /\ attempts \in Seq([page : 1 .. Len(pages), stage : Stages])
  /\ Len(attempts) <= MaxAttempts
  /\ storage \subseteq Attempts /\ asked \subseteq Attempts /\ told \subseteq Attempts

FirestoreTyped ==
  /\ writes \subseteq asked /\ documents \subseteq asked
  /\ answers \subseteq [write : asked, ok : BOOLEAN]

LibraryTyped ==
  /\ photoAuth \in {"undetermined", "authorized", "denied"}
  /\ photoAsks \in Seq(1 .. takes) /\ saves \in Seq(1 .. takes)
  /\ copies \in [1 .. MaxTakes -> Nat]

\* Every variable keeps its type; a page in front shows the video in the recorder.
TypeOK == PagesTyped /\ AttemptsTyped /\ FirestoreTyped /\ LibraryTyped

\* A document the feed will read has its video in Storage, whatever fails and
\* whenever the process dies.
DocumentsHaveVideos == writes \cup documents \subseteq storage

\* "Disable the buttion to prevent duplicate posts": one page publishes once, with
\* its button enabled again by success.
OnePostPerPage ==
  \A a, b \in writes \cup documents : attempts[a].page = attempts[b].page => a = b

\* A post that is not published when the user is told of its failure never will be: no
\* callback goes on with it, and no document waits on the device for a later process.
ToldIsFinal == [][\A a \in told : a \in documents' => a \in documents]_vars

\* When a posting page dismisses the recorder (which Exit and the end of the
\* process do otherwise) the video in it is published.
DismissedIsPublished ==
  [][(top # 0 /\ take # 0 /\ take' = 0 /\ ~EndProcess)
       => \E a \in documents' : PageOf(a).take = take]_vars

\* Nothing enters the photo library without permission, now or later.
SavesAreAuthorized == (saves # <<>> \/ \E t \in 1 .. MaxTakes : copies[t] > 0)
                        => photoAuth = "authorized"

-----------------------------------------------------------------------------
\* What the code does not keep.

\* MediaPostingViewController, failure: what the user is told has failed is not published.
\* Firestore may blame a document for the error of another, or its server refuse what it
\* took before.
ToldIsNotPublished == told \cap documents = {}

\* "Disable the buttion to prevent duplicate posts": a video is posted once.
OnePostPerVideo ==
  \A a, b \in documents : PageOf(a).take = PageOf(b).take => a = b

\* NetworkModel: Failure is for a "Firebase call [that] fails to return data": when
\* one fails with its page in front, the page is told.
FailureIsTold ==
  [][\A a \in Attempts :
       (attempts[a].stage \in InFlight /\ attempts'[a].stage \in {"failed", "silent"}
          /\ top = attempts[a].page)
         => a \in told']_vars
=============================================================================
