------------------------ MODULE PostPublishingProofs ------------------------
(***************************************************************************)
(* What publishing guarantees for any number of videos, pages and attempts,*)
(* whatever fails, wherever the user goes and whenever the process ends.   *)
(*                                                                         *)
(* None of the three properties of documents is inductive: each needs to   *)
(* know how far the attempt is that a file, a document or an alert belongs *)
(* to (StagesAgree).  That a page publishes once needs, besides, that a    *)
(* page whose button is enabled in front of the user has no attempt yet    *)
(* (FrontPageIsFresh): success enables the button again, but only of pages *)
(* the user has left or is leaving.                                        *)
(***************************************************************************)
EXTENDS PostPublishing, DataFacts

-----------------------------------------------------------------------------
\* Attempts as a sequence.

Pages == 1 .. Len(pages)
AttemptsOf(P) == Seq([page : P, stage : Stages])

\* Goto changes the stage of one attempt and nothing else.
LEMMA GotoChanges ==
  ASSUME NEW P, attempts \in AttemptsOf(P), NEW a \in DOMAIN attempts,
         NEW stage \in Stages, Goto(a, stage)
  PROVE  /\ attempts' \in AttemptsOf(P)
         /\ Len(attempts') = Len(attempts)
         /\ DOMAIN attempts' = DOMAIN attempts
         /\ \A b \in DOMAIN attempts : attempts'[b].page = attempts[b].page
         /\ \A b \in DOMAIN attempts : b # a => attempts'[b] = attempts[b]
         /\ attempts'[a].stage = stage
<1>1. attempts[a] \in [page : P, stage : Stages]
  BY SeqIsFunction DEF AttemptsOf
<1>2. attempts' = [attempts EXCEPT ![a] = [attempts[a] EXCEPT !.stage = stage]]
  BY DEF Goto
<1>3. [attempts[a] EXCEPT !.stage = stage] \in [page : P, stage : Stages]
  BY <1>1
<1>4. /\ Len(attempts) \in Nat /\ DOMAIN attempts = 1 .. Len(attempts)
      /\ \A b \in DOMAIN attempts : attempts[b] \in [page : P, stage : Stages]
  BY SeqIsFunction DEF AttemptsOf
<1>5. attempts' \in [1 .. Len(attempts) -> [page : P, stage : Stages]]
  BY <1>2, <1>3, <1>4
<1>6. attempts' \in AttemptsOf(P) /\ Len(attempts') = Len(attempts)
  BY <1>4, <1>5, FunctionIsSeq DEF AttemptsOf
<1> QED BY <1>1, <1>2, <1>4, <1>5, <1>6

\* The end of the process kills the attempts under way and nothing else.
LEMMA EndChanges ==
  ASSUME NEW P, attempts \in AttemptsOf(P), EndProcess
  PROVE  /\ attempts' \in AttemptsOf(P)
         /\ Len(attempts') = Len(attempts)
         /\ DOMAIN attempts' = DOMAIN attempts
         /\ \A b \in DOMAIN attempts :
              /\ attempts'[b].page = attempts[b].page
              /\ attempts'[b].stage = IF attempts[b].stage \in InFlight THEN "killed"
                                      ELSE attempts[b].stage
<1> DEFINE Killed(s) == IF s.stage \in InFlight THEN [s EXCEPT !.stage = "killed"] ELSE s
<1>1. attempts' = [b \in DOMAIN attempts |-> Killed(attempts[b])]
  BY DEF EndProcess
<1>2. /\ Len(attempts) \in Nat /\ DOMAIN attempts = 1 .. Len(attempts)
      /\ \A b \in DOMAIN attempts : attempts[b] \in [page : P, stage : Stages]
  BY SeqIsFunction DEF AttemptsOf
<1>3. \A b \in DOMAIN attempts :
        /\ Killed(attempts[b]) \in [page : P, stage : Stages]
        /\ Killed(attempts[b]).page = attempts[b].page
        /\ Killed(attempts[b]).stage = IF attempts[b].stage \in InFlight THEN "killed"
                                       ELSE attempts[b].stage
  BY <1>2 DEF Stages, InFlight
<1> HIDE DEF Killed
<1>4. attempts' \in [1 .. Len(attempts) -> [page : P, stage : Stages]]
  BY <1>1, <1>2, <1>3
<1>5. attempts' \in AttemptsOf(P) /\ Len(attempts') = Len(attempts)
  BY <1>2, <1>4, FunctionIsSeq DEF AttemptsOf
<1> QED BY <1>1, <1>2, <1>3, <1>5

-----------------------------------------------------------------------------
\* Typing.

LEMMA InitTypes == Init => TypeOK
<1> SUFFICES ASSUME Init PROVE TypeOK
  OBVIOUS
<1> USE BoundsAssumption DEF Init, Attempts, Firestore!Init
<1>1. pages \in Seq([take : 1 .. takes, enabled : BOOLEAN]) /\ Len(pages) = 0
  OBVIOUS
<1>2. attempts \in Seq([page : 1 .. Len(pages), stage : Stages]) /\ Len(attempts) = 0
  OBVIOUS
<1>3. photoAsks \in Seq(1 .. takes) /\ saves \in Seq(1 .. takes)
  OBVIOUS
<1> QED BY <1>1, <1>2, <1>3 DEF TypeOK, PagesTyped, AttemptsTyped, FirestoreTyped, LibraryTyped

\* What the typing says, for use.
PageRecords(n) == [take : 1 .. n, enabled : BOOLEAN]

LEMMA PagesHave ==
  ASSUME PagesTyped
  PROVE  /\ takes \in Nat /\ takes <= MaxTakes /\ take \in 0 .. takes
         /\ pages \in Seq(PageRecords(takes)) /\ Len(pages) \in Nat
         /\ Len(pages) <= MaxPages /\ DOMAIN pages = Pages
         /\ \A p \in Pages : pages[p] \in PageRecords(takes)
         /\ top \in Pages \cup {0}
         /\ top # 0 => take = pages[top].take
<1>1. pages \in Seq(PageRecords(takes))
  BY DEF PagesTyped, PageRecords
<1>2. /\ Len(pages) \in Nat /\ DOMAIN pages = Pages
      /\ \A p \in Pages : pages[p] \in PageRecords(takes)
  BY <1>1, SeqIsFunction DEF Pages
<1> QED BY <1>1, <1>2, BoundsAssumption DEF PagesTyped, Pages

LEMMA AttemptsHave ==
  ASSUME AttemptsTyped
  PROVE  /\ attempts \in AttemptsOf(Pages) /\ Len(attempts) \in Nat
         /\ Len(attempts) <= MaxAttempts /\ Attempts = 1 .. Len(attempts)
         /\ \A a \in Attempts : attempts[a].page \in Pages /\ attempts[a].stage \in Stages
<1>1. attempts \in AttemptsOf(Pages) /\ Len(attempts) <= MaxAttempts
  BY DEF AttemptsTyped, AttemptsOf, Pages
<1>2. /\ Len(attempts) \in Nat /\ DOMAIN attempts = 1 .. Len(attempts)
      /\ \A a \in DOMAIN attempts : attempts[a] \in [page : Pages, stage : Stages]
  BY <1>1, SeqIsFunction DEF AttemptsOf
<1> QED BY <1>1, <1>2 DEF Attempts

\* What of the pages no step undoes.
PagesKept ==
  /\ Len(pages') \in Nat /\ Len(pages) <= Len(pages') /\ takes <= takes' /\ takes' \in Nat
  /\ \A p \in Pages : pages'[p].take = pages[p].take

\* success leaves every page its video.
LEMMA PublishedPages ==
  ASSUME PagesTyped, AttemptsTyped, NEW a \in 1 .. MaxAttempts, Published(a)
  PROVE  /\ PagesTyped' /\ PagesKept /\ Len(pages') = Len(pages)
         /\ \A p \in Pages : p # attempts[a].page => pages'[p] = pages[p]
<1> DEFINE p == attempts[a].page
           new == [pages[p] EXCEPT !.enabled = TRUE]
<1>1. p \in Pages
  BY AttemptsHave DEF Published, At, Attempts
<1>2. pages' = [pages EXCEPT ![p] = new]
  BY DEF Published
<1>3. new \in PageRecords(takes) /\ new.take = pages[p].take
  BY <1>1, PagesHave DEF PageRecords
<1> HIDE DEF p, new
<1>4. /\ pages' \in Seq(PageRecords(takes)) /\ Len(pages') = Len(pages)
      /\ \A q \in Pages : q # p => pages'[q] = pages[q]
      /\ \A q \in Pages : pages'[q].take = pages[q].take
  BY <1>1, <1>2, <1>3, PagesHave, ExceptSeq
<1>5. /\ take' \in 0 .. takes /\ top' \in 0 .. Len(pages)
      /\ top' # 0 => top' \in Pages /\ take' = pages'[top'].take
  <2>1. \/ take' = 0 /\ top' = 0
        \/ take' = take /\ top' = top
    BY DEF Published
  <2> QED BY <2>1, <1>4, PagesHave DEF Pages
<1>6. takes' = takes
  BY DEF Published
<1>7. PagesTyped'
  BY <1>4, <1>5, <1>6, PagesHave DEF PagesTyped, PageRecords
<1>8. PagesKept
  BY <1>4, <1>6, PagesHave DEF PagesKept
<1> QED BY <1>4, <1>7, <1>8 DEF p

\* The Post button leaves every page its video and disables its own.
LEMMA PublishPostPages ==
  ASSUME PagesTyped, PublishPost
  PROVE  /\ PagesTyped' /\ PagesKept /\ Len(pages') = Len(pages)
         /\ top \in Pages /\ pages'[top].enabled = FALSE
<1> DEFINE new == [pages[top] EXCEPT !.enabled = FALSE]
<1>1. top \in Pages
  BY PagesHave DEF PublishPost
<1>2. pages' = [pages EXCEPT ![top] = new]
  BY DEF PublishPost
<1>3. new \in PageRecords(takes) /\ new.take = pages[top].take /\ new.enabled = FALSE
  BY <1>1, PagesHave DEF PageRecords
<1> HIDE DEF new
<1>4. /\ pages' \in Seq(PageRecords(takes)) /\ Len(pages') = Len(pages)
      /\ pages'[top] = new
      /\ \A q \in Pages : pages'[q].take = pages[q].take
  BY <1>1, <1>2, <1>3, PagesHave, ExceptSeq
<1>5. takes' = takes /\ take' = take /\ top' = top
  BY DEF PublishPost
<1>6. PagesTyped'
  BY <1>1, <1>4, <1>5, PagesHave DEF PagesTyped, PageRecords, Pages
<1>7. PagesKept
  BY <1>4, <1>5, PagesHave DEF PagesKept
<1> QED BY <1>1, <1>3, <1>4, <1>6, <1>7

\* A page pushed is new and enabled.
LEMMA PushedPages ==
  ASSUME PagesTyped, NavigateToPosting
  PROVE  /\ PagesTyped' /\ PagesKept /\ Len(pages') = Len(pages) + 1
         /\ take \in 1 .. takes /\ top' = Len(pages) + 1
<1> DEFINE new == [take |-> take, enabled |-> TRUE]
<1>1. new \in PageRecords(takes) /\ new.take = take /\ take \in 1 .. takes
  BY PagesHave DEF NavigateToPosting, PageRecords
<1>2. pages' = Append(pages, new)
  BY DEF NavigateToPosting
<1> HIDE DEF new
<1>3. /\ pages' \in Seq(PageRecords(takes)) /\ Len(pages') = Len(pages) + 1
      /\ pages'[Len(pages) + 1] = new
      /\ \A q \in Pages : pages'[q] = pages[q]
  BY <1>1, <1>2, PagesHave, AppendSeq
<1>4. takes' = takes /\ take' = take /\ top' = Len(pages') /\ Len(pages) < MaxPages
  BY DEF NavigateToPosting
<1>5. PagesTyped'
  BY <1>1, <1>3, <1>4, PagesHave, BoundsAssumption DEF PagesTyped, PageRecords
<1>6. PagesKept
  BY <1>3, <1>4, PagesHave DEF PagesKept
<1> QED BY <1>1, <1>3, <1>4, <1>5, <1>6

\* A recording is a video of its own.
LEMMA RecordPages ==
  ASSUME PagesTyped, Record
  PROVE  PagesTyped' /\ PagesKept
<1>1. /\ takes' = takes + 1 /\ take' = takes' /\ takes < MaxTakes /\ take = 0
      /\ pages' = pages /\ top' = top
  BY DEF Record
<1>2. top = 0
  BY <1>1, PagesHave DEF PageRecords
<1>3. PageRecords(takes) \subseteq PageRecords(takes')
  BY <1>1, PagesHave DEF PageRecords
<1>4. pages' \in Seq(PageRecords(takes'))
  BY <1>1, <1>3, PagesHave, WiderSeq
<1>5. PagesTyped'
  BY <1>1, <1>2, <1>4, PagesHave, BoundsAssumption DEF PagesTyped, PageRecords
<1>6. PagesKept
  BY <1>1, PagesHave DEF PagesKept
<1> QED BY <1>5, <1>6

\* No step breaks the typing of the pages, or takes anything back from them.
LEMMA PagesStep == PagesTyped /\ AttemptsTyped /\ [Next]_vars => PagesTyped' /\ PagesKept
<1> SUFFICES ASSUME PagesTyped, AttemptsTyped, [Next]_vars PROVE PagesTyped' /\ PagesKept
  OBVIOUS
<1>0. PagesTyped
  OBVIOUS
<1>1. CASE Record
  BY <1>0, <1>1, RecordPages
<1>2. CASE NavigateToPosting
  BY <1>0, <1>2, PushedPages
<1>3. CASE Back \/ Exit \/ EndProcess
  <2>1. /\ pages' = pages /\ takes' = takes /\ take' \in {0, take} /\ top' = 0
    BY <1>3 DEF Back, Exit, EndProcess
  <2> QED BY <2>1, PagesHave DEF PagesTyped, PagesKept
<1>4. CASE PublishPost
  BY <1>0, <1>4, PublishPostPages
<1>5. ASSUME NEW a \in 1 .. MaxAttempts, Published(a) PROVE PagesTyped' /\ PagesKept
  BY <1>5, PublishedPages
<1>6. CASE UNCHANGED pageVars
  BY <1>6, PagesHave DEF pageVars, PagesTyped, PagesKept
<1>7. ASSUME NEW a \in 1 .. MaxAttempts,
             \/ UploadEnds(a) \/ UploadFails(a) \/ LocationFound(a) \/ LocationFails(a)
             \/ WriteFails(a)
      PROVE  UNCHANGED pageVars
  BY <1>7 DEF UploadEnds, UploadFails, LocationFound, LocationFails, WriteFails
<1>8. CASE FirestoreWorks \/ PhotoLibrary \/ UNCHANGED vars
  BY <1>6, <1>8
     DEF FirestoreWorks, PhotoLibrary, AnswerPhotoRequest, PhotoHandler, PerformChanges, vars
<1> QED BY <1>1, <1>2, <1>3, <1>4, <1>5, <1>6, <1>7, <1>8 DEF Next, User, Firebase

\* Attempts keep their pages, and the sets of attempts their typing, when the
\* sequence of attempts is kept or grows.
LEMMA SetsKeepType ==
  ASSUME AttemptsTyped, PagesKept,
         attempts' \in AttemptsOf(Pages'), Len(attempts') <= MaxAttempts,
         Attempts \subseteq Attempts',
         storage' \cup asked' \cup told' \subseteq Attempts'
  PROVE  AttemptsTyped'
BY DEF AttemptsTyped, AttemptsOf, Pages

\* The pages grow, and attempts at the old ones are attempts at the new ones.
LEMMA WiderAttempts ==
  ASSUME PagesKept, Len(pages) \in Nat, NEW q \in AttemptsOf(Pages)
  PROVE  q \in AttemptsOf(Pages')
<1>1. Pages \subseteq Pages'
  BY DEF PagesKept, Pages
<1>2. [page : Pages, stage : Stages] \subseteq [page : Pages', stage : Stages]
  BY <1>1
<1> QED BY <1>2, WiderSeq DEF AttemptsOf

\* A step of Firebase for one attempt.
Progress(a) ==
  \/ UploadEnds(a) \/ UploadFails(a) \/ LocationFound(a) \/ LocationFails(a)
  \/ Published(a) \/ WriteFails(a)

LEMMA ProgressAttempts ==
  ASSUME PagesTyped, AttemptsTyped, PagesKept, NEW a \in 1 .. MaxAttempts, Progress(a)
  PROVE  /\ AttemptsTyped' /\ a \in Attempts /\ Attempts' = Attempts
         /\ \A b \in Attempts : attempts'[b].page = attempts[b].page
         /\ \A b \in Attempts : b # a => attempts'[b] = attempts[b]
<1>1. PICK from, to \in Stages : At(a, from) /\ Goto(a, to)
  BY DEF Progress, UploadEnds, UploadFails, LocationFound, LocationFails, Published, WriteFails,
     Stages
<1>2. a \in Attempts /\ attempts \in AttemptsOf(Pages) /\ Len(attempts) <= MaxAttempts
  BY <1>1, AttemptsHave DEF At, Attempts
<1>3. /\ attempts' \in AttemptsOf(Pages) /\ Len(attempts') = Len(attempts)
      /\ Attempts' = Attempts
      /\ \A b \in Attempts : attempts'[b].page = attempts[b].page
      /\ \A b \in Attempts : b # a => attempts'[b] = attempts[b]
  BY <1>1, <1>2, GotoChanges DEF Attempts
<1>4. attempts' \in AttemptsOf(Pages')
  BY <1>3, PagesHave, WiderAttempts
<1>5. storage' \cup asked' \cup told' \subseteq Attempts
  <2>1. storage \cup asked \cup told \cup {a} \subseteq Attempts
    BY <1>2 DEF AttemptsTyped
  <2>2. /\ storage' \in {storage, storage \cup {a}}
        /\ asked' \in {asked, asked \cup {a}}
        /\ told' \in {told, told \cup {a}}
    BY DEF Progress, UploadEnds, UploadFails, LocationFound, LocationFails, Published, WriteFails,
       Failure, firebaseVars, firestoreVars, Firestore!Ask, Firestore!Hear
  <2> QED BY <2>1, <2>2
<1> QED BY <1>2, <1>3, <1>4, <1>5, SetsKeepType

\* The Post button begins an attempt for the page in front.
LEMMA PublishPostAttempts ==
  ASSUME PagesTyped, AttemptsTyped, PublishPost
  PROVE  /\ AttemptsTyped' /\ Attempts' = Attempts \cup {Len(attempts) + 1}
         /\ Len(attempts) + 1 \notin Attempts
         /\ attempts'[Len(attempts) + 1] = [page |-> top, stage |-> "upload"]
         /\ \A b \in Attempts : attempts'[b] = attempts[b]
<1> DEFINE new == [page |-> top, stage |-> "upload"]
<1>1. /\ top \in Pages /\ PagesKept /\ Len(pages) \in Nat
  BY PublishPostPages, PagesHave
<1>2. new \in [page : Pages, stage : Stages]
  BY <1>1 DEF Stages
<1>3. attempts' = Append(attempts, new)
  BY DEF PublishPost
<1>4. attempts \in Seq([page : Pages, stage : Stages]) /\ Len(attempts) \in Nat
      /\ Attempts = 1 .. Len(attempts)
  BY AttemptsHave DEF AttemptsOf
<1> HIDE DEF new
<1>5. /\ attempts' \in Seq([page : Pages, stage : Stages])
      /\ Len(attempts') = Len(attempts) + 1
      /\ attempts'[Len(attempts) + 1] = new
      /\ \A b \in Attempts : attempts'[b] = attempts[b]
  BY <1>2, <1>3, <1>4, AppendSeq DEF Attempts
<1>6. DOMAIN attempts' = 1 .. Len(attempts')
  BY <1>5, SeqIsFunction
<1>7. Attempts' = Attempts \cup {Len(attempts) + 1} /\ Len(attempts) + 1 \notin Attempts
  BY <1>4, <1>5, <1>6 DEF Attempts
<1>8. attempts' \in AttemptsOf(Pages')
  BY <1>1, <1>5, WiderAttempts DEF AttemptsOf
<1>9. storage' \cup asked' \cup told' \subseteq Attempts
  BY DEF AttemptsTyped, PublishPost, firebaseVars, firestoreVars
<1>10. Len(attempts') <= MaxAttempts
  BY <1>4, <1>5, BoundsAssumption DEF PublishPost
<1> QED BY <1>1, <1>5, <1>7, <1>8, <1>9, <1>10, SetsKeepType DEF new

\* The end of the process, for the attempts.
LEMMA EndAttempts ==
  ASSUME PagesTyped, AttemptsTyped, PagesKept, EndProcess
  PROVE  /\ AttemptsTyped' /\ Attempts' = Attempts
         /\ \A b \in Attempts :
              /\ attempts'[b].page = attempts[b].page
              /\ attempts'[b].stage = IF attempts[b].stage \in InFlight THEN "killed"
                                      ELSE attempts[b].stage
<1>1. attempts \in AttemptsOf(Pages) /\ Len(attempts) <= MaxAttempts
  BY AttemptsHave
<1>2. /\ attempts' \in AttemptsOf(Pages) /\ Len(attempts') = Len(attempts)
      /\ Attempts' = Attempts
      /\ \A b \in Attempts :
           /\ attempts'[b].page = attempts[b].page
           /\ attempts'[b].stage = IF attempts[b].stage \in InFlight THEN "killed"
                                   ELSE attempts[b].stage
  BY <1>1, EndChanges DEF Attempts
<1>3. attempts' \in AttemptsOf(Pages')
  BY <1>2, PagesHave, WiderAttempts
<1>4. storage' \cup asked' \cup told' \subseteq Attempts
  BY DEF EndProcess, firebaseVars, firestoreVars, AttemptsTyped
<1> QED BY <1>1, <1>2, <1>3, <1>4, SetsKeepType

\* Every other step leaves the attempts alone.
Elsewhere == Record \/ NavigateToPosting \/ Back \/ Exit \/ PhotoLibrary \/ UNCHANGED vars

LEMMA ElsewhereAttempts ==
  ASSUME Elsewhere
  PROVE  UNCHANGED <<attempts, firebaseVars, told>>
<1>1. CASE Record \/ NavigateToPosting \/ Back \/ Exit
  BY <1>1 DEF Record, NavigateToPosting, Back, Exit
<1>2. CASE PhotoLibrary
  BY <1>2 DEF PhotoLibrary, AnswerPhotoRequest, PhotoHandler, PerformChanges
<1>3. CASE UNCHANGED vars
  BY <1>3 DEF vars
<1> QED BY <1>1, <1>2, <1>3 DEF Elsewhere

\* The steps there are.
LEMMA Steps ==
  ASSUME [Next]_vars
  PROVE  \/ Elsewhere \/ PublishPost \/ EndProcess \/ FirestoreWorks
         \/ \E a \in 1 .. MaxAttempts : Progress(a)
BY DEF Next, User, Firebase, Elsewhere, Progress

LEMMA AttemptsStep == PagesTyped /\ AttemptsTyped /\ [Next]_vars => AttemptsTyped'
<1> SUFFICES ASSUME PagesTyped, AttemptsTyped, [Next]_vars PROVE AttemptsTyped'
  OBVIOUS
<1>0. PagesKept /\ Len(pages) \in Nat
  BY PagesStep, PagesHave
<1>1. CASE Elsewhere \/ FirestoreWorks
  <2>1. attempts' = attempts /\ Attempts' = Attempts
    BY <1>1, ElsewhereAttempts DEF FirestoreWorks, Attempts
  <2>2. storage' \cup asked' \cup told' \subseteq Attempts
    BY <1>1, ElsewhereAttempts
       DEF AttemptsTyped, FirestoreWorks, firebaseVars, firestoreVars, Attempts,
           Firestore!Commit, Firestore!Leave
  <2>3. attempts' \in AttemptsOf(Pages')
    BY <1>0, <2>1, AttemptsHave, WiderAttempts
  <2> QED BY <1>0, <2>1, <2>2, <2>3, AttemptsHave, SetsKeepType
<1>2. CASE PublishPost
  BY <1>2, PublishPostAttempts
<1>3. CASE EndProcess
  BY <1>0, <1>3, EndAttempts
<1>4. ASSUME NEW a \in 1 .. MaxAttempts, Progress(a) PROVE AttemptsTyped'
  BY <1>0, <1>4, ProgressAttempts
<1> QED BY <1>1, <1>2, <1>3, <1>4, Steps

LEMMA LibraryStep == PagesTyped /\ LibraryTyped /\ PagesKept /\ [Next]_vars => LibraryTyped'
<1> SUFFICES ASSUME PagesTyped, LibraryTyped, PagesKept, [Next]_vars PROVE LibraryTyped'
  OBVIOUS
<1>1. 1 .. takes \subseteq 1 .. takes' /\ 1 .. takes \subseteq 1 .. MaxTakes
  BY PagesHave, BoundsAssumption DEF PagesKept
<1>2. photoAsks \in Seq(1 .. takes) /\ saves \in Seq(1 .. takes)
  BY DEF LibraryTyped
<1>3. SUFFICES /\ photoAuth' \in {"undetermined", "authorized", "denied"}
               /\ photoAsks' \in Seq(1 .. takes) /\ saves' \in Seq(1 .. takes)
               /\ copies' \in [1 .. MaxTakes -> Nat]
  BY <1>1, WiderSeq DEF LibraryTyped
<1>4. CASE UNCHANGED photoVars
  BY <1>4 DEF photoVars, LibraryTyped
<1>5. CASE NavigateToPosting
  <2>1. take \in 1 .. takes
    BY <1>5, PushedPages
  <2>2. Append(photoAsks, take) \in Seq(1 .. takes) /\ Append(saves, take) \in Seq(1 .. takes)
    BY <1>2, <2>1, AppendSeq
  <2>3. /\ photoAsks' \in {photoAsks, Append(photoAsks, take)}
        /\ saves' \in {saves, Append(saves, take)}
        /\ photoAuth' = photoAuth /\ copies' = copies
    BY <1>5 DEF NavigateToPosting
  <2> QED BY <1>2, <2>2, <2>3 DEF LibraryTyped
<1>6. ASSUME NEW status \in {"authorized", "denied"}, AnswerPhotoRequest(status)
      PROVE  /\ photoAuth' \in {"undetermined", "authorized", "denied"}
             /\ photoAsks' \in Seq(1 .. takes) /\ saves' \in Seq(1 .. takes)
             /\ copies' \in [1 .. MaxTakes -> Nat]
  BY <1>6 DEF AnswerPhotoRequest, LibraryTyped
<1>7. CASE PhotoHandler
  <2>1. Tail(photoAsks) \in Seq(1 .. takes) /\ Head(photoAsks) \in 1 .. takes
    BY <1>2, <1>7, TailSeq DEF PhotoHandler
  <2>2. Append(saves, Head(photoAsks)) \in Seq(1 .. takes)
    BY <1>2, <2>1, AppendSeq
  <2>3. /\ photoAsks' = Tail(photoAsks)
        /\ saves' \in {saves, Append(saves, Head(photoAsks))}
        /\ photoAuth' = photoAuth /\ copies' = copies
    BY <1>7 DEF PhotoHandler
  <2> QED BY <1>2, <2>1, <2>2, <2>3 DEF LibraryTyped
<1>8. CASE PerformChanges
  <2>1. Tail(saves) \in Seq(1 .. takes) /\ Head(saves) \in 1 .. MaxTakes
    BY <1>1, <1>2, <1>8, TailSeq DEF PerformChanges
  <2>2. copies' \in [1 .. MaxTakes -> Nat]
    BY <1>8, <2>1 DEF PerformChanges, LibraryTyped
  <2> QED BY <1>2, <1>8, <2>1, <2>2 DEF PerformChanges, LibraryTyped
<1>9. CASE EndProcess
  BY <1>9 DEF EndProcess, LibraryTyped
<1>10. CASE Record \/ Back \/ Exit \/ PublishPost \/ UNCHANGED vars
  BY <1>4, <1>10 DEF Record, Back, Exit, PublishPost, vars
<1>11. ASSUME NEW a \in 1 .. MaxAttempts, Progress(a)
       PROVE  UNCHANGED photoVars
  BY <1>11 DEF Progress, UploadEnds, UploadFails, LocationFound, LocationFails, Published,
     WriteFails
<1>12. CASE FirestoreWorks
  BY <1>4, <1>12 DEF FirestoreWorks
<1> QED BY <1>4, <1>5, <1>6, <1>7, <1>8, <1>9, <1>10, <1>11, <1>12, Steps
    DEF Elsewhere, PhotoLibrary

\* What each step is to Firestore.
LEMMA FirestoreSteps ==
  ASSUME [Next]_vars
  PROVE  \/ UNCHANGED firestoreVars
         \/ \E a \in 1 .. MaxAttempts, ok \in BOOLEAN : Firestore!Ask(a) \/ Firestore!Hear(a, ok)
         \/ \E a \in asked : Firestore!Commit(a) \/ Firestore!Leave(a)
<1>1. CASE Elsewhere
  BY <1>1, ElsewhereAttempts DEF firebaseVars
<1>2. CASE PublishPost \/ EndProcess
  BY <1>2 DEF PublishPost, EndProcess, firebaseVars
<1>3. CASE FirestoreWorks
  BY <1>3 DEF FirestoreWorks
<1>4. CASE \E a \in 1 .. MaxAttempts : Progress(a)
  BY <1>4 DEF Progress, UploadEnds, UploadFails, LocationFound, LocationFails, Published,
     WriteFails, firebaseVars
<1> QED BY <1>1, <1>2, <1>3, <1>4, Steps

LEMMA FirestoreStep == FirestoreTyped /\ [Next]_vars => FirestoreTyped'
BY FirestoreSteps
   DEF FirestoreTyped, firestoreVars, Firestore!Ask, Firestore!Hear, Firestore!Commit,
       Firestore!Leave

LEMMA TypeStep == TypeOK /\ [Next]_vars => TypeOK'
BY PagesStep, AttemptsStep, FirestoreStep, LibraryStep DEF TypeOK

\* Every variable keeps its type; a page in front shows the video in the recorder.
THEOREM TypeCorrect == Spec => []TypeOK
<1> QED BY InitTypes, TypeStep, PTL DEF Spec

-----------------------------------------------------------------------------
\* The documents.

\* How far the attempt is that a file, a document or an alert belongs to.
StagesAgree ==
  \A a \in Attempts :
    /\ a \in asked => attempts[a].stage \in {"write", "published", "failed", "killed"}
    /\ a \in asked \/ attempts[a].stage \in {"locate", "write"} => a \in storage
    /\ a \in told => attempts[a].stage = "failed" /\ a \notin writes

OneAttemptPerPage ==
  \A a, b \in Attempts : attempts[a].page = attempts[b].page => a = b

\* A page in front whose button is enabled has not published.
FrontPageIsFresh ==
  (top # 0 /\ pages[top].enabled) => \A a \in Attempts : attempts[a].page # top

Inv == TypeOK /\ StagesAgree /\ OneAttemptPerPage /\ FrontPageIsFresh

LEMMA InitInv == Init => Inv
BY InitTypes
   DEF Init, Inv, Attempts, StagesAgree, OneAttemptPerPage, FrontPageIsFresh

LEMMA StagesStep ==
  ASSUME TypeOK, StagesAgree, [Next]_vars
  PROVE  StagesAgree'
<1>0. /\ PagesTyped /\ AttemptsTyped /\ PagesKept
      /\ storage \cup asked \cup writes \cup documents \cup told \subseteq Attempts
  BY PagesStep DEF TypeOK, AttemptsTyped, FirestoreTyped
<1>1. CASE Elsewhere
  BY <1>1, ElsewhereAttempts DEF StagesAgree, Attempts, firebaseVars, firestoreVars
<1>2. CASE PublishPost
  <2>1. UNCHANGED <<storage, asked, writes, documents, told>>
    BY <1>2 DEF PublishPost, firebaseVars, firestoreVars
  <2> QED BY <1>0, <1>2, <2>1, PublishPostAttempts DEF StagesAgree
<1>3. CASE EndProcess
  <2>1. UNCHANGED <<storage, asked, writes, documents, told>>
    BY <1>3 DEF EndProcess, firebaseVars, firestoreVars
  <2> QED BY <1>0, <1>3, <2>1, EndAttempts DEF StagesAgree, InFlight
<1>4. CASE FirestoreWorks
  BY <1>4 DEF FirestoreWorks, Firestore!Commit, Firestore!Leave, StagesAgree, Attempts
<1>5. ASSUME NEW a \in 1 .. MaxAttempts, Progress(a)
      PROVE  StagesAgree'
  <2>1. /\ a \in Attempts /\ Attempts' = Attempts
        /\ \A b \in Attempts : b # a => attempts'[b] = attempts[b]
    BY <1>0, <1>5, ProgressAttempts
  <2>2. ASSUME NEW to \in Stages, NEW from, At(a, from), Goto(a, to)
        PROVE  attempts[a].stage = from /\ attempts'[a].stage = to
    BY <1>0, <2>1, <2>2, AttemptsHave, GotoChanges DEF At, Attempts
  <2> USE DEF firebaseVars, firestoreVars
  <2>3. CASE UploadEnds(a)
    <3>1. attempts[a].stage = "upload" /\ attempts'[a].stage = "locate"
      BY <2>2, <2>3 DEF UploadEnds, Stages
    <3> QED BY <2>1, <2>3, <3>1 DEF UploadEnds, StagesAgree
  <2>4. CASE UploadFails(a)
    <3>1. attempts[a].stage = "upload" /\ attempts'[a].stage = "failed"
      BY <2>2, <2>4 DEF UploadFails, Stages
    <3>2. a \notin writes
      BY <2>1, <3>1 DEF StagesAgree, TypeOK, FirestoreTyped
    <3> QED BY <2>1, <2>4, <3>1, <3>2 DEF UploadFails, Failure, StagesAgree
  <2>5. CASE LocationFound(a)
    <3>1. attempts[a].stage = "locate" /\ attempts'[a].stage = "write"
      BY <2>2, <2>5 DEF LocationFound, Stages
    <3>2. /\ asked' = asked \cup {a} /\ writes' = writes \cup {a}
          /\ UNCHANGED <<storage, documents, told>>
      BY <2>5 DEF LocationFound, Firestore!Ask
    <3> QED BY <2>1, <3>1, <3>2 DEF StagesAgree
  <2>6. CASE LocationFails(a)
    <3>1. attempts[a].stage = "locate" /\ attempts'[a].stage = "silent"
      BY <2>2, <2>6 DEF LocationFails, Stages
    <3> QED BY <2>1, <2>6, <3>1 DEF LocationFails, StagesAgree
  <2>7. CASE Published(a)
    <3>1. attempts[a].stage = "write" /\ attempts'[a].stage = "published"
      BY <2>2, <2>7 DEF Published, Stages
    <3> QED BY <2>1, <2>7, <3>1 DEF Published, Firestore!Hear, StagesAgree
  <2>8. CASE WriteFails(a)
    <3>1. attempts[a].stage = "write" /\ attempts'[a].stage = "failed"
      BY <2>2, <2>8 DEF WriteFails, Stages
    <3>2. /\ a \notin writes
          /\ UNCHANGED <<storage, asked, writes, documents>>
      BY <2>8 DEF WriteFails, Firestore!Hear
    <3> QED BY <2>1, <2>8, <3>1, <3>2 DEF WriteFails, Failure, StagesAgree
  <2> QED BY <1>5, <2>3, <2>4, <2>5, <2>6, <2>7, <2>8 DEF Progress
<1> QED BY <1>1, <1>2, <1>3, <1>4, <1>5, Steps

LEMMA OnceStep ==
  ASSUME TypeOK, OneAttemptPerPage, FrontPageIsFresh, [Next]_vars
  PROVE  OneAttemptPerPage' /\ FrontPageIsFresh'
<1>0. PagesTyped /\ AttemptsTyped /\ PagesKept
  BY PagesStep DEF TypeOK
<1>1. CASE NavigateToPosting
  <2>1. top' = Len(pages) + 1 /\ \A a \in Attempts : attempts[a].page \in Pages
    BY <1>0, <1>1, PushedPages, AttemptsHave
  <2>2. Len(pages) + 1 \notin Pages
    BY <1>0, PagesHave DEF Pages
  <2>3. attempts' = attempts
    BY <1>1 DEF NavigateToPosting
  <2> QED BY <2>1, <2>2, <2>3 DEF OneAttemptPerPage, FrontPageIsFresh, Attempts
<1>2. CASE Record \/ Back \/ Exit \/ PhotoLibrary \/ UNCHANGED vars
  <2>1. attempts' = attempts /\ pages' = pages /\ top' \in {0, top}
    BY <1>2 DEF Record, Back, Exit, PhotoLibrary, AnswerPhotoRequest, PhotoHandler,
       PerformChanges, vars, pageVars
  <2> QED BY <2>1 DEF OneAttemptPerPage, FrontPageIsFresh, Attempts
<1>3. CASE PublishPost
  <2>1. /\ \A b \in Attempts : attempts[b].page # top
        /\ top' = top
    BY <1>3 DEF PublishPost, FrontPageIsFresh
  <2>2. /\ Attempts' = Attempts \cup {Len(attempts) + 1}
        /\ attempts'[Len(attempts) + 1].page = top
        /\ \A b \in Attempts : attempts'[b].page = attempts[b].page
    BY <1>0, <1>3, PublishPostAttempts
  <2>3. OneAttemptPerPage'
    BY <2>1, <2>2 DEF OneAttemptPerPage
  <2>4. FrontPageIsFresh'
    BY <1>0, <1>3, <2>1, PublishPostPages DEF FrontPageIsFresh
  <2> QED BY <2>3, <2>4
<1>4. CASE EndProcess
  <2>1. top' = 0
    BY <1>4 DEF EndProcess
  <2> QED BY <1>0, <1>4, <2>1, EndAttempts DEF OneAttemptPerPage, FrontPageIsFresh
<1>5. ASSUME NEW a \in 1 .. MaxAttempts, Progress(a)
      PROVE  OneAttemptPerPage' /\ FrontPageIsFresh'
  <2>1. /\ Attempts' = Attempts
        /\ \A b \in Attempts : attempts'[b].page = attempts[b].page
    BY <1>0, <1>5, ProgressAttempts
  <2>2. top' = 0 \/ (top' = top /\ pages'[top] = pages[top]) \/ top = 0
    <3>1. CASE Published(a)
      <4>1. top' = 0 \/ (top' = top /\ top # attempts[a].page)
        BY <3>1 DEF Published
      <4> QED BY <1>0, <3>1, <4>1, PublishedPages, PagesHave
    <3>2. CASE ~Published(a)
      BY <1>5, <3>2 DEF Progress, UploadEnds, UploadFails, LocationFound, LocationFails,
         WriteFails, pageVars
    <3> QED BY <3>1, <3>2
  <2>3. top = 0 => top' = 0
    BY <1>5 DEF Progress, UploadEnds, UploadFails, LocationFound, LocationFails, Published,
       WriteFails, pageVars
  <2> QED BY <2>1, <2>2, <2>3 DEF OneAttemptPerPage, FrontPageIsFresh
<1>6. CASE FirestoreWorks
  BY <1>6 DEF FirestoreWorks, pageVars, OneAttemptPerPage, FrontPageIsFresh, Attempts
<1> QED BY <1>1, <1>2, <1>3, <1>4, <1>5, <1>6, Steps DEF Elsewhere

LEMMA InvStep == Inv /\ [Next]_vars => Inv'
BY TypeStep, StagesStep, OnceStep DEF Inv

LEMMA Invariance == Spec => []Inv
<1> QED BY InitInv, InvStep, PTL DEF Spec

\* A document Firestore has or will have has its video in Storage, in the process
\* that wrote it and in any later one that sends it.
THEOREM VideosComeFirst == Spec => []DocumentsHaveVideos
<1>1. Inv => DocumentsHaveVideos
  BY DEF Inv, TypeOK, AttemptsTyped, FirestoreTyped, StagesAgree, DocumentsHaveVideos
<1> QED BY <1>1, Invariance, PTL

\* A posting page publishes at most once, in the face of its button being enabled
\* again by success and of documents sent by a later process.
THEOREM PagesPublishOnce == Spec => []OnePostPerPage
<1>1. Inv => OnePostPerPage
  BY DEF Inv, TypeOK, AttemptsTyped, FirestoreTyped, OneAttemptPerPage, OnePostPerPage
<1> QED BY <1>1, Invariance, PTL

\* An attempt whose failure was told has no document waiting, and only what waits is
\* committed: its document does not come afterwards.
THEOREM FailuresAreFinal == Spec => ToldIsFinal
<1>1. Inv /\ [Next]_vars => [\A a \in told : a \in documents' => a \in documents]_vars
  <2> SUFFICES ASSUME Inv, [Next]_vars, NEW a \in told, a \in documents' PROVE a \in documents
    OBVIOUS
  <2>1. a \notin writes
    BY DEF Inv, TypeOK, AttemptsTyped, StagesAgree
  <2>2. \A b : Firestore!Commit(b) => b \in writes /\ documents' = documents \cup {b}
    BY DEF Firestore!Commit
  <2> QED BY <2>1, <2>2, FirestoreSteps
      DEF firestoreVars, Firestore!Ask, Firestore!Hear, Firestore!Leave
<1> QED BY <1>1, Invariance, PTL DEF Spec, ToldIsFinal

\* Only success dismisses the recorder from a posting page.
THEOREM DismissalMeansPublished == Spec => DismissedIsPublished
<1> DEFINE Dismissed == top # 0 /\ take # 0 /\ take' = 0 /\ ~EndProcess
           Shown == \E a \in documents' : PageOf(a).take = take
<1>1. Inv /\ [Next]_vars => [Dismissed => Shown]_vars
  <2> SUFFICES ASSUME Inv, [Next]_vars, Dismissed PROVE Shown
    OBVIOUS
  <2>1. CASE Elsewhere \/ PublishPost
    BY <2>1 DEF Elsewhere, Record, NavigateToPosting, Back, Exit, PublishPost, PhotoLibrary,
       AnswerPhotoRequest, PhotoHandler, PerformChanges, vars, pageVars
  <2>2. ASSUME NEW a \in 1 .. MaxAttempts, Progress(a) PROVE Shown
    <3>1. Published(a) /\ top = attempts[a].page
      BY <2>2 DEF Progress, UploadEnds, UploadFails, LocationFound, LocationFails, Published,
         WriteFails, pageVars
    <3>2. a \in documents'
      BY <3>1 DEF Published, Firestore!Hear
    <3>3. PageOf(a).take = take
      BY <3>1, PagesHave DEF Inv, TypeOK, PageOf
    <3> QED BY <3>2, <3>3
  <2>3. ~FirestoreWorks
    BY DEF FirestoreWorks, pageVars
  <2> QED BY <2>1, <2>2, <2>3, Steps
<1> QED BY <1>1, Invariance, PTL DEF Spec, DismissedIsPublished

\* The photo library is written with permission only.
THEOREM PermissionComesFirst == Spec => []SavesAreAuthorized
<1> DEFINE Saved == saves # <<>> \/ \E t \in 1 .. MaxTakes : copies[t] > 0
<1>1. Init => SavesAreAuthorized
  BY DEF Init, SavesAreAuthorized
<1>2. Inv /\ SavesAreAuthorized /\ [Next]_vars => SavesAreAuthorized'
  <2> SUFFICES ASSUME Inv, SavesAreAuthorized, [Next]_vars PROVE SavesAreAuthorized'
    OBVIOUS
  <2>1. CASE UNCHANGED photoVars
    BY <2>1 DEF photoVars, SavesAreAuthorized
  <2>2. CASE NavigateToPosting
    BY <2>2 DEF NavigateToPosting, SavesAreAuthorized
  <2>3. ASSUME NEW status \in {"authorized", "denied"}, AnswerPhotoRequest(status)
        PROVE  SavesAreAuthorized'
    BY <2>3 DEF AnswerPhotoRequest, SavesAreAuthorized
  <2>4. CASE PhotoHandler
    BY <2>4 DEF PhotoHandler, SavesAreAuthorized
  <2>5. CASE PerformChanges
    BY <2>5 DEF PerformChanges, SavesAreAuthorized
  <2>6. CASE EndProcess
    BY <2>6 DEF EndProcess, SavesAreAuthorized
  <2>7. CASE Record \/ Back \/ Exit \/ PublishPost \/ UNCHANGED vars
    BY <2>1, <2>7 DEF Record, Back, Exit, PublishPost, vars
  <2>8. ASSUME NEW a \in 1 .. MaxAttempts, Progress(a)
        PROVE  UNCHANGED photoVars
    BY <2>8 DEF Progress, UploadEnds, UploadFails, LocationFound, LocationFails, Published,
       WriteFails
  <2>9. CASE FirestoreWorks
    BY <2>1, <2>9 DEF FirestoreWorks
  <2> QED BY <2>1, <2>2, <2>3, <2>4, <2>5, <2>6, <2>7, <2>8, <2>9, Steps
      DEF Elsewhere, PhotoLibrary
<1> QED BY <1>1, <1>2, Invariance, PTL DEF Spec

=============================================================================
