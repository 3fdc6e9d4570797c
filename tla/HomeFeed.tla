------------------------------ MODULE HomeFeed ------------------------------
(***************************************************************************)
(* The home page: a paging table of full-screen cells, reused, one player  *)
(* in each.  Everything runs on the main thread; what interleaves are the  *)
(* callbacks of the table and scroll views, the gestures, the completions  *)
(* of animations, the answer to the one request for posts, the blocks by   *)
(* which a cell gets its player, and the recorder or the comments over it. *)
(*                                                                         *)
(* UITableView is external: it shows one row at rest and two next to each  *)
(* other while it scrolls, and takes cells from its reuse pool first.      *)
(***************************************************************************)
EXTENDS Naturals, Sequences, PartialMaps

CONSTANTS
  Cells,      \* HomeTableViewCell objects
  LastRow,    \* the posts are rows 0 .. LastRow
  NoVideo,    \* rows of posts without a URL
  Nil,        \* no row: a cell never configured, a player without an item
  MaxTaps,    \* bound: animations of taps under way in a cell
  MaxBlocks   \* bound: blocks on the main queue

Rows == 0 .. LastRow

ASSUME RowsAssumption == LastRow \in Nat /\ NoVideo \subseteq Rows /\ Nil \notin Rows
ASSUME BoundsAssumption == MaxTaps \in Nat /\ MaxBlocks \in Nat

VARIABLES
  request,       \* getPosts of HomeViewModel: "open", "posts", "empty" or "failed"
  onScreen,      \* the page is between viewWillAppear and viewWillDisappear
  covered,       \* the recorder or the comments are over the page
  scroll,        \* "rest", "dragging" or "decelerating"
  cellAt,        \* the table's visible cells: row -> cell
  currentIndex,
  cell,          \* state of each cell
  mainQueue,     \* blocks of VideoPlayerView.configure
  \* history
  exposed,       \* rows that came into view since the table was last at rest
  late,          \* cells a tap started after they, or the page, left the screen
  leftAtRest     \* the table was at rest when the page last left the screen

tableVars == <<scroll, cellAt, currentIndex, exposed>>
pageVars == <<request, onScreen, covered, leftAtRest>>
vars == <<tableVars, pageVars, cell, mainQueue, late>>

\* player: queuePlayer is nil, or its rate.  item: its current item.  sign: the
\* pause sign shows.  taps: animations of handlePause.
NewCell == [row |-> Nil, isPlaying |-> FALSE, player |-> "none", item |-> Nil,
            sign |-> FALSE, taps |-> <<>>]

Visible == DOMAIN cellAt
Attached == {cellAt[row] : row \in Visible}

\* The first of visibleCells: the topmost.
FirstVisible == CHOOSE row \in Visible : \A other \in Visible : row <= other

Init ==
  /\ request = "open" /\ onScreen = FALSE /\ covered = FALSE /\ leftAtRest = TRUE
  /\ scroll = "rest" /\ cellAt = NoEntries /\ currentIndex = 0 /\ exposed = {}
  /\ cell = [c \in Cells |-> NewCell]
  /\ mainQueue = <<>>
  /\ late = {}

-----------------------------------------------------------------------------
\* HomeTableViewCell.

Pause(s) ==
  IF s.isPlaying
  THEN [s EXCEPT !.isPlaying = FALSE, !.player = IF @ = "none" THEN @ ELSE "paused"]
  ELSE s

\* queuePlayer?.play() does nothing when there is no player yet.
Play(s) ==
  IF s.isPlaying THEN s
  ELSE [s EXCEPT !.isPlaying = TRUE, !.player = IF @ = "none" THEN @ ELSE "playing"]

\* The seek to the beginning is not kept.
Replay(s) == Play(s)

\* resetViewsForReuse: isPlaying and the player are kept.
PrepareForReuse(s) == [s EXCEPT !.sign = FALSE]

\* The cell of dequeueReusableCell: of the pool, or new when the pool is empty.
Dequeued(c) ==
  /\ c \notin Attached
  /\ cell[c].row = Nil => \A other \in Cells \ Attached : cell[other].row = Nil

Configured(c, row) ==
  [IF cell[c].row = Nil THEN cell[c] ELSE PrepareForReuse(cell[c]) EXCEPT !.row = row]

\* Mutant: an answer of the cache that finds a player leaves its item.
ConfigureBlockOfNewPlayer ==
  /\ mainQueue # <<>>
  /\ mainQueue' = Tail(mainQueue)
  /\ LET block == Head(mainQueue) IN
       cell' = [cell EXCEPT
         ![block.cell].item = IF cell[block.cell].player = "none" THEN block.row ELSE @,
         ![block.cell].player = IF @ = "none" THEN "paused" ELSE @]
  /\ UNCHANGED <<tableVars, pageVars, late>>

\* Mutant: a new player plays at once.
ConfigureBlockStarts ==
  /\ mainQueue # <<>>
  /\ mainQueue' = Tail(mainQueue)
  /\ LET block == Head(mainQueue) IN
       cell' = [cell EXCEPT
         ![block.cell].item = block.row,
         ![block.cell].player = IF @ = "none" THEN "playing" ELSE @]
  /\ UNCHANGED <<tableVars, pageVars, late>>

\* Main runs the block of VideoPlayerView.configure: the player gets the item.
\* A new player has rate 0; one that plays goes on with the new item.
ConfigureBlock ==
  /\ mainQueue # <<>>
  /\ mainQueue' = Tail(mainQueue)
  /\ LET block == Head(mainQueue) IN
       cell' = [cell EXCEPT
         ![block.cell].item = block.row,
         ![block.cell].player = IF @ = "none" THEN "paused" ELSE @]
  /\ UNCHANGED <<tableVars, pageVars, late>>

-----------------------------------------------------------------------------
\* The table view's callbacks.

\* A row comes into view: cellForRowAt, then willDisplay, which pauses the cell.
\* The query of the cache is over when cellForRowAt returns; its block is not.
WillDisplay(row, c) ==
  /\ Dequeued(c)
  /\ cellAt' = Put(cellAt, row, c)
  /\ currentIndex' = row
  /\ exposed' = exposed \cup {row}
  /\ cell' = [cell EXCEPT ![c] = Pause(Configured(c, row))]
  /\ late' = late \ {c}
  /\ IF row \in NoVideo THEN UNCHANGED mainQueue
     ELSE /\ Len(mainQueue) < MaxBlocks
          /\ mainQueue' = Append(mainQueue, [cell |-> c, row |-> row])

\* Mutant: the cell that leaves goes on.
DidEndDisplayingPlaying(row) ==
  /\ scroll # "rest"
  /\ row \in Visible /\ \E other \in Visible : other # row
  /\ cellAt' = Drop(cellAt, {row})
  /\ UNCHANGED <<scroll, currentIndex, exposed, pageVars, mainQueue, cell, late>>

\* A row leaves the view, never the last.
DidEndDisplaying(row) ==
  /\ scroll # "rest"
  /\ row \in Visible /\ \E other \in Visible : other # row
  /\ cellAt' = Drop(cellAt, {row})
  /\ cell' = [cell EXCEPT ![cellAt[row]] = Pause(@)]
  /\ late' = late \ {cellAt[row]}
  /\ UNCHANGED <<scroll, currentIndex, exposed, pageVars, mainQueue>>

\* The posts arrive and reloadData shows the first.
PostsArrive(c) ==
  /\ request = "open"
  /\ request' = "posts"
  /\ WillDisplay(0, c)
  /\ UNCHANGED <<scroll, onScreen, covered, leftAtRest>>

\* The request fails, which an alert tells, or finds no post.  It is not made again.
NoPostsArrive ==
  /\ request = "open"
  /\ request' \in {"empty", "failed"}
  /\ UNCHANGED <<tableVars, onScreen, covered, leftAtRest, cell, mainQueue, late>>

\* Scrolling shows the next or the previous row.
Expose(row, c) ==
  /\ scroll # "rest"
  /\ \E shown \in Visible : Visible = {shown} /\ (row = shown + 1 \/ row + 1 = shown)
  /\ WillDisplay(row, c)
  /\ UNCHANGED <<scroll, pageVars>>

BeginDrag ==
  /\ onScreen /\ ~covered
  /\ scroll # "dragging"
  /\ scroll' = "dragging"
  /\ UNCHANGED <<cellAt, currentIndex, exposed, pageVars, cell, mainQueue, late>>

\* scrollViewDidEndDragging: the cell of currentIndex, if it is in view, replays.
DidEndDragging ==
  /\ scroll = "dragging"
  /\ scroll' = "decelerating"
  /\ cell' = IF currentIndex \in Visible
             THEN [cell EXCEPT ![cellAt[currentIndex]] = Replay(@)] ELSE cell
  /\ UNCHANGED <<cellAt, currentIndex, exposed, pageVars, mainQueue, late>>

Settle ==
  /\ scroll = "decelerating"
  /\ \A row, other \in Visible : row = other
  /\ scroll' = "rest"
  /\ exposed' = {}
  /\ UNCHANGED <<cellAt, currentIndex, pageVars, cell, mainQueue, late>>

-----------------------------------------------------------------------------
\* The page.

ViewWillAppear ==
  /\ ~onScreen
  /\ onScreen' = TRUE
  /\ cell' = IF Visible = {} THEN cell
             ELSE [cell EXCEPT ![cellAt[FirstVisible]] = Play(@)]
  /\ UNCHANGED <<tableVars, request, covered, leftAtRest, mainQueue, late>>

\* Mutant: row 0 is paused, not the first visible row.
ViewWillDisappearOfRowZero ==
  /\ onScreen /\ ~covered /\ scroll # "dragging"
  /\ onScreen' = FALSE
  /\ leftAtRest' = (scroll = "rest")
  /\ cell' = IF 0 \notin Visible THEN cell ELSE [cell EXCEPT ![cellAt[0]] = Pause(@)]
  /\ late' = IF 0 \notin Visible THEN late ELSE late \ {cellAt[0]}
  /\ UNCHANGED <<tableVars, request, covered, mainQueue>>

\* Another tab is selected or a profile page is pushed, at rest or while the
\* table decelerates.  Only the first visible cell is paused.
ViewWillDisappear ==
  /\ onScreen /\ ~covered /\ scroll # "dragging"
  /\ onScreen' = FALSE
  /\ leftAtRest' = (scroll = "rest")
  /\ cell' = IF Visible = {} THEN cell
             ELSE [cell EXCEPT ![cellAt[FirstVisible]] = Pause(@)]
  /\ late' = IF Visible = {} THEN late ELSE late \ {cellAt[FirstVisible]}
  /\ UNCHANGED <<tableVars, request, covered, mainQueue>>

\* The recorder is presented over the full screen, or the comments are shown in the
\* window: the page does not disappear, and nothing is paused.
Cover ==
  /\ onScreen /\ ~covered /\ scroll # "dragging"
  /\ covered' = TRUE
  /\ UNCHANGED <<tableVars, request, onScreen, leftAtRest, cell, mainQueue, late>>

Uncover ==
  /\ covered
  /\ covered' = FALSE
  /\ UNCHANGED <<tableVars, request, onScreen, leftAtRest, cell, mainQueue, late>>

-----------------------------------------------------------------------------
\* Gestures on a visible cell.

OnShow(c) == onScreen /\ c \in Attached

\* A single tap: the sign at once, the player when the animation is over.
HandlePause(c) ==
  /\ OnShow(c) /\ ~covered
  /\ Len(cell[c].taps) < MaxTaps
  /\ cell' = [cell EXCEPT
       ![c].sign = cell[c].isPlaying,
       ![c].taps = Append(@, IF cell[c].isPlaying THEN "pause" ELSE "play")]
  /\ UNCHANGED <<tableVars, pageVars, mainQueue, late>>

\* The completion of the animation, wherever the cell is by then.
AnimationEnds(c) ==
  /\ cell[c].taps # <<>>
  /\ LET s == [cell[c] EXCEPT !.taps = Tail(@)] IN
       IF Head(cell[c].taps) = "pause"
       THEN /\ cell' = [cell EXCEPT ![c] = Pause(s)]
            /\ late' = late \ {c}
       ELSE /\ cell' = [cell EXCEPT ![c] = Play(s)]
            /\ late' = IF OnShow(c) \/ s.isPlaying THEN late ELSE late \cup {c}
  /\ UNCHANGED <<tableVars, pageVars, mainQueue>>

-----------------------------------------------------------------------------
Table ==
  \/ \E c \in Cells : PostsArrive(c) \/ \E row \in Rows : Expose(row, c)
  \/ \E row \in Rows : DidEndDisplaying(row)
  \/ BeginDrag \/ DidEndDragging \/ Settle

Page == ViewWillAppear \/ ViewWillDisappear \/ Cover \/ Uncover \/ NoPostsArrive

Next ==
  \/ Table
  \/ Page
  \/ ConfigureBlock
  \/ \E c \in Cells : HandlePause(c) \/ AnimationEnds(c)

Spec == Init /\ [][Next]_vars

-----------------------------------------------------------------------------
CellState ==
  [row : Rows \cup {Nil}, isPlaying : BOOLEAN, player : {"none", "paused", "playing"},
   item : Rows \cup {Nil}, sign : BOOLEAN, taps : Seq({"pause", "play"})]

Block == [cell : Cells, row : Rows]

\* Types; no two rows share a cell.
TypeOK ==
  /\ request \in {"open", "posts", "empty", "failed"}
  /\ onScreen \in BOOLEAN /\ covered \in BOOLEAN /\ leftAtRest \in BOOLEAN
  /\ scroll \in {"rest", "dragging", "decelerating"}
  /\ IsMap(cellAt, Rows, Cells)
  /\ \A row, other \in Visible : cellAt[row] = cellAt[other] => row = other
  /\ currentIndex \in Rows /\ exposed \subseteq Rows
  /\ cell \in [Cells -> CellState]
  /\ mainQueue \in Seq(Block)
  /\ late \subseteq Cells

\* A cell that makes a sound knows it: every later pause() reaches its player.
SoundIsUnderControl == \A c \in Cells : cell[c].player = "playing" => cell[c].isPlaying

\* HomeViewController: "Pause the video if the cell is ended displaying".  A cell
\* out of view plays only when a tap's animation ended after it had left.
HiddenCellsArePaused ==
  \A c \in Cells : c \notin Attached => (cell[c].isPlaying => c \in late)

\* A page left at rest is silent until it comes back, late taps apart.
LeftPageIsSilent ==
  (~onScreen /\ leftAtRest) => \A c \in Cells : cell[c].isPlaying => c \in late

Awaits(c) == \E i \in DOMAIN mainQueue : mainQueue[i].cell = c

\* However a cell was reused while its block waited, once main has run the blocks
\* its player has the video of its post (when the post has a URL).
PlayerHasItsPost ==
  \A c \in Cells :
    (cell[c].row \in Rows \ NoVideo /\ ~Awaits(c)) => cell[c].item = cell[c].row

-----------------------------------------------------------------------------
\* What the code does not keep.

\* "If the cell is the first cell in the tableview, the queuePlayer automatically
\* starts": the first post plays once the page, the posts and the player are there.
FirstCellStarts ==
  (onScreen /\ scroll = "rest" /\ Visible = {0} /\ mainQueue = <<>>
     /\ \A c \in Cells : cell[c].taps = <<>> /\ ~cell[c].sign)
    => cell[cellAt[0]].player = "playing"

\* "pause the video until the drag on the scroll view is ended": a row the drag
\* brought plays when the table comes to rest on it (the page not having been left
\* on the way).
PlaysOnceDragEnds ==
  [][(Settle /\ onScreen /\ leftAtRest)
       => \A row \in Visible \cap exposed : cell[cellAt[row]].isPlaying]_vars

\* The same for the player: the replay() that ends a drag is not lost.
DragEndStartsPlayer ==
  [][(DidEndDragging /\ currentIndex \in Visible \ NoVideo)
       => cell'[cellAt[currentIndex]].player = "playing"]_vars

\* "Pause the video if the cell is ended displaying", without exception.
HiddenCellsNeverPlay == \A c \in Cells \ Attached : ~cell[c].isPlaying

\* No video plays under the recorder, which listens, or under the comments.
CoveredPageIsSilent == covered => \A c \in Cells : cell[c].player # "playing"

\* "Start video and remove pause sign": no video plays under the sign.
SignMeansPaused ==
  \A c \in Attached : (cell[c].sign /\ cell[c].taps = <<>>) => ~cell[c].isPlaying
=============================================================================
