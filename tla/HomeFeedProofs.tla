--------------------------- MODULE HomeFeedProofs ---------------------------
(***************************************************************************)
(* The home page for every number of posts, of cells, of taps under way    *)
(* and of blocks on their way.  The inductive invariant adds to the        *)
(* properties what the table shows in each state of the scroll (TableOK)   *)
(* and that the last block a cell waits for brings the video of its post   *)
(* (LastBlockOK).                                                          *)
(***************************************************************************)
EXTENDS HomeFeed, DataFacts

-----------------------------------------------------------------------------
\* Cells.

\* What a pause leaves.
LEMMA PausedCell ==
  ASSUME NEW s \in CellState
  PROVE  /\ Pause(s) \in CellState
         /\ ~Pause(s).isPlaying
         /\ (s.player = "playing" => s.isPlaying) => Pause(s).player # "playing"
         /\ Pause(s).row = s.row /\ Pause(s).item = s.item
BY DEF Pause, CellState

\* What a play leaves.
LEMMA PlayedCell ==
  ASSUME NEW s \in CellState
  PROVE  /\ Play(s) \in CellState
         /\ Play(s).isPlaying
         /\ Play(s).row = s.row /\ Play(s).item = s.item
BY DEF Play, CellState

\* A cell configured for a row keeps its player and its item.
LEMMA ConfiguredCell ==
  ASSUME TypeOK, NEW c \in Cells, NEW row \in Rows
  PROVE  /\ Configured(c, row) \in CellState
         /\ Configured(c, row).row = row
         /\ Configured(c, row).item = cell[c].item
         /\ Configured(c, row).player = cell[c].player
         /\ Configured(c, row).isPlaying = cell[c].isPlaying
BY DEF Configured, PrepareForReuse, TypeOK, CellState

\* One cell changes.
LEMMA OneCell ==
  ASSUME TypeOK, NEW c \in Cells, NEW s \in CellState, cell' = [cell EXCEPT ![c] = s]
  PROVE  /\ cell' \in [Cells -> CellState] /\ cell'[c] = s
         /\ \A other \in Cells : other # c => cell'[other] = cell[other]
         /\ \A other \in Cells : cell[other] \in CellState
BY DEF TypeOK

\* The blocks on their way.
LEMMA Blocks ==
  ASSUME TypeOK
  PROVE  \A i \in DOMAIN mainQueue : mainQueue[i].cell \in Cells /\ mainQueue[i].row \in Rows
<1>1. \A i \in DOMAIN mainQueue : mainQueue[i] \in Block
  BY SeqIsFunction DEF TypeOK
<1> QED BY <1>1 DEF Block

\* The topmost row in view.
LEMMA FirstIsVisible ==
  ASSUME TypeOK, Visible # {}
  PROVE  /\ FirstVisible \in Visible
         /\ cellAt[FirstVisible] \in Cells /\ cellAt[FirstVisible] \in Attached
<1>1. Visible \subseteq Nat
  BY RowsAssumption DEF TypeOK, Visible, IsMap, Rows
<1>2. \E row \in Visible : \A other \in Visible : row <= other
  BY <1>1, LeastOf
<1>3. FirstVisible \in Visible
  BY <1>2 DEF FirstVisible
<1> QED BY <1>3 DEF TypeOK, IsMap, Visible, Attached

-----------------------------------------------------------------------------
\* The inductive invariant.

TableOK ==
  /\ request # "posts" => Visible = {}
  /\ scroll = "rest" => \A row, other \in Visible : row = other
  /\ ~onScreen => scroll # "dragging"
  /\ ~onScreen /\ leftAtRest => scroll = "rest"

LastBlockOK ==
  \A i \in DOMAIN mainQueue :
    LET c == mainQueue[i].cell
    IN  /\ cell[c].row \in Rows \ NoVideo
        /\ \A j \in DOMAIN mainQueue : i < j => mainQueue[j].cell # c
        => mainQueue[i].row = cell[c].row

IInv ==
  /\ TypeOK /\ TableOK /\ LastBlockOK
  /\ SoundIsUnderControl /\ HiddenCellsArePaused /\ LeftPageIsSilent /\ PlayerHasItsPost

\* A step that leaves rows, items and blocks alone.
LEMMA SameVideos ==
  ASSUME TypeOK, LastBlockOK, PlayerHasItsPost, mainQueue' = mainQueue,
         \A c \in Cells : cell'[c].row = cell[c].row /\ cell'[c].item = cell[c].item
  PROVE  LastBlockOK' /\ PlayerHasItsPost'
<1>1. \A i \in DOMAIN mainQueue : mainQueue[i].cell \in Cells
  BY Blocks
<1> QED BY <1>1 DEF LastBlockOK, PlayerHasItsPost, Awaits

\* The rows in view with one more.
LEMMA OneMoreRow ==
  ASSUME TypeOK, NEW row \in Rows, NEW c \in Cells, c \notin Attached,
         cellAt' = Put(cellAt, row, c)
  PROVE  /\ IsMap(cellAt', Rows, Cells)
         /\ \A r, o \in Visible' : cellAt'[r] = cellAt'[o] => r = o
         /\ Visible' = Visible \cup {row}
         /\ row \notin Visible => Attached' = Attached \cup {c}
<1>1. IsMap(cellAt', Rows, Cells)
  BY PutIsMap DEF TypeOK
<1>2. /\ Visible' = Visible \cup {row} /\ cellAt'[row] = c
      /\ \A r \in Visible : r # row => cellAt'[r] = cellAt[r]
  BY DEF Put, Visible
<1>3. \A r \in Visible : cellAt[r] # c
  BY DEF Attached
<1>4. \A r, o \in Visible' : cellAt'[r] = cellAt'[o] => r = o
  BY <1>2, <1>3 DEF TypeOK
<1>5. ASSUME row \notin Visible PROVE Attached' = Attached \cup {c}
  BY <1>2, <1>5 DEF Attached
<1> QED BY <1>1, <1>2, <1>4, <1>5

\* A row that comes into view keeps the invariant, whatever brings it.
LEMMA Displayed ==
  ASSUME IInv, NEW row \in Rows \ Visible, NEW c \in Cells, WillDisplay(row, c),
         request' \in {"open", "posts", "empty", "failed"},
         UNCHANGED <<scroll, onScreen, covered, leftAtRest>>
  PROVE  /\ TypeOK' /\ LastBlockOK'
         /\ SoundIsUnderControl' /\ HiddenCellsArePaused' /\ LeftPageIsSilent'
         /\ PlayerHasItsPost'
         /\ Visible' = Visible \cup {row}
<1> USE DEF IInv
<1> DEFINE s == Pause(Configured(c, row))
           block == [cell |-> c, row |-> row]
<1>1. /\ c \notin Attached /\ cellAt' = Put(cellAt, row, c) /\ currentIndex' = row
      /\ exposed' = exposed \cup {row} /\ cell' = [cell EXCEPT ![c] = s] /\ late' = late \ {c}
      /\ \/ row \in NoVideo /\ mainQueue' = mainQueue
         \/ row \notin NoVideo /\ mainQueue' = Append(mainQueue, block)
  BY DEF WillDisplay, Dequeued
<1>2. /\ s \in CellState /\ ~s.isPlaying /\ s.row = row /\ s.item = cell[c].item
      /\ s.player # "playing"
  BY ConfiguredCell, PausedCell DEF SoundIsUnderControl
<1>3. block \in Block /\ block.cell = c /\ block.row = row
  BY DEF Block
<1> HIDE DEF s, block
<1>4. /\ cell' \in [Cells -> CellState] /\ cell'[c] = s
      /\ \A other \in Cells : other # c => cell'[other] = cell[other]
  BY <1>1, <1>2, OneCell
<1>5. /\ IsMap(cellAt', Rows, Cells)
      /\ \A r, o \in Visible' : cellAt'[r] = cellAt'[o] => r = o
      /\ Visible' = Visible \cup {row} /\ Attached' = Attached \cup {c}
  BY <1>1, OneMoreRow
<1>6. mainQueue' \in Seq(Block)
  BY <1>1, <1>3, AppendSeq DEF TypeOK
<1>7. TypeOK'
  BY <1>1, <1>4, <1>5, <1>6 DEF TypeOK
<1>8. SoundIsUnderControl'
  BY <1>2, <1>4 DEF SoundIsUnderControl
<1>9. HiddenCellsArePaused'
  BY <1>1, <1>4, <1>5 DEF HiddenCellsArePaused
<1>10. LeftPageIsSilent'
  BY <1>1, <1>2, <1>4 DEF LeftPageIsSilent
<1>11. LastBlockOK' /\ PlayerHasItsPost'
  <2>1. \A i \in DOMAIN mainQueue : mainQueue[i].cell \in Cells
    BY Blocks
  <2>2. CASE row \in NoVideo
    BY <1>1, <1>2, <1>4, <2>1, <2>2 DEF LastBlockOK, PlayerHasItsPost, Awaits
  <2>3. CASE row \notin NoVideo
    <3> DEFINE last == Len(mainQueue) + 1
    <3>0. mainQueue' = Append(mainQueue, block) /\ mainQueue \in Seq(Block) /\ block \in Block
      BY <1>1, <1>3, <2>3 DEF TypeOK
    <3>1. /\ DOMAIN mainQueue' = DOMAIN mainQueue \cup {last} /\ mainQueue'[last] = block
          /\ \A i \in DOMAIN mainQueue : i < last /\ mainQueue'[i] = mainQueue[i]
      BY <3>0, AppendSeq
    <3> HIDE DEF last
    <3>2. \A other \in Cells : Awaits(other)' <=> Awaits(other) \/ other = c
      BY <1>3, <3>1 DEF Awaits
    <3>3. PlayerHasItsPost'
      BY <1>4, <3>2 DEF PlayerHasItsPost
    <3>4. ASSUME NEW i \in DOMAIN mainQueue',
                 cell'[mainQueue'[i].cell].row \in Rows \ NoVideo,
                 \A j \in DOMAIN mainQueue' : i < j => mainQueue'[j].cell # mainQueue'[i].cell
          PROVE  mainQueue'[i].row = cell'[mainQueue'[i].cell].row
      <4>1. CASE i = last
        BY <1>2, <1>3, <1>4, <3>1, <4>1
      <4>2. CASE i \in DOMAIN mainQueue
        <5>1. mainQueue[i].cell # c
          BY <1>3, <3>1, <3>4, <4>2
        <5> QED BY <1>4, <2>1, <3>1, <3>4, <4>2, <5>1 DEF LastBlockOK
      <4> QED BY <3>1, <4>1, <4>2
    <3> QED BY <3>3, <3>4 DEF LastBlockOK
  <2> QED BY <2>2, <2>3
<1> QED BY <1>5, <1>7, <1>8, <1>9, <1>10, <1>11

\* One cell of those in view plays or pauses, or a cell hears of a tap: what the
\* invariant says of cells stays, if a cell that begins to play is on show or late.
LEMMA CellChanged ==
  ASSUME IInv, NEW c \in Cells, NEW s \in CellState,
         cell' = [cell EXCEPT ![c] = s],
         s.row = cell[c].row, s.item = cell[c].item,
         s.player = "playing" => s.isPlaying,
         UNCHANGED <<cellAt, currentIndex, exposed, request, covered, mainQueue>>,
         scroll' \in {"rest", "dragging", "decelerating"}, onScreen' \in BOOLEAN,
         leftAtRest' \in BOOLEAN,
         late' \subseteq Cells, late \ {c} \subseteq late',
         c \in late /\ s.isPlaying => c \in late',
         s.isPlaying => cell[c].isPlaying \/ c \in Attached \/ c \in late'
  PROVE  /\ TypeOK' /\ LastBlockOK' /\ PlayerHasItsPost'
         /\ SoundIsUnderControl' /\ HiddenCellsArePaused'
         /\ \A other \in Cells : other # c => cell'[other] = cell[other]
         /\ cell'[c] = s /\ Visible' = Visible
<1> USE DEF IInv
<1>1. /\ cell' \in [Cells -> CellState] /\ cell'[c] = s
      /\ \A other \in Cells : other # c => cell'[other] = cell[other]
  BY OneCell
<1>2. Visible' = Visible /\ Attached' = Attached
  BY DEF Visible, Attached
<1>3. TypeOK'
  BY <1>1, <1>2 DEF TypeOK
<1>4. LastBlockOK' /\ PlayerHasItsPost'
  BY <1>1, SameVideos
<1>5. SoundIsUnderControl'
  BY <1>1 DEF SoundIsUnderControl
<1>6. HiddenCellsArePaused'
  BY <1>1, <1>2 DEF HiddenCellsArePaused
<1> QED BY <1>1, <1>2, <1>3, <1>4, <1>5, <1>6

\* main runs a block: the item of its cell changes, and nobody begins to play.
LEMMA BlockRuns ==
  ASSUME IInv, ConfigureBlock
  PROVE  IInv'
<1> USE DEF IInv
<1> DEFINE block == Head(mainQueue)
           c == block.cell
           s == [cell[c] EXCEPT !.item = block.row, !.player = IF @ = "none" THEN "paused" ELSE @]
<1>1. /\ mainQueue # <<>> /\ mainQueue' = Tail(mainQueue)
      /\ UNCHANGED <<scroll, cellAt, currentIndex, exposed, request, onScreen, covered,
                     leftAtRest, late>>
  BY DEF ConfigureBlock, tableVars, pageVars
<1>2. cell' = [cell EXCEPT ![c] = s]
  BY DEF ConfigureBlock
<1>3. block \in Block /\ 1 \in DOMAIN mainQueue /\ block = mainQueue[1]
  BY <1>1, TailSeq DEF TypeOK
<1>4. c \in Cells /\ block.row \in Rows
  BY <1>3 DEF Block
<1>5. cell[c] \in CellState
  BY <1>4 DEF TypeOK
<1>6. /\ s \in CellState /\ s.row = cell[c].row /\ s.item = block.row
      /\ s.isPlaying = cell[c].isPlaying /\ (s.player = "playing" => cell[c].player = "playing")
  BY <1>4, <1>5 DEF CellState
<1> HIDE DEF block, c, s
<1>7. /\ cell' \in [Cells -> CellState] /\ cell'[c] = s
      /\ \A other \in Cells : other # c => cell'[other] = cell[other]
  BY <1>2, <1>4, <1>6, OneCell
<1>8. /\ mainQueue' \in Seq(Block)
      /\ Len(mainQueue) >= 1 /\ Len(mainQueue') = Len(mainQueue) - 1
      /\ \A i \in DOMAIN mainQueue' : i + 1 \in DOMAIN mainQueue /\ mainQueue'[i] = mainQueue[i + 1]
  BY <1>1, TailSeq DEF TypeOK
<1>9. Visible' = Visible /\ Attached' = Attached
  BY <1>1 DEF Visible, Attached
<1>10. TypeOK' /\ TableOK'
  BY <1>1, <1>7, <1>8, <1>9 DEF TypeOK, TableOK
<1>11. SoundIsUnderControl' /\ HiddenCellsArePaused' /\ LeftPageIsSilent'
  BY <1>1, <1>6, <1>7, <1>9 DEF SoundIsUnderControl, HiddenCellsArePaused, LeftPageIsSilent
<1>12. \A other \in Cells : cell'[other].row = cell[other].row
  BY <1>6, <1>7
<1>13. /\ DOMAIN mainQueue = 1 .. Len(mainQueue) /\ DOMAIN mainQueue' = 1 .. Len(mainQueue')
       /\ Len(mainQueue) \in Nat /\ Len(mainQueue') \in Nat
  BY <1>8, SeqIsFunction DEF TypeOK
<1>14. ASSUME NEW j \in DOMAIN mainQueue, j # 1
       PROVE  /\ j - 1 \in DOMAIN mainQueue' /\ mainQueue'[j - 1] = mainQueue[j]
  <2>1. j - 1 \in DOMAIN mainQueue' /\ (j - 1) + 1 = j
    BY <1>8, <1>13, <1>14
  <2> QED BY <1>8, <2>1
<1>15. ASSUME NEW i \in DOMAIN mainQueue',
              cell'[mainQueue'[i].cell].row \in Rows \ NoVideo,
              \A j \in DOMAIN mainQueue' : i < j => mainQueue'[j].cell # mainQueue'[i].cell
       PROVE  mainQueue'[i].row = cell'[mainQueue'[i].cell].row
  <2>1. i + 1 \in DOMAIN mainQueue /\ mainQueue'[i] = mainQueue[i + 1]
        /\ mainQueue'[i].cell \in Cells
    BY <1>8, Blocks
  <2>2. ASSUME NEW j \in DOMAIN mainQueue, i + 1 < j
        PROVE  mainQueue[j].cell # mainQueue[i + 1].cell
    <3>1. j # 1 /\ i < j - 1
      BY <1>13, <2>2
    <3> QED BY <1>14, <1>15, <2>1, <3>1
  <2> QED BY <1>12, <1>15, <2>1, <2>2 DEF LastBlockOK
<1>16. ASSUME NEW other \in Cells, cell'[other].row \in Rows \ NoVideo, ~Awaits(other)'
       PROVE  cell'[other].item = cell'[other].row
  <2>1. \A j \in DOMAIN mainQueue : j # 1 => mainQueue[j].cell # other
    BY <1>14, <1>16 DEF Awaits
  <2>2. CASE other = c
    <3>1. \A j \in DOMAIN mainQueue : 1 < j => mainQueue[j].cell # mainQueue[1].cell
      BY <1>3, <1>13, <2>1, <2>2 DEF c
    <3>2. mainQueue[1].cell = c /\ mainQueue[1].row = block.row
      BY <1>3 DEF c
    <3>3. block.row = cell[c].row
      BY <1>3, <1>6, <1>7, <1>16, <2>2, <3>1, <3>2 DEF LastBlockOK
    <3> QED BY <1>6, <1>7, <2>2, <3>3
  <2>3. CASE other # c
    <3>1. mainQueue[1].cell # other
      BY <1>3, <2>3 DEF c
    <3>2. ~Awaits(other)
      BY <2>1, <3>1 DEF Awaits
    <3> QED BY <1>7, <1>16, <2>3, <3>2 DEF PlayerHasItsPost
  <2> QED BY <2>2, <2>3
<1>17. LastBlockOK'
  BY <1>15 DEF LastBlockOK
<1>18. PlayerHasItsPost'
  BY <1>16 DEF PlayerHasItsPost
<1> QED BY <1>10, <1>11, <1>17, <1>18

-----------------------------------------------------------------------------
\* Every step keeps the invariant.

\* The table.
LEMMA TableStep == IInv /\ Table => IInv'
<1> SUFFICES ASSUME IInv, Table PROVE IInv'
  OBVIOUS
<1> USE DEF IInv
<1>1. ASSUME NEW c \in Cells, PostsArrive(c) PROVE IInv'
  <2>1. /\ request = "open" /\ request' = "posts" /\ WillDisplay(0, c)
        /\ UNCHANGED <<scroll, onScreen, covered, leftAtRest>>
    BY <1>1 DEF PostsArrive
  <2>2. Visible = {} /\ 0 \in Rows
    BY <2>1, RowsAssumption DEF TableOK, Rows
  <2>3. TypeOK' /\ LastBlockOK' /\ SoundIsUnderControl' /\ HiddenCellsArePaused'
        /\ LeftPageIsSilent' /\ PlayerHasItsPost' /\ Visible' = Visible \cup {0}
    BY <2>1, <2>2, Displayed
  <2>4. TableOK'
    BY <2>1, <2>2, <2>3 DEF TableOK
  <2> QED BY <2>3, <2>4
<1>2. ASSUME NEW c \in Cells, NEW row \in Rows, Expose(row, c) PROVE IInv'
  <2>1. /\ scroll # "rest" /\ WillDisplay(row, c)
        /\ UNCHANGED <<scroll, request, onScreen, covered, leftAtRest>>
        /\ \E shown \in Visible : Visible = {shown} /\ (row = shown + 1 \/ row + 1 = shown)
    BY <1>2 DEF Expose, pageVars
  <2>2. row \notin Visible /\ Visible # {}
    BY <2>1, RowsAssumption DEF Rows
  <2>3. request' \in {"open", "posts", "empty", "failed"}
    BY <2>1 DEF TypeOK
  <2>4. TypeOK' /\ LastBlockOK' /\ SoundIsUnderControl' /\ HiddenCellsArePaused'
        /\ LeftPageIsSilent' /\ PlayerHasItsPost' /\ Visible' = Visible \cup {row}
    BY <2>1, <2>2, <2>3, Displayed
  <2>5. TableOK'
    BY <2>1, <2>2, <2>4 DEF TableOK
  <2> QED BY <2>4, <2>5
<1>3. ASSUME NEW row \in Rows, DidEndDisplaying(row) PROVE IInv'
  <2> DEFINE c == cellAt[row]
             s == Pause(cell[c])
  <2>1. /\ scroll # "rest" /\ row \in Visible /\ cellAt' = Drop(cellAt, {row})
        /\ cell' = [cell EXCEPT ![c] = s] /\ late' = late \ {c}
        /\ UNCHANGED <<scroll, currentIndex, exposed, request, onScreen, covered, leftAtRest,
                       mainQueue>>
    BY <1>3 DEF DidEndDisplaying, pageVars
  <2>2. c \in Cells /\ cell[c] \in CellState
    BY <2>1 DEF TypeOK, IsMap, Visible
  <2>3. /\ s \in CellState /\ ~s.isPlaying /\ s.row = cell[c].row /\ s.item = cell[c].item
        /\ s.player # "playing"
    BY <2>2, PausedCell DEF SoundIsUnderControl
  <2>4. \A other \in Visible : other # row => cellAt[other] # c
    BY <2>1 DEF TypeOK
  <2> HIDE DEF c, s
  <2>5. /\ cell' \in [Cells -> CellState] /\ cell'[c] = s
        /\ \A other \in Cells : other # c => cell'[other] = cell[other]
    BY <2>1, <2>2, <2>3, OneCell
  <2>6. /\ IsMap(cellAt', Rows, Cells)
    BY <2>1, DropIsMap DEF TypeOK
  <2>7. /\ Visible' = Visible \ {row} /\ \A r \in Visible' : cellAt'[r] = cellAt[r]
    BY <2>1 DEF Drop, Visible
  <2>8. \A other \in Cells : other \in Attached /\ other # c => other \in Attached'
    BY <2>1, <2>7 DEF Attached, c
  <2>9. TypeOK'
    <3>1. \A r, o \in Visible' : cellAt'[r] = cellAt'[o] => r = o
      BY <2>7 DEF TypeOK
    <3>2. late' \subseteq Cells
      BY <2>1 DEF TypeOK
    <3> QED BY <2>1, <2>5, <2>6, <3>1, <3>2 DEF TypeOK
  <2>10. SoundIsUnderControl' /\ HiddenCellsArePaused' /\ LeftPageIsSilent'
    BY <2>1, <2>3, <2>5, <2>8 DEF SoundIsUnderControl, HiddenCellsArePaused, LeftPageIsSilent
  <2>11. LastBlockOK' /\ PlayerHasItsPost'
    BY <2>1, <2>3, <2>5, SameVideos
  <2>12. TableOK'
    BY <2>1, <2>7 DEF TableOK
  <2> QED BY <2>9, <2>10, <2>11, <2>12
<1>4. CASE BeginDrag \/ Settle
  <2>1. /\ UNCHANGED <<cellAt, currentIndex, request, onScreen, covered, leftAtRest, cell,
                       mainQueue, late>>
        /\ exposed' \in SUBSET Rows
        /\ \/ scroll' = "dragging" /\ onScreen
           \/ scroll' = "rest" /\ \A row, other \in Visible : row = other
    BY <1>4 DEF BeginDrag, Settle, pageVars, TypeOK
  <2>2. Visible' = Visible /\ Attached' = Attached
    BY <2>1 DEF Visible, Attached
  <2>3. TypeOK' /\ TableOK'
    BY <2>1, <2>2 DEF TypeOK, TableOK
  <2>4. SoundIsUnderControl' /\ HiddenCellsArePaused' /\ LeftPageIsSilent'
    BY <2>1, <2>2 DEF SoundIsUnderControl, HiddenCellsArePaused, LeftPageIsSilent
  <2> QED BY <2>1, <2>3, <2>4, SameVideos
<1>5. CASE DidEndDragging
  <2>1. /\ scroll = "dragging" /\ scroll' = "decelerating" /\ onScreen
        /\ UNCHANGED <<cellAt, currentIndex, exposed, request, onScreen, covered, leftAtRest,
                       mainQueue, late>>
    BY <1>5 DEF DidEndDragging, pageVars, TableOK
  <2>2. CASE currentIndex \notin Visible
    <3>1. cell' = cell /\ Visible' = Visible /\ Attached' = Attached
      BY <1>5, <2>1, <2>2 DEF DidEndDragging, Visible, Attached
    <3>2. TypeOK' /\ TableOK'
      BY <2>1, <3>1 DEF TypeOK, TableOK
    <3>3. SoundIsUnderControl' /\ HiddenCellsArePaused' /\ LeftPageIsSilent'
      BY <2>1, <3>1 DEF SoundIsUnderControl, HiddenCellsArePaused, LeftPageIsSilent
    <3> QED BY <2>1, <3>1, <3>2, <3>3, SameVideos
  <2>3. CASE currentIndex \in Visible
    <3> DEFINE c == cellAt[currentIndex]
               s == Play(cell[c])
    <3>1. c \in Cells /\ c \in Attached /\ cell[c] \in CellState
      BY <2>3 DEF TypeOK, IsMap, Visible, Attached
    <3>2. cell' = [cell EXCEPT ![c] = s]
      BY <1>5, <2>3 DEF DidEndDragging, Replay
    <3>3. s \in CellState /\ s.isPlaying /\ s.row = cell[c].row /\ s.item = cell[c].item
      BY <3>1, PlayedCell
    <3> HIDE DEF c, s
    <3>4. TypeOK' /\ LastBlockOK' /\ PlayerHasItsPost' /\ SoundIsUnderControl'
          /\ HiddenCellsArePaused' /\ Visible' = Visible
      BY <2>1, <3>1, <3>2, <3>3, CellChanged DEF TypeOK
    <3>5. TableOK' /\ LeftPageIsSilent'
      BY <2>1, <3>4 DEF TableOK, LeftPageIsSilent
    <3> QED BY <3>4, <3>5
  <2> QED BY <2>2, <2>3
<1> QED BY <1>1, <1>2, <1>3, <1>4, <1>5 DEF Table

\* The page.
LEMMA PageStep == IInv /\ Page => IInv'
<1> SUFFICES ASSUME IInv, Page PROVE IInv'
  OBVIOUS
<1> USE DEF IInv
<1>1. CASE Cover \/ Uncover \/ NoPostsArrive
  <2>1. /\ UNCHANGED <<scroll, cellAt, currentIndex, exposed, onScreen, leftAtRest, cell,
                       mainQueue, late>>
        /\ covered' \in BOOLEAN /\ request' \in {"open", "posts", "empty", "failed"}
        /\ request' # "posts" => request # "posts"
    BY <1>1 DEF Cover, Uncover, NoPostsArrive, tableVars, TypeOK
  <2>2. Visible' = Visible /\ Attached' = Attached
    BY <2>1 DEF Visible, Attached
  <2>3. TypeOK' /\ TableOK'
    BY <2>1, <2>2 DEF TypeOK, TableOK
  <2>4. SoundIsUnderControl' /\ HiddenCellsArePaused' /\ LeftPageIsSilent'
    BY <2>1, <2>2 DEF SoundIsUnderControl, HiddenCellsArePaused, LeftPageIsSilent
  <2> QED BY <2>1, <2>3, <2>4, SameVideos
<1>2. CASE (ViewWillAppear \/ ViewWillDisappear) /\ Visible = {}
  <2>1. /\ UNCHANGED <<scroll, cellAt, currentIndex, exposed, request, covered, cell,
                       mainQueue, late>>
        /\ onScreen' \in BOOLEAN /\ leftAtRest' \in BOOLEAN
        /\ ~onScreen' => scroll # "dragging" /\ leftAtRest' = (scroll = "rest")
    BY <1>2 DEF ViewWillAppear, ViewWillDisappear, tableVars, TypeOK
  <2>2. Visible' = Visible /\ Attached' = Attached /\ Attached = {}
    BY <1>2, <2>1 DEF Visible, Attached
  <2>3. TypeOK' /\ TableOK'
    BY <2>1, <2>2 DEF TypeOK, TableOK
  <2>4. SoundIsUnderControl' /\ HiddenCellsArePaused' /\ LeftPageIsSilent'
    BY <2>1, <2>2 DEF SoundIsUnderControl, HiddenCellsArePaused, LeftPageIsSilent
  <2> QED BY <2>1, <2>3, <2>4, SameVideos
<1>3. CASE ViewWillAppear /\ Visible # {}
  <2> DEFINE c == cellAt[FirstVisible]
             s == Play(cell[c])
  <2>1. /\ onScreen' = TRUE /\ cell' = [cell EXCEPT ![c] = s]
        /\ UNCHANGED <<scroll, cellAt, currentIndex, exposed, request, covered, leftAtRest,
                       mainQueue, late>>
    BY <1>3 DEF ViewWillAppear, tableVars
  <2>2. c \in Cells /\ c \in Attached /\ cell[c] \in CellState
    BY <1>3, FirstIsVisible DEF TypeOK
  <2>3. s \in CellState /\ s.isPlaying /\ s.row = cell[c].row /\ s.item = cell[c].item
    BY <2>2, PlayedCell
  <2> HIDE DEF c, s
  <2>4. TypeOK' /\ LastBlockOK' /\ PlayerHasItsPost' /\ SoundIsUnderControl'
        /\ HiddenCellsArePaused' /\ Visible' = Visible
    BY <2>1, <2>2, <2>3, CellChanged DEF TypeOK
  <2>5. TableOK' /\ LeftPageIsSilent'
    BY <2>1, <2>4 DEF TableOK, LeftPageIsSilent
  <2> QED BY <2>4, <2>5
<1>4. CASE ViewWillDisappear /\ Visible # {}
  <2> DEFINE c == cellAt[FirstVisible]
             s == Pause(cell[c])
  <2>1. /\ scroll # "dragging" /\ onScreen' = FALSE /\ cell' = [cell EXCEPT ![c] = s]
        /\ late' = late \ {c}
        /\ UNCHANGED <<scroll, cellAt, currentIndex, exposed, request, covered, mainQueue>>
    BY <1>4 DEF ViewWillDisappear, tableVars
  <2>2. leftAtRest' = (scroll = "rest") /\ leftAtRest' \in BOOLEAN
    BY <1>4 DEF ViewWillDisappear
  <2>3. c \in Cells /\ cell[c] \in CellState
    BY <1>4, FirstIsVisible DEF TypeOK
  <2>4. /\ s \in CellState /\ ~s.isPlaying /\ s.row = cell[c].row /\ s.item = cell[c].item
        /\ s.player # "playing"
    BY <2>3, PausedCell DEF SoundIsUnderControl
  <2>5. scroll = "rest" => \A other \in Attached : other = c
    BY <1>4, FirstIsVisible DEF TableOK, Attached
  <2> HIDE DEF c, s
  <2>6. TypeOK' /\ LastBlockOK' /\ PlayerHasItsPost' /\ SoundIsUnderControl'
        /\ HiddenCellsArePaused' /\ Visible' = Visible /\ cell'[c] = s
        /\ \A other \in Cells : other # c => cell'[other] = cell[other]
    <3>1. /\ late' \subseteq Cells /\ late \ {c} \subseteq late'
          /\ scroll' \in {"rest", "dragging", "decelerating"} /\ onScreen' \in BOOLEAN
      BY <2>1 DEF TypeOK
    <3> QED BY <2>1, <2>2, <2>3, <2>4, <3>1, CellChanged
  <2>7. TableOK'
    BY <2>1, <2>2, <2>6 DEF TableOK
  <2>8. LeftPageIsSilent'
    BY <2>1, <2>2, <2>4, <2>5, <2>6 DEF LeftPageIsSilent, HiddenCellsArePaused
  <2> QED BY <2>6, <2>7, <2>8
<1> QED BY <1>1, <1>2, <1>3, <1>4 DEF Page

\* Taps and their animations.
LEMMA TapStep ==
  ASSUME IInv, NEW c \in Cells, HandlePause(c) \/ AnimationEnds(c)
  PROVE  IInv'
<1> USE DEF IInv
<1>1. /\ UNCHANGED <<scroll, cellAt, currentIndex, exposed, request, onScreen, covered,
                     leftAtRest, mainQueue>>
      /\ cell[c] \in CellState /\ cell[c].taps \in Seq({"pause", "play"})
  BY DEF HandlePause, AnimationEnds, tableVars, pageVars, TypeOK, CellState
<1>2. CASE HandlePause(c)
  <2> DEFINE tap == IF cell[c].isPlaying THEN "pause" ELSE "play"
             taps == Append(cell[c].taps, tap)
             s == [cell[c] EXCEPT !.sign = cell[c].isPlaying, !.taps = taps]
  <2>1. cell' = [cell EXCEPT ![c] = s] /\ late' = late
    BY <1>2 DEF HandlePause
  <2>2. taps \in Seq({"pause", "play"})
    <3>1. tap \in {"pause", "play"}
      OBVIOUS
    <3> HIDE DEF tap
    <3> QED BY <1>1, <3>1, AppendSeq
  <2> HIDE DEF taps
  <2>3. /\ s \in CellState /\ s.row = cell[c].row /\ s.item = cell[c].item
        /\ s.isPlaying = cell[c].isPlaying /\ s.player = cell[c].player
    BY <1>1, <2>2 DEF CellState
  <2> HIDE DEF s
  <2>4. TypeOK' /\ LastBlockOK' /\ PlayerHasItsPost' /\ SoundIsUnderControl'
        /\ HiddenCellsArePaused' /\ Visible' = Visible /\ cell'[c] = s
        /\ \A other \in Cells : other # c => cell'[other] = cell[other]
    BY <1>1, <2>1, <2>3, CellChanged DEF TypeOK, SoundIsUnderControl
  <2>5. TableOK' /\ LeftPageIsSilent'
    BY <1>1, <2>1, <2>3, <2>4 DEF TableOK, LeftPageIsSilent
  <2> QED BY <2>4, <2>5
<1>3. CASE AnimationEnds(c)
  <2> DEFINE s == [cell[c] EXCEPT !.taps = Tail(@)]
  <2>1. cell[c].taps # <<>>
    BY <1>3 DEF AnimationEnds
  <2>2. /\ s \in CellState /\ s.row = cell[c].row /\ s.item = cell[c].item
        /\ s.isPlaying = cell[c].isPlaying /\ s.player = cell[c].player
    <3>1. Tail(cell[c].taps) \in Seq({"pause", "play"})
      BY <1>1, <2>1, TailSeq
    <3> QED BY <1>1, <3>1 DEF CellState
  <2>3. \/ cell' = [cell EXCEPT ![c] = Pause(s)] /\ late' = late \ {c}
        \/ /\ cell' = [cell EXCEPT ![c] = Play(s)]
           /\ late' = IF OnShow(c) \/ s.isPlaying THEN late ELSE late \cup {c}
    BY <1>3 DEF AnimationEnds
  <2> HIDE DEF s
  <2>4. CASE cell' = [cell EXCEPT ![c] = Pause(s)] /\ late' = late \ {c}
    <3> DEFINE t == Pause(s)
    <3>1. /\ t \in CellState /\ ~t.isPlaying /\ t.row = cell[c].row /\ t.item = cell[c].item
          /\ t.player # "playing"
      BY <2>2, PausedCell DEF SoundIsUnderControl
    <3> HIDE DEF t
    <3>2. cell' = [cell EXCEPT ![c] = t]
      BY <2>4 DEF t
    <3>3. TypeOK' /\ LastBlockOK' /\ PlayerHasItsPost' /\ SoundIsUnderControl'
          /\ HiddenCellsArePaused' /\ Visible' = Visible /\ cell'[c] = t
          /\ \A other \in Cells : other # c => cell'[other] = cell[other]
      <4>1. late' \subseteq Cells /\ late \ {c} \subseteq late'
        BY <2>4 DEF TypeOK
      <4> QED BY <1>1, <3>1, <3>2, <4>1, CellChanged DEF TypeOK
    <3>4. TableOK' /\ LeftPageIsSilent'
      BY <1>1, <2>4, <3>1, <3>3 DEF TableOK, LeftPageIsSilent
    <3> QED BY <3>3, <3>4
  <2>5. CASE /\ cell' = [cell EXCEPT ![c] = Play(s)]
             /\ late' = IF OnShow(c) \/ s.isPlaying THEN late ELSE late \cup {c}
    <3> DEFINE t == Play(s)
    <3>1. t \in CellState /\ t.isPlaying /\ t.row = cell[c].row /\ t.item = cell[c].item
      BY <2>2, PlayedCell
    <3> HIDE DEF t
    <3>2. cell' = [cell EXCEPT ![c] = t]
      BY <2>5 DEF t
    <3>3. /\ late' \subseteq Cells /\ late \subseteq late'
          /\ cell[c].isPlaying \/ OnShow(c) \/ c \in late'
      BY <2>2, <2>5 DEF TypeOK
    <3>4. TypeOK' /\ LastBlockOK' /\ PlayerHasItsPost' /\ SoundIsUnderControl'
          /\ HiddenCellsArePaused' /\ Visible' = Visible /\ cell'[c] = t
          /\ \A other \in Cells : other # c => cell'[other] = cell[other]
      BY <1>1, <3>1, <3>2, <3>3, CellChanged DEF TypeOK, OnShow
    <3>5. TableOK'
      BY <1>1, <3>4 DEF TableOK
    <3>6. LeftPageIsSilent'
      BY <1>1, <3>3, <3>4 DEF LeftPageIsSilent, OnShow
    <3> QED BY <3>4, <3>5, <3>6
  <2> QED BY <2>3, <2>4, <2>5
<1> QED BY <1>2, <1>3

\* It holds at first.
LEMMA InvariantHolds == Init => IInv
<1> SUFFICES ASSUME Init PROVE IInv
  OBVIOUS
<1>1. /\ Visible = {} /\ Attached = {} /\ IsMap(cellAt, Rows, Cells)
  BY NoEntriesIsMap DEF Init, Visible, Attached, NoEntries
<1>2. NewCell \in CellState
  <2>1. <<>> \in Seq({"pause", "play"})
    OBVIOUS
  <2> QED BY <2>1 DEF NewCell, CellState
<1>3. cell \in [Cells -> CellState] /\ \A c \in Cells : cell[c] = NewCell
  BY <1>2 DEF Init
<1>4. mainQueue \in Seq(Block) /\ DOMAIN mainQueue = {}
  <2>1. mainQueue = <<>>
    BY DEF Init
  <2> QED BY <2>1
<1>5. TypeOK
  <2>1. onScreen \in BOOLEAN /\ covered \in BOOLEAN /\ leftAtRest \in BOOLEAN
    BY DEF Init
  <2>2. request = "open" /\ scroll = "rest" /\ exposed = {} /\ late = {}
    BY DEF Init
  <2>3. currentIndex \in Rows
    BY RowsAssumption DEF Init, Rows
  <2> QED BY <1>1, <1>3, <1>4, <2>1, <2>2, <2>3 DEF TypeOK
<1>6. TableOK
  BY <1>1 DEF Init, TableOK
<1>7. SoundIsUnderControl /\ HiddenCellsArePaused /\ LeftPageIsSilent /\ PlayerHasItsPost
  BY <1>3, RowsAssumption DEF SoundIsUnderControl, HiddenCellsArePaused, LeftPageIsSilent,
     PlayerHasItsPost, NewCell
<1>8. LastBlockOK
  BY <1>4 DEF LastBlockOK
<1> QED BY <1>5, <1>6, <1>7, <1>8 DEF IInv

\* Every step keeps it.
LEMMA InvariantStays == IInv /\ [Next]_vars => IInv'
<1> SUFFICES ASSUME IInv, [Next]_vars PROVE IInv'
  OBVIOUS
<1>1. CASE UNCHANGED vars
  <2>1. /\ UNCHANGED <<scroll, cellAt, currentIndex, exposed, request, onScreen, covered,
                       leftAtRest, cell, mainQueue, late>>
    BY <1>1 DEF vars, tableVars, pageVars
  <2>2. Visible' = Visible /\ Attached' = Attached
    BY <2>1 DEF Visible, Attached
  <2> QED BY <2>1, <2>2 DEF IInv, TypeOK, TableOK, LastBlockOK, SoundIsUnderControl,
       HiddenCellsArePaused, LeftPageIsSilent, PlayerHasItsPost, Awaits
<1> QED BY <1>1, TableStep, PageStep, TapStep, BlockRuns DEF Next

\* The invariant is one of every behaviour.
THEOREM Invariance == Spec => []IInv
BY InvariantHolds, InvariantStays, PTL DEF Spec

\* Every variable of the home page keeps its type, and no two rows share a cell.
THEOREM TypeCorrect == Spec => []TypeOK
<1>1. IInv => TypeOK
  BY DEF IInv
<1> QED BY <1>1, Invariance, PTL

\* HomeTableViewCell.isPlaying and VideoPlayerView's player: a player that plays can be
\* paused, however many taps, blocks and reuses came between.
THEOREM PlayersObey == Spec => []SoundIsUnderControl
<1>1. IInv => SoundIsUnderControl
  BY DEF IInv
<1> QED BY <1>1, Invariance, PTL

\* didEndDisplaying: only a tap that was late starts a cell that is not in view.
THEOREM CellsOutOfViewRest == Spec => []HiddenCellsArePaused
<1>1. IInv => HiddenCellsArePaused
  BY DEF IInv
<1> QED BY <1>1, Invariance, PTL

\* viewWillDisappear pauses the first of visibleCells, which is enough at rest.
THEOREM PageLeavesQuietly == Spec => []LeftPageIsSilent
<1>1. IInv => LeftPageIsSilent
  BY DEF IInv
<1> QED BY <1>1, Invariance, PTL

\* VideoPlayerView.configure: blocks that come late for a reused cell are overtaken by
\* the one of its post.
THEOREM PostsHaveTheirVideos == Spec => []PlayerHasItsPost
<1>1. IInv => PlayerHasItsPost
  BY DEF IInv
<1> QED BY <1>1, Invariance, PTL
=============================================================================
