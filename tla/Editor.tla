------------------------------- MODULE Editor -------------------------------
(***************************************************************************)
(* The buffer and the undo ring of the internal editor (gtkedit/edit.c,    *)
(* the block commands of gtkedit/editcmd.c, the scrolling of               *)
(* gtkedit/editdraw.c).                                                    *)
(*                                                                         *)
(* The text lies around the cursor: before (buffers1) and after            *)
(* (buffers2).  Every primitive pushes its reverse onto a ring; each key   *)
(* pushes a "key" entry with the first displayed character, and undo pops  *)
(* back to the last of them.  Equal entries are stored once with a count,  *)
(* a move annihilates the opposite one, and a full ring forgets its oldest *)
(* keys.  Entries that were popped or forgotten stay in the memory.        *)
(***************************************************************************)
EXTENDS Integers, Sequences, FiniteSetsExt, SequencesExt

CONSTANTS Chars,        \* the bytes that are typed; 10 is the line feed
          MaxText,      \* bound: bytes of text; the limit of 16 MB is not reached
          StartStack,   \* START_STACK_SIZE
          MaxUndo,      \* option_max_undo
          StackMargin,  \* the ring grows when fewer entries than this are free
          Lines,        \* num_widget_lines
          Commands,     \* the commands the user gives
          Overflows,    \* bound: FALSE leaves out keys whose own entries fill the ring
          MaxKeys       \* bound: keys pressed in all

NL == 10

EditCommands ==
    {"BackSpace", "Delete", "Delete_Line", "Delete_To_Line_End", "Delete_To_Line_Begin",
     "Left", "Right", "Up", "Down", "Page_Up", "Page_Down", "Home", "End",
     "Beginning_Of_Text", "End_Of_Text", "Left_Highlight", "Right_Highlight",
     "Down_Highlight", "Toggle_Insert", "Mark", "Unmark", "Copy", "Move", "Remove"}

ASSUME EditorAssumption ==
    /\ NL \in Chars /\ Chars \subseteq 0..255
    /\ {MaxText, MaxUndo, MaxKeys} \subseteq Nat
    /\ Lines \in Nat \ {0} /\ Overflows \in BOOLEAN
    /\ Commands \subseteq EditCommands
    /\ StartStack \in Nat /\ StackMargin \in 5..StartStack

VARIABLES edit,     \* the WEdit
          past,     \* history: what undo would show, key after key
          keys      \* keys pressed so far

vars == <<edit, past, keys>>

-----------------------------------------------------------------------------
(* Reading the buffer.                                                     *)

Text(e) == e.before \o e.after
Cursor(e) == Len(e.before)
LastByte(e) == Len(e.before) + Len(e.after)
Byte(e, i) == IF i \in 0..LastByte(e) - 1 THEN Text(e)[i + 1] ELSE NL
Newlines(e, from, to) == Cardinality({i \in from..to - 1 : Byte(e, i) = NL})
edit_count_lines(e, from, to) == Newlines(e, from, Min({to, LastByte(e)}))

edit_bol(e, at) == Max({0} \cup {i \in 1..at : Byte(e, i - 1) = NL})
edit_eol(e, at) == Min({LastByte(e)} \cup {i \in at..LastByte(e) - 1 : Byte(e, i) = NL})

(* The starts of the next and the last line, and n lines further.          *)
LineDown(e, at) ==
    LET next == edit_eol(e, at) + 1 IN IF next > LastByte(e) THEN at ELSE next
LineUp(e, at) == IF at = 0 THEN 0 ELSE edit_bol(e, at - 1)

Walk(e, at, n, down) ==
    LET line[i \in 0..n] ==
            IF i = 0 THEN at
            ELSE IF down THEN LineDown(e, line[i - 1]) ELSE LineUp(e, line[i - 1])
    IN  IF n <= 0 THEN at ELSE line[n]

edit_move_forward(e, at, n) == Walk(e, at, n, TRUE)
edit_move_backward(e, at, n) == Walk(e, edit_bol(e, at), n, FALSE)

edit_get_col(e) == Cursor(e) - edit_bol(e, Cursor(e))

-----------------------------------------------------------------------------
(* The undo ring.                                                          *)

Entry(op, n) == [op |-> op, n |-> n]
NoEntry == Entry("none", 0)     \* memory that holds no command
IsKey(c) == c.op = "key"

Slot(e, i) == i % e.stack_size
Top(e) == e.undo_stack[Slot(e, e.stack_pointer - 1)]
UnderTop(e) == e.undo_stack[Slot(e, e.stack_pointer - 2)]
Repeated(e) == Top(e).op = "times"
LastEntry(e) == IF Repeated(e) THEN UnderTop(e) ELSE Top(e)
Opposite(c, d) == {c.op, d.op} = {"left", "right"}
IsEmpty(e) == e.stack_pointer = e.stack_bottom

(* The ring doubles until it has MaxUndo entries.                          *)
Enlarge(e) ==
    IF e.stack_pointer > e.stack_size - StackMargin /\ e.stack_size < MaxUndo
    THEN [e EXCEPT !.stack_size = 2 * @,
                   !.undo_stack = [i \in 0..2 * e.stack_size - 1 |->
                                       IF i < e.stack_size THEN @[i] ELSE NoEntry]]
    ELSE e

(* Forgets the oldest key: the bottom moves to the next one.               *)
ForgetKey_OneEntry(e) == [e EXCEPT !.stack_bottom = Slot(e, @ + 1)]
ForgetKey(e) ==
    LET Steps == {i \in 1..e.stack_size :
                      \/ IsKey(e.undo_stack[Slot(e, e.stack_bottom + i)])
                      \/ Slot(e, e.stack_bottom + i) = e.stack_pointer}
    IN  [e EXCEPT !.stack_bottom = Slot(e, @ + Min(Steps))]

Stored(e, c) == [e EXCEPT !.undo_stack[e.stack_pointer] = c,
                          !.stack_pointer = Slot(e, @ + 1),
                          !.stored = @ + 1]
MakeRoom(e) ==
    IF \E i \in {2, 3} : Slot(e, e.stack_pointer + i) = e.stack_bottom
    THEN ForgetKey(e) ELSE e
EmptyUnlessKey(e) ==
    IF ~IsEmpty(e) /\ ~IsKey(e.undo_stack[e.stack_bottom])
    THEN [e EXCEPT !.stack_bottom = 0, !.stack_pointer = 0]
    ELSE e
Store(e, c) == EmptyUnlessKey(MakeRoom(Stored(e, c)))

(* A move and the opposite one leave nothing.                              *)
Annihilate_All(e) == [e EXCEPT !.stack_pointer = Slot(e, @ - 1)]
Annihilate(e) ==
    IF Repeated(e) /\ Top(e).n > 2
    THEN [e EXCEPT !.undo_stack[Slot(e, e.stack_pointer - 1)].n = @ - 1]
    ELSE [e EXCEPT !.stack_pointer = Slot(e, @ - 1),
                   !.misled = @ \/ IsEmpty(e)]

(* The top of the ring is compared with the new entry unless the ring      *)
(* holds one or two entries.  An empty ring is not excepted: what is       *)
(* compared then is left in memory from before.                            *)
PushOnto(e, c) ==
    LET top == Slot(e, e.stack_pointer - 1)
        compared == e.stack_bottom \notin {top, Slot(e, e.stack_pointer - 2)}
        last == LastEntry(e)
        same == compared /\ last = c
    IN  IF same /\ IsKey(c) THEN e
        ELSE IF same /\ Repeated(e) THEN [e EXCEPT !.undo_stack[top].n = @ + 1]
        ELSE IF compared /\ Opposite(c, last) THEN Annihilate(e)
        ELSE Store(e, IF same THEN Entry("times", 2) ELSE c)

edit_push_action(e, c) ==
    IF e.push_action_disabled THEN Enlarge(e) ELSE PushOnto(Enlarge(e), c)

Bottom == Entry("bottom", 0)

(* The popped command and the ring without it.                             *)
pop_action(e) ==
    LET top == Slot(e, e.stack_pointer - 1)
        popped == [e EXCEPT !.stack_pointer = top]
    IN  IF IsEmpty(e) \/ (Repeated(e) /\ top = e.stack_bottom)
        THEN [edit |-> e, ac |-> Bottom]
        ELSE IF ~Repeated(e) THEN [edit |-> popped, ac |-> Top(e)]
        ELSE [edit |-> IF Top(e).n = 2 THEN popped
                       ELSE [e EXCEPT !.undo_stack[top].n = @ - 1],
              ac |-> UnderTop(e)]

-----------------------------------------------------------------------------
(* The five primitives through which the buffer and the cursor change.     *)

One(b) == IF b THEN 1 ELSE 0
OneLine(c) == One(c = NL)

(* The display start moves with a byte inserted or removed above it.       *)
ShiftDisplay_AtStart(e, c, d) ==
    IF Cursor(e) <= e.start_display
    THEN [e EXCEPT !.start_display = @ + d, !.start_line = @ + d * OneLine(c)]
    ELSE e
ShiftDisplay(e, c, d) ==
    IF Cursor(e) < e.start_display
    THEN [e EXCEPT !.start_display = @ + d, !.start_line = @ + d * OneLine(c)]
    ELSE e

edit_insert(e, c) ==
    [edit_push_action(ShiftDisplay(e, c, 1), Entry("backspace", 0)) EXCEPT
        !.before = Append(@, c),
        !.curs_line = @ + OneLine(c),
        !.total_lines = @ + OneLine(c),
        !.mark1 = @ + One(@ > Cursor(e)),
        !.mark2 = @ + One(@ > Cursor(e))]

edit_insert_ahead(e, c) ==
    [edit_push_action(ShiftDisplay(e, c, 1), Entry("delete", 0)) EXCEPT
        !.after = <<c>> \o @,
        !.total_lines = @ + OneLine(c),
        !.mark1 = @ + One(@ >= Cursor(e)),
        !.mark2 = @ + One(@ >= Cursor(e))]

edit_delete(e) ==
    LET c == Head(e.after)
        deleted == [e EXCEPT !.after = Tail(@),
                             !.total_lines = @ - OneLine(c),
                             !.mark1 = @ - One(@ > Cursor(e)),
                             !.mark2 = @ - One(@ > Cursor(e))]
    IN  IF e.after = <<>> THEN e
        ELSE ShiftDisplay(edit_push_action(deleted, Entry("ahead", c)), c, -1)

edit_backspace(e) ==
    LET c == Last(e.before)
        deleted == [e EXCEPT !.before = Front(@),
                             !.curs_line = @ - OneLine(c),
                             !.total_lines = @ - OneLine(c),
                             !.mark1 = @ - One(@ >= Cursor(e)),
                             !.mark2 = @ - One(@ >= Cursor(e))]
    IN  IF e.before = <<>> THEN e
        ELSE ShiftDisplay(edit_push_action(deleted, Entry("insert", c)), c, -1)

StepLeft(e) ==
    IF e.before = <<>> THEN e
    ELSE LET c == Last(e.before)
         IN  [edit_push_action(e, Entry("right", 0)) EXCEPT
                 !.before = Front(@), !.after = <<c>> \o @,
                 !.curs_line = @ - OneLine(c)]

StepRight(e) ==
    IF e.after = <<>> THEN e
    ELSE LET c == Head(e.after)
         IN  [edit_push_action(e, Entry("left", 0)) EXCEPT
                 !.before = Append(@, c), !.after = Tail(@),
                 !.curs_line = @ + OneLine(c)]

(* One command of the ring, and several: the loops of the editor repeat    *)
(* the primitives.                                                         *)
Do(e, c) ==
    CASE c.op = "right" -> StepRight(e)
      [] c.op = "left" -> StepLeft(e)
      [] c.op = "backspace" -> edit_backspace(e)
      [] c.op = "delete" -> edit_delete(e)
      [] c.op = "ahead" -> edit_insert_ahead(e, c.n)
      [] c.op = "insert" -> edit_insert(e, c.n)
      [] c.op = "mark1" -> [e EXCEPT !.mark1 = c.n]
      [] c.op = "mark2" -> [e EXCEPT !.mark2 = c.n]
      [] OTHER -> e

DoAll(e, cs) ==
    LET done[i \in 0..Len(cs)] == IF i = 0 THEN e ELSE Do(done[i - 1], cs[i])
    IN  done[Len(cs)]

Times(op, e, n) == DoAll(e, [i \in 1..n |-> Entry(op, 0)])

edit_cursor_move(e, n) ==
    Times(IF n < 0 THEN "left" ELSE "right", e, IF n < 0 THEN -n ELSE n)
MoveTo(e, at) == edit_cursor_move(e, at - Cursor(e))

-----------------------------------------------------------------------------
(* The display.                                                            *)

edit_scroll_upward(e, n) ==
    LET i == Min({n, e.start_line})
    IN  IF i = 0 THEN e
        ELSE [e EXCEPT !.start_line = @ - i,
                       !.start_display = edit_move_backward(e, @, i)]

edit_scroll_downward_FullPage(e, n) ==
    LET below == e.total_lines - e.start_line - Lines
        i == Min({n, below})
    IN  IF below <= 0 THEN e
        ELSE [e EXCEPT !.start_line = @ + i,
                       !.start_display = edit_move_forward(e, @, i)]

edit_scroll_downward(e, n) ==
    LET below == e.total_lines - e.start_line - (Lines - 1)
        i == Min({n, below})
    IN  IF below <= 0 THEN e
        ELSE [e EXCEPT !.start_line = @ + i,
                       !.start_display = edit_move_forward(e, @, i)]

CursorRow(e) == e.curs_line - e.start_line

edit_scroll_screen_over_cursor(e) ==
    IF CursorRow(e) >= Lines THEN edit_scroll_downward(e, CursorRow(e) - Lines + 1)
    ELSE IF CursorRow(e) < 0 THEN edit_scroll_upward(e, -CursorRow(e))
    ELSE e

-----------------------------------------------------------------------------
(* Moving.                                                                 *)

edit_move_to_prev_col(e, line) ==
    MoveTo(e, Min({line + e.prev_col, edit_eol(e, line)}))

edit_move_up(e, n, scroll) ==
    LET i == Min({n, e.curs_line})
        scrolled == IF scroll THEN edit_scroll_upward(e, i) ELSE e
        line == edit_move_backward(e, Cursor(e), i)
    IN  IF i = 0 THEN e ELSE edit_move_to_prev_col(MoveTo(scrolled, line), line)

edit_move_down(e, n, scroll) ==
    LET i == Min({n, e.total_lines - e.curs_line})
        scrolled == IF scroll THEN edit_scroll_downward(e, i) ELSE e
        line == edit_move_forward(e, edit_bol(e, Cursor(e)), i)
    IN  IF i = 0 THEN e ELSE edit_move_to_prev_col(MoveTo(scrolled, line), line)

edit_move_to_top(e) ==
    IF e.curs_line = 0 THEN e ELSE edit_move_to_prev_col(MoveTo(e, 0), 0)

edit_move_to_bottom(e) ==
    IF e.curs_line = e.total_lines THEN e
    ELSE edit_scroll_upward([MoveTo(e, LastByte(e)) EXCEPT
                                 !.start_display = LastByte(e),
                                 !.start_line = e.total_lines], Lines - 1)

edit_cursor_to_bol(e) == MoveTo(e, edit_bol(e, Cursor(e)))
edit_cursor_to_eol(e) == MoveTo(e, edit_eol(e, Cursor(e)))

edit_delete_to_line_end(e) == Times("delete", e, edit_eol(e, Cursor(e)) - Cursor(e))
edit_delete_to_line_begin(e) == Times("backspace", e, edit_get_col(e))

(* The line goes with its line feed and with the one before it, which is   *)
(* put back: first what is behind the cursor, then what is before it.      *)
DeleteBefore(e) ==
    LET bol == edit_bol(e, Cursor(e))
        all == Times("backspace", e, Cursor(e) - Max({bol - 1, 0}))
    IN  IF bol = 0 THEN all ELSE edit_insert(all, NL)

edit_delete_line(e) ==
    LET eol == edit_eol(e, Cursor(e))
    IN  DeleteBefore(Times("delete", e, Min({eol + 1, LastByte(e)}) - Cursor(e)))

-----------------------------------------------------------------------------
(* Marking.  A second mark of -1 follows the cursor.                       *)

Following == -1

edit_push_markers(e) ==
    edit_push_action(edit_push_action(e, Entry("mark1", e.mark1)), Entry("mark2", e.mark2))

edit_set_markers(e, m1, m2) == [e EXCEPT !.mark1 = m1, !.mark2 = m2]

SetMark(e, unmark) ==
    IF unmark THEN edit_set_markers(e, 0, 0)
    ELSE IF e.mark2 # Following THEN edit_set_markers(e, Cursor(e), Following)
    ELSE edit_set_markers(e, e.mark1, Cursor(e))
edit_mark_cmd(e, unmark) == SetMark(edit_push_markers(e), unmark)

(* The marked block: its start and the offset behind its end.              *)
Marked(e) ==
    LET ends == {e.mark1, IF e.mark2 = Following THEN Cursor(e) ELSE e.mark2}
    IN  IF e.mark1 = e.mark2 THEN [start |-> 0, end |-> 0]
        ELSE [start |-> Min(ends), end |-> Max(ends)]
IsMarked(e) == e.mark1 # e.mark2

BlockLength(b) == b.end - b.start
edit_get_block(e, b) == [i \in 1..BlockLength(b) |-> Byte(e, b.start + i - 1)]

(* The block goes in behind the cursor, its last byte first.               *)
InsertBlock(e, block) ==
    DoAll(e, [i \in 1..Len(block) |-> Entry("ahead", block[Len(block) + 1 - i])])

edit_block_copy_cmd(e) ==
    LET b == Marked(e)
        copied == edit_scroll_screen_over_cursor(
                      InsertBlock(edit_push_markers(e), edit_get_block(e, b)))
    IN  IF ~IsMarked(e) THEN e
        ELSE IF b.start < Cursor(e) /\ Cursor(e) < b.end
        THEN edit_set_markers(copied, b.start, b.end + BlockLength(b))
        ELSE copied

(* A block of more than half the ring is moved or deleted only when the    *)
(* user agrees that it may not be possible to undo that.                   *)
Refused(b, agrees) == BlockLength(b) > MaxUndo \div 2 /\ ~agrees

(* Where the cursor was, when the block is out of the text.                *)
AfterCut_Same(at, b) == at
AfterCut(at, b) == IF at > b.start THEN at - BlockLength(b) ELSE at

(* The block is marked where it has been inserted.                         *)
MarkInserted(e, n) == edit_set_markers(e, Cursor(e), Cursor(e) + n)

edit_block_move_cmd(e, agrees) ==
    LET b == Marked(e)
        at == Cursor(e)
        block == edit_get_block(e, b)
        cut == Times("delete",
                     edit_scroll_screen_over_cursor(MoveTo(edit_push_markers(e), b.start)),
                     BlockLength(b))
        there == MoveTo(edit_scroll_screen_over_cursor(cut), AfterCut(at, b))
        moved == InsertBlock(edit_scroll_screen_over_cursor(there), block)
    IN  IF ~IsMarked(e) \/ at \in b.start..b.end \/ Refused(b, agrees) THEN e
        ELSE edit_scroll_screen_over_cursor(
                 MarkInserted(moved, BlockLength(b)))

edit_block_delete(e, agrees) ==
    LET b == Marked(e)
        there == edit_scroll_screen_over_cursor(MoveTo(edit_push_markers(e), b.start))
    IN  IF Refused(b, agrees) THEN e
        ELSE edit_set_markers(Times("delete", there, BlockLength(b)), 0, 0)

edit_block_delete_cmd(e, agrees) ==
    IF IsMarked(e) THEN edit_block_delete(e, agrees) ELSE edit_delete_line(e)

-----------------------------------------------------------------------------
(* Undo: commands are popped and done until the key that they belong to;   *)
(* then the display starts again where that key found it.                  *)

DisplayFrom(e, start) ==
    [e EXCEPT !.start_display = start,
              !.start_line = @ + edit_count_lines(e, e.start_display, start)
                               - edit_count_lines(e, start, e.start_display)]

(* The commands that the ring holds, the repeated ones counted.            *)
InRing(e) ==
    {i \in 0..e.stack_size - 1 :
        Slot(e, i - e.stack_bottom) < Slot(e, e.stack_pointer - e.stack_bottom)}
Held(e) ==
    UNION {{i} \X (1..IF e.undo_stack[i].op = "times" THEN e.undo_stack[i].n ELSE 1) :
               i \in InRing(e)}

PopKey(e) ==
    LET pops == Cardinality(Held(e))
        Popped(r) ==
            LET p == pop_action(r.edit)
            IN  IF r.done THEN r
                ELSE IF p.ac = Bottom THEN [edit |-> p.edit, done |-> TRUE]
                ELSE IF IsKey(p.ac)
                THEN [edit |-> DisplayFrom(p.edit, p.ac.n), done |-> TRUE]
                ELSE [edit |-> Do(p.edit, p.ac), done |-> FALSE]
        popped[i \in 0..pops] ==
            IF i = 0 THEN [edit |-> e, done |-> FALSE] ELSE Popped(popped[i - 1])
    IN  popped[pops].edit

edit_do_undo(e) ==
    [PopKey([e EXCEPT !.push_action_disabled = TRUE]) EXCEPT !.push_action_disabled = FALSE]

-----------------------------------------------------------------------------
(* A key: its command, and the screen that follows the cursor.             *)

Highlights == {"Left_Highlight", "Right_Highlight", "Down_Highlight"}
Vertical == {"Up", "Down", "Page_Up", "Page_Down", "Down_Highlight",
             "Beginning_Of_Text", "End_Of_Text"}

(* Shift and an arrow mark; any other command ends that marking.           *)
Highlighting(e, command) ==
    IF command \in Highlights
    THEN LET fresh == ~e.highlight \/ (e.mark2 # Following /\ e.mark1 # e.mark2)
         IN  [IF fresh THEN edit_mark_cmd(edit_mark_cmd(e, TRUE), FALSE) ELSE e
              EXCEPT !.highlight = TRUE]
    ELSE [IF e.highlight THEN edit_mark_cmd(e, FALSE) ELSE e EXCEPT !.highlight = FALSE]

Typed(e, c) ==
    edit_insert(IF e.overwrite /\ Byte(e, Cursor(e)) # NL THEN edit_delete(e) ELSE e, c)

Command(e, command, agrees) ==
    CASE command = "BackSpace" -> edit_backspace(e)
      [] command = "Delete" -> edit_delete(e)
      [] command = "Delete_Line" -> edit_delete_line(e)
      [] command = "Delete_To_Line_End" -> edit_delete_to_line_end(e)
      [] command = "Delete_To_Line_Begin" -> edit_delete_to_line_begin(e)
      [] command \in {"Left", "Left_Highlight"} -> edit_cursor_move(e, -1)
      [] command \in {"Right", "Right_Highlight"} -> edit_cursor_move(e, 1)
      [] command = "Up" -> edit_move_up(e, 1, FALSE)
      [] command \in {"Down", "Down_Highlight"} -> edit_move_down(e, 1, FALSE)
      [] command = "Page_Up" -> edit_move_up(e, Lines - 1, TRUE)
      [] command = "Page_Down" -> edit_move_down(e, Lines - 1, TRUE)
      [] command = "Home" -> edit_cursor_to_bol(e)
      [] command = "End" -> edit_cursor_to_eol(e)
      [] command = "Beginning_Of_Text" -> edit_move_to_top(e)
      [] command = "End_Of_Text" -> edit_move_to_bottom(e)
      [] command = "Toggle_Insert" -> [e EXCEPT !.overwrite = ~@]
      [] command = "Mark" -> edit_mark_cmd(e, FALSE)
      [] command = "Unmark" -> edit_mark_cmd(e, TRUE)
      [] command = "Copy" -> edit_block_copy_cmd(e)
      [] command = "Move" -> edit_block_move_cmd(e, agrees)
      [] command = "Remove" -> edit_block_delete_cmd(e, agrees)

KeepColumn(e) == [e EXCEPT !.prev_col = edit_get_col(e)]

edit_push_key_press(e) ==
    LET pushed == edit_push_action(e, Entry("key", e.start_display))
    IN  IF e.mark2 = Following THEN edit_push_action(pushed, Entry("mark1", e.mark1))
        ELSE pushed

TypeKey(e, c) ==
    edit_scroll_screen_over_cursor(KeepColumn(
        Typed(Highlighting(edit_push_key_press(e), "Type"), c)))

CommandKey(e, command, agrees) ==
    LET done == Command(Highlighting(edit_push_key_press(e), command), command, agrees)
    IN  edit_scroll_screen_over_cursor(IF command \in Vertical THEN done ELSE KeepColumn(done))

UndoKey(e) ==
    edit_scroll_screen_over_cursor(KeepColumn(edit_do_undo(Highlighting(e, "Undo"))))

-----------------------------------------------------------------------------
(* What the user sees, and what undo would show, key after key, until the  *)
(* ring is empty.                                                          *)
Seen(e) == [text |-> Text(e), cursor |-> Cursor(e), top |-> e.start_display]

Past(e) ==
    LET Undone(r) == IF IsEmpty(r.edit) THEN r
                     ELSE LET u == edit_scroll_screen_over_cursor(edit_do_undo(r.edit))
                          IN  [edit |-> u, seen |-> <<Seen(u)>> \o r.seen]
        undone[i \in 0..e.stack_size] ==
            IF i = 0 THEN [edit |-> e, seen |-> <<>>] ELSE Undone(undone[i - 1])
    IN  undone[e.stack_size].seen

(* The text of the file that is opened, of two bytes here; the memory of    *)
(* the ring is fresh.                                                      *)
Loaded(text) ==
    [before |-> <<>>, after |-> text,
     curs_line |-> 0, total_lines |-> Cardinality({i \in DOMAIN text : text[i] = NL}),
     start_display |-> 0, start_line |-> 0, prev_col |-> 0,
     mark1 |-> 0, mark2 |-> 0, highlight |-> FALSE, overwrite |-> FALSE,
     undo_stack |-> [i \in 0..StartStack - 1 |-> NoEntry],
     stack_size |-> StartStack, stack_pointer |-> 0, stack_bottom |-> 0,
     push_action_disabled |-> FALSE,
     stored |-> 0,      \* history: entries that the last key stored
     misled |-> FALSE]  \* history: a move annihilated an entry of an empty ring

Init == /\ \E text \in [1..2 -> Chars] : edit = Loaded(text)
        /\ past = <<>>
        /\ keys = 0

Press(e) == /\ keys < MaxKeys
            /\ LastByte(e) <= MaxText
            /\ Overflows \/ e.stored - edit.stored < MaxUndo - 3
            /\ keys' = keys + 1
            /\ edit' = [e EXCEPT !.stored = 0]
            /\ past' = Past(e)

Type == \E c \in Chars : Press(TypeKey(edit, c))
Asked(e) == Refused(Marked(e), FALSE)
Execute == \E command \in Commands, agrees \in {TRUE, ~Asked(edit)} :
               Press(CommandKey(edit, command, agrees))
Undo == Press(UndoKey(edit))

Next == Type \/ Execute \/ Undo

Spec == Init /\ [][Next]_vars

-----------------------------------------------------------------------------
(* Properties.                                                             *)

AllSeen == [text : Seq(Chars), cursor : Nat, top : Nat]

(* "Key for key undo" (mcedit.1.in:69) and "undo tracks scrolling and key  *)
(* actions exactly" (edit.c:450-451), through compression, annihilation,   *)
(* growth and wrap-around of the ring.                                     *)
Abstract == INSTANCE EditText WITH Shown <- AllSeen, now <- Seen(edit)
UndoIsExact == Abstract!Spec

(* The offsets stay inside the text.                                       *)
TypeOK ==
    /\ {edit.before, edit.after} \subseteq Seq(Chars)
    /\ edit.start_display \in 0..LastByte(edit)
    /\ edit.mark1 \in 0..LastByte(edit)
    /\ edit.mark2 \in Following..LastByte(edit)
    /\ {edit.stack_pointer, edit.stack_bottom} \subseteq 0..edit.stack_size - 1
    /\ DOMAIN edit.undo_stack = 0..edit.stack_size - 1
    /\ keys \in 0..MaxKeys

(* The counters that the primitives keep by one are the ones that a count  *)
(* of the line feeds gives.                                                *)
Counted ==
    /\ edit.curs_line = Newlines(edit, 0, Cursor(edit))
    /\ edit.total_lines = Newlines(edit, 0, LastByte(edit))
    /\ edit.start_line = Newlines(edit, 0, edit.start_display)

(* The offsets and the counters together.                                  *)
Consistent == TypeOK /\ Counted

(* After every key the cursor is on the screen.                            *)
CursorIsShown == CursorRow(edit) \in 0..Lines - 1

(* The block commands do to the text what the marks say, wherever the      *)
(* cursor is: the copy goes in at the cursor, a move takes the block to    *)
(* the cursor unless that is in it or at its ends, a delete leaves the     *)
(* rest.                                                                   *)
Before(e, i) == SubSeq(Text(e), 1, i)
Behind(e, i) == SubSeq(Text(e), i + 1, LastByte(e))

BlocksAsMarked ==
    LET e == edit
        b == Marked(e)
        at == Cursor(e)
        block == edit_get_block(e, b)
    IN  IsMarked(e) =>
        /\ Text(edit_block_copy_cmd(e)) = Before(e, at) \o block \o Behind(e, at)
        /\ Text(edit_block_delete_cmd(e, TRUE)) = Before(e, b.start) \o Behind(e, b.end)
        /\ Text(edit_block_move_cmd(e, TRUE)) =
               IF at < b.start
               THEN Before(e, at) \o block \o SubSeq(Text(e), at + 1, b.start) \o Behind(e, b.end)
               ELSE IF at > b.end
               THEN Before(e, b.start) \o SubSeq(Text(e), b.end + 1, at) \o block \o Behind(e, at)
               ELSE Text(e)

(* A full ring forgets its oldest keys, never the one just typed.  The     *)
(* exception is an empty ring in whose memory the same key entry lies: it  *)
(* passes for the last entry and the new key is not stored.                *)
StaleKey(e) == IsEmpty(e) /\ LastEntry(Enlarge(e)) = Entry("key", e.start_display)

TypedIsKept ==
    LET undone == Past(TypeKey(edit, NL))
    IN  StaleKey(edit) \/ (undone # <<>> /\ Last(undone) = Seen(edit))

=============================================================================
