-------------------------- MODULE EditorInvariants --------------------------
(***************************************************************************)
(* What the proofs about the editor are made of: the ring as a list of     *)
(* entries from its bottom to its top, what it means that these lead back  *)
(* to what was seen (Fits), what each of the primitives, commands and keys *)
(* does, and the two inductive invariants, Invariant and Exact.            *)
(***************************************************************************)
EXTENDS Editor

-----------------------------------------------------------------------------
(* The editor and its ring.                                                *)

\* The entries of the ring, and the editors.
Ops == {"right", "left", "backspace", "delete", "ahead", "insert",
        "mark1", "mark2", "key", "times", "none"}
Entries == {c \in [op : Ops, n : Int] : c.op \in {"ahead", "insert"} => c.n \in Chars}
Stacks == UNION {[0..n - 1 -> Entries] : n \in Nat}

Edits ==
    [before : Seq(Chars), after : Seq(Chars), curs_line : Int, total_lines : Int,
     start_display : Int, start_line : Int, prev_col : Int,
     mark1 : Int, mark2 : Int, highlight : BOOLEAN, overwrite : BOOLEAN,
     undo_stack : Stacks, stack_size : Nat, stack_pointer : Nat, stack_bottom : Nat,
     push_action_disabled : BOOLEAN, stored : Nat, misled : BOOLEAN]

\* The ring is a ring.
Ring(e) ==
    /\ e.stack_size >= 5
    /\ e.undo_stack \in [0..e.stack_size - 1 -> Entries]
    /\ {e.stack_pointer, e.stack_bottom} \subseteq 0..e.stack_size - 1

\* An editor with such a ring.
Formed(e) == e \in Edits /\ Ring(e)

\* What two editors have in common.
SameRing(e, f) ==
    /\ f.undo_stack = e.undo_stack /\ f.stack_size = e.stack_size
    /\ f.stack_pointer = e.stack_pointer /\ f.stack_bottom = e.stack_bottom
    /\ f.push_action_disabled = e.push_action_disabled
    /\ f.stored = e.stored /\ f.misled = e.misled

SameText(e, f) ==
    /\ f.before = e.before /\ f.after = e.after
    /\ f.curs_line = e.curs_line /\ f.total_lines = e.total_lines

SameScreen(e, f) ==
    /\ f.start_display = e.start_display /\ f.start_line = e.start_line
    /\ f.mark1 = e.mark1 /\ f.mark2 = e.mark2

SameModes(e, f) ==
    /\ f.prev_col = e.prev_col /\ f.highlight = e.highlight
    /\ f.overwrite = e.overwrite

\* Only the ring may be another.
Pushed(e, f) ==
    /\ SameText(e, f) /\ SameScreen(e, f) /\ SameModes(e, f)
    /\ f.push_action_disabled = e.push_action_disabled

\* What is built up from base in L steps of F.
Runs(L, X, base, F) ==
    {g \in [0..L -> X] :
        g[0] = base /\ \A n \in 1..L : g[n] = F[<<g[n - 1], n>>]}

\* What a push leaves alone, and that it is not led right again.
Kin(e, f) == Formed(f) /\ Pushed(e, f) /\ (e.misled => f.misled)

\* The steps of which the operations on the ring are made.
WithBottom(e, b) == [e EXCEPT !.stack_bottom = b]
WithPointer(e, p) == [e EXCEPT !.stack_pointer = p]
WithPointerMisled(e, p, m) == [e EXCEPT !.stack_pointer = p, !.misled = m]
WithCount(e, i, n) == [e EXCEPT !.undo_stack[i].n = n]
WithEntry(e, c, p) == [e EXCEPT !.undo_stack[e.stack_pointer] = c,
                                !.stack_pointer = p, !.stored = @ + 1]

-----------------------------------------------------------------------------
(* The ring, seen from its bottom, and the counters.                       *)

\* The places of a ring, counted from its bottom.
At(e, j) == Slot(e, e.stack_bottom + j)
Depth(e) == Slot(e, e.stack_pointer - e.stack_bottom)
Item(e, j) == e.undo_stack[At(e, j)]

\* The line feeds among the first k bytes.
Feeds(t, k) == Cardinality({i \in 0..k - 1 : t[i + 1] = NL})

\* u is t with c behind the first p bytes.
Inserted(t, u, p, c) ==
    /\ p \in 0..Len(t) /\ Len(u) = Len(t) + 1
    /\ \A i \in 1..p : u[i] = t[i]
    /\ u[p + 1] = c
    /\ \A i \in p + 1..Len(t) : u[i + 1] = t[i]

\* The counters are the line feeds.
Right(e) ==
    /\ e.curs_line = Feeds(Text(e), Cursor(e))
    /\ e.total_lines = Feeds(Text(e), LastByte(e))

\* The screen and the marks lie in the text.
Placed(e) ==
    /\ e.start_display \in 0..LastByte(e)
    /\ e.start_line = Feeds(Text(e), e.start_display)
    /\ e.mark1 \in 0..LastByte(e)
    /\ e.mark2 \in Following..LastByte(e)

\* The ring of f is that of e after c was pushed.
Via(e, c, f) ==
    \E g : Formed(g) /\ SameRing(e, g) /\ SameRing(edit_push_action(g, c), f)

-----------------------------------------------------------------------------
(* The primitives.                                                         *)

\* Assigning the fields that the primitives assign.
Set(e, b, a, cl, tl, m1, m2) ==
    [e EXCEPT !.before = b, !.after = a, !.curs_line = cl, !.total_lines = tl,
              !.mark1 = m1, !.mark2 = m2]

\* The fields that the primitives assign.
SetTo(e, f, b, a, cl, tl, m1, m2) ==
    /\ Formed(f) /\ SameRing(e, f) /\ SameModes(e, f)
    /\ f.before = b /\ f.after = a
    /\ f.curs_line = cl /\ f.total_lines = tl
    /\ f.mark1 = m1 /\ f.mark2 = m2
    /\ f.start_display = e.start_display /\ f.start_line = e.start_line

\* What every primitive leaves.
Primitive(e, d, f) ==
    /\ Formed(f) /\ SameModes(e, f) /\ Via(e, d, f)
    /\ e.misled => f.misled
    /\ f.push_action_disabled = e.push_action_disabled

\* The screen goes along with a byte c above it, n being 1 or -1.
Screen(e, f, up, c, n) ==
    /\ up => /\ f.start_display = e.start_display + n
             /\ f.start_line = e.start_line + n * OneLine(c)
    /\ ~up => /\ f.start_display = e.start_display
              /\ f.start_line = e.start_line

\* The counts stay right, and then the screen stays in its place.
Keeps(e, f) ==
    /\ Right(e) => Right(f)
    /\ Right(e) /\ Placed(e) => Placed(f)

\* The commands that the five primitives carry out.
MoveOps == {"right", "left", "backspace", "delete", "ahead", "insert"}
Moves == {c \in Entries : c.op \in MoveOps}

\* The command c turns the text b, a around the cursor into b2, a2.
Turns(c, b, a, b2, a2) ==
    \/ c.op = "right" /\ \E x \in Chars : a = <<x>> \o a2 /\ b2 = Append(b, x)
    \/ c.op = "left" /\ \E x \in Chars : b = Append(b2, x) /\ a2 = <<x>> \o a
    \/ c.op = "backspace" /\ a2 = a /\ \E x \in Chars : b = Append(b2, x)
    \/ c.op = "delete" /\ b2 = b /\ \E x \in Chars : a = <<x>> \o a2
    \/ c.op = "ahead" /\ b2 = b /\ c.n \in Chars /\ a2 = <<c.n>> \o a
    \/ c.op = "insert" /\ a2 = a /\ c.n \in Chars /\ b2 = Append(b, c.n)

\* What a primitive does, and the command that undoes it.
Done(e, c, d, f) ==
    /\ d \in Moves /\ Primitive(e, d, f) /\ Keeps(e, f)
    /\ Turns(c, e.before, e.after, f.before, f.after)
    /\ Turns(d, f.before, f.after, e.before, e.after)

-----------------------------------------------------------------------------
(* What the ring leads back to.                                            *)

\* What undo goes through: a text around a cursor, and the log of what was
\* seen before.
Views == [before : Seq(Chars), after : Seq(Chars), past : Seq(AllSeen)]
Length(v) == Len(v.before) + Len(v.after)
Shot(v, n) == [text |-> v.before \o v.after, cursor |-> Len(v.before), top |-> n]

\* With the display starting at n, the cursor is on the screen.
Visible(v, n) ==
    Feeds(v.before \o v.after, Len(v.before)) - Feeds(v.before \o v.after, n) \in 0..Lines - 1

\* The command c leads back from the view v to w.
Undoes(c, v, w) ==
    \/ /\ c \in Moves /\ Turns(c, v.before, v.after, w.before, w.after)
       /\ w.past = v.past
    \/ c.op = "mark1" /\ c.n \in 0..Length(v) /\ w = v
    \/ c.op = "mark2" /\ c.n \in Following..Length(v) /\ w = v
    \/ /\ c.op = "key" /\ c.n \in 0..Length(w) /\ Visible(w, c.n)
       /\ w.before = v.before /\ w.after = v.after
       /\ v.past = Append(w.past, Shot(w, c.n))

\* c leads back from v to w in k steps.
Chain(c, k, v, w) ==
    \E h \in [0..k -> Views] :
        h[0] = v /\ h[k] = w /\ \A i \in 0..k - 1 : Undoes(c, h[i], h[i + 1])

\* at[j + 1] is the view when the entry j of r is on top.
Link(r, at, j) ==
    IF r[j].op = "times"
    THEN /\ j > 0 /\ r[j].n >= 2 /\ r[j - 1].op \notin {"times", "key"}
         /\ Chain(r[j - 1], r[j].n - 1, at[j + 1], at[j])
    ELSE Undoes(r[j], at[j + 1], at[j])

\* The same views, entry by entry: the log never gets longer on the way down,
\* and a key is at the bottom.
FitAt(d, r, at) ==
    /\ \A i, j \in 0..d : i <= j => Len(at[i].past) <= Len(at[j].past)
    /\ \A j \in 0..d - 1 : Link(r, at, j)
    /\ d > 0 => IsKey(r[0])

\* The d entries of r lead back from the view v to one with a log of m
\* entries.
Fit(d, r, v, m) ==
    \E at \in [0..d -> Views] : FitAt(d, r, at) /\ at[d] = v /\ Len(at[0].past) = m

\* The entries of the ring lead back from v to a view with a log of m entries.
Fits(e, v, m) == Fit(Depth(e), [j \in 0..Depth(e) - 1 |-> Item(e, j)], v, m)

\* There is room in the ring, and until it has its full size it begins where
\* its memory begins.
Shape(e) ==
    /\ Depth(e) <= e.stack_size - 4
    /\ e.stack_size >= StartStack
    /\ e.stack_size < MaxUndo => e.stack_bottom = 0

\* A ring that is not full grows before it is full.
Roomy(e) == e.stack_size < MaxUndo => e.stack_pointer <= e.stack_size - StackMargin

\* An entry that leads back from x to what the ring leads back from.
Leads(e, c, x, v) ==
    IF c.op = "times"
    THEN Depth(e) > 0 => /\ c.n = 2
                         /\ Item(e, Depth(e) - 1).op \notin {"times", "key"}
                         /\ Undoes(Item(e, Depth(e) - 1), x, v)
    ELSE Undoes(c, x, v)

\* What the editor shows now, with a log.
View(e, log) == [before |-> e.before, after |-> e.after, past |-> log]

\* The counts are right and what is done is pushed.
Sound(e) == Formed(e) /\ Right(e) /\ ~e.push_action_disabled

\* The screen lies in the text, and the ring leads back from it along the log,
\* but for the first entries, n or more.
Good(e, log, n) ==
    /\ Placed(e) /\ Shape(e)
    /\ \E m \in Nat : n <= m /\ Fits(e, View(e, log), m)

\* f may come after e, between two keys.
Follows(e, f) ==
    /\ Sound(f) /\ (e.misled => f.misled)
    /\ \A log \in Seq(AllSeen), n \in Nat : Good(e, log, n) /\ ~f.misled => Good(f, log, n)

-----------------------------------------------------------------------------
(* Lines, and the loops of the commands.                                   *)

\* A line starts at a place.
Starts(e, at) == at = 0 \/ Text(e)[at] = NL

\* The next line on a walk.
NextLine(e, at, down) == IF down THEN LineDown(e, at) ELSE LineUp(e, at)

\* A walk over lines, step by step.
Walked(e, at, n, down) ==
    \E h \in [0..n -> Int] :
        /\ h[0] = at /\ Walk(e, at, n, down) = h[n]
        /\ \A i \in 1..n : h[i] = NextLine(e, h[i - 1], down)

\* Another start of the screen.
WithTop(e, d, l) == [e EXCEPT !.start_display = d, !.start_line = l]

\* Only the screen may be another.
Scrolled(e, f) ==
    /\ Formed(f) /\ SameRing(e, f) /\ SameText(e, f) /\ SameModes(e, f)
    /\ f.mark1 = e.mark1 /\ f.mark2 = e.mark2

\* A command that is repeated, step by step.
Repeatedly(op, e, n) ==
    \E g \in [0..n -> {x \in Edits : Ring(x)}] :
        /\ g[0] = e /\ Times(op, e, n) = g[n]
        /\ \A i \in 1..n : g[i] = Do(g[i - 1], Entry(op, 0))

\* The commands that the loops of the editor repeat.
Loops == {"left", "right", "delete", "backspace"}

\* The cursor k places further in the same text.
Moved(e, f, k) ==
    /\ Formed(f) /\ Text(f) = Text(e) /\ Cursor(f) = Cursor(e) + k
    /\ f.total_lines = e.total_lines /\ SameScreen(e, f) /\ SameModes(e, f)

\* The cursor somewhere in the same text.
Elsewhere(e, f) ==
    /\ Formed(f) /\ Text(f) = Text(e)
    /\ f.total_lines = e.total_lines /\ SameScreen(e, f) /\ SameModes(e, f)

\* The first n bytes behind the cursor are gone.
Trimmed(e, f, n) ==
    /\ Formed(f) /\ f.before = e.before /\ Len(f.after) = Len(e.after) - n
    /\ \A k \in 1..Len(e.after) - n : f.after[k] = e.after[n + k]

\* The last n bytes of the block are in, behind the cursor.
Filled(e, f, block, n) ==
    /\ Formed(f) /\ f.before = e.before /\ Len(f.after) = n + Len(e.after)
    /\ \A k \in 1..n : f.after[k] = block[Len(block) - n + k]
    /\ \A k \in 1..Len(e.after) : f.after[n + k] = e.after[k]

-----------------------------------------------------------------------------
(* A key.                                                                  *)

\* The cursor is on the screen.
OnScreen(e) == CursorRow(e) \in 0..Lines - 1

\* f comes after the key that is pressed on e: what was seen is recorded, or was
\* before.
Recorded(e, f) ==
    /\ Sound(f) /\ (e.misled => f.misled)
    /\ \A log \in Seq(AllSeen), n \in Nat :
          Good(e, log, n) /\ ~f.misled =>
             \/ Seen(e) \in AllSeen /\ Good(f, Append(log, Seen(e)), n)
             \/ log # <<>> /\ Last(log) = Seen(e) /\ Good(f, log, n)

-----------------------------------------------------------------------------
(* Undo.                                                                   *)

\* How many commands an entry stands for.
Count(c) == IF c.op = "times" THEN c.n ELSE 1

\* f is the ring of e without the command c that leads from v to w.
Popped(e, f, c, v, w, m) ==
    /\ Undoes(c, v, w) /\ Fits(f, w, m) /\ Shape(f)
    /\ Depth(f) = 0 => IsKey(c)
    /\ Cardinality(Held(f)) < Cardinality(Held(e))

\* f comes of e when nothing is pushed.
Quiet(e, f) ==
    /\ Formed(f) /\ Right(f) /\ f.push_action_disabled /\ f.misled = e.misled

\* The ring leads back from f as it did from e.
Loose(e, f) ==
    /\ Placed(f) /\ Shape(f) /\ Depth(f) = Depth(e) /\ Held(f) = Held(e)
    /\ \A x, m : Fits(e, x, m) => Fits(f, x, m)

\* One round of the loop that pops.
PopStep(r) ==
    LET p == pop_action(r.edit)
    IN  IF r.done THEN r
        ELSE IF p.ac = Bottom THEN [edit |-> p.edit, done |-> TRUE]
        ELSE IF IsKey(p.ac)
        THEN [edit |-> DisplayFrom(p.edit, p.ac.n), done |-> TRUE]
        ELSE [edit |-> Do(p.edit, p.ac), done |-> FALSE]

\* Where the loop may be that started with e.
Rounds(e) == [edit : {x \in Edits : Quiet(e, x)}, done : BOOLEAN]

\* The loop, round by round.
Looped(e, pops) ==
    \E h \in [0..pops -> Rounds(e)] :
        /\ h[0] = [edit |-> e, done |-> FALSE] /\ PopKey(e) = h[pops].edit
        /\ \A i \in 1..pops : h[i] = PopStep(h[i - 1])

\* f shows the last entry of the log and its ring leads back from it along the
\* others.
Undone(f, log, m) ==
    /\ Placed(f) /\ Shape(f) /\ OnScreen(f) /\ Seen(f) = Last(log)
    /\ Fits(f, View(f, Front(log)), m)

\* A ring in which the last key is still to be found, and the rounds left.
Searching(f, log, m, left) ==
    /\ Placed(f) /\ Shape(f) /\ Depth(f) > 0 /\ Fits(f, View(f, log), m)
    /\ Cardinality(Held(f)) <= left

\* e and f differ in no more than the modes.
Alike(e, f) == Formed(f) /\ SameRing(e, f) /\ SameText(e, f) /\ SameScreen(e, f)

\* Undo pushes nothing while it works.
Switch(e, b) == [e EXCEPT !.push_action_disabled = b]

\* The switch disturbs nothing else.
Switched(e, f, b) ==
    /\ Formed(f) /\ f.push_action_disabled = b /\ f.misled = e.misled
    /\ SameText(e, f) /\ SameScreen(e, f) /\ Depth(f) = Depth(e)
    /\ Shape(e) => Shape(f)
    /\ \A v, m : Fits(e, v, m) => Fits(f, v, m)

\* Setting a mark shows nothing else.
Shows(e, f) ==
    /\ Formed(f) /\ SameText(e, f)
    /\ f.start_display = e.start_display /\ f.start_line = e.start_line

\* f comes after the undo of e: the ring was empty, or what the log remembers
\* last is shown again.
Undid(e, f) ==
    /\ Sound(f) /\ (e.misled => f.misled)
    /\ \A log \in Seq(AllSeen), n \in Nat :
          Good(e, log, n) /\ ~f.misled =>
             \/ Seen(f) = Seen(e) /\ Depth(f) = 0 /\ Good(f, log, n)
             \/ log # <<>> /\ Seen(f) = Last(log) /\ Good(f, Front(log), n)

\* The count of entries that a key starts with.
Fresh(e) == [e EXCEPT !.stored = 0]

-----------------------------------------------------------------------------
(* The inductive invariants.                                               *)

\* The inductive invariant: the screen shows the cursor, and unless an entry of
\* an empty ring was annihilated, the ring leads back along some log of what was
\* seen.
Steady == Sound(edit) /\ OnScreen(edit) /\ keys \in 0..MaxKeys

\* The ring leads back along some log.
Remembers(e) == \E log \in Seq(AllSeen) : Good(e, log, 0)

Invariant == Steady /\ (edit.misled \/ Remembers(edit))

\* The n oldest entries of a log, and the others.
Older(log, n) == SubSeq(log, 1, n)
Newer(log, n) == SubSeq(log, n + 1, Len(log))

\* What these are.
Parts(S, s, n, o, r) ==
    /\ o \in Seq(S) /\ Len(o) = n /\ \A i \in 1..n : o[i] = s[i]
    /\ r \in Seq(S) /\ Len(r) = Len(s) - n /\ \A i \in 1..Len(s) - n : r[i] = s[n + i]

\* What may be seen, the first displayed character anywhere.
Sights == [text : Seq(Chars), cursor : Nat, top : Int]

\* Where the undos that follow one another may be.
Backs == [edit : {x \in Edits : Sound(x)}, seen : Seq(Sights)]

\* One undo of them.
PastStep(r) ==
    IF IsEmpty(r.edit) THEN r
    ELSE LET u == edit_scroll_screen_over_cursor(edit_do_undo(r.edit))
         IN  [edit |-> u, seen |-> <<Seen(u)>> \o r.seen]

\* The undos, one after the other.
Retraced(e, size) ==
    \E h \in [0..size -> Backs] :
        /\ h[0] = [edit |-> e, seen |-> <<>>] /\ Past(e) = h[size].seen
        /\ \A i \in 1..size : h[i] = PastStep(h[i - 1])

\* After i undos the log is followed back to its n oldest entries.
Retracing(r, log, m, i) ==
    \E n \in 0..Len(log) :
        /\ Placed(r.edit) /\ Shape(r.edit) /\ Fits(r.edit, View(r.edit, Older(log, n)), m)
        /\ r.seen = Newer(log, n)
        /\ Depth(r.edit) = 0 \/ n = Len(log) - i

\* What undo would show is the newer part of some log.
Tracks(e, p) ==
    \E log \in Seq(AllSeen), m \in Nat :
        /\ Placed(e) /\ Shape(e) /\ Fits(e, View(e, log), m)
        /\ m \in 0..Len(log) /\ p = Newer(log, m)

\* The inductive invariant: the history is what the ring leads back along.
Exact ==
    /\ Sound(edit) /\ OnScreen(edit)
    /\ edit.misled \/ Tracks(edit, past)

-----------------------------------------------------------------------------
(* Blocks.                                                                 *)

\* What lies behind the j oldest and up to the k oldest.
Between(s, j, k) == SubSeq(s, j + 1, k)

\* One text after the other.
Join(x, y) == x \o y

\* The text before and behind the cursor, in a formed buffer.
Stands(e, x, y) ==
    /\ Formed(e) /\ x \in Seq(Chars) /\ y \in Seq(Chars)
    /\ e.before = x /\ e.after = y

\* What the block commands have before them: a marked block, inside the text.
Block(e, t, j, k, n, block) ==
    /\ t = Text(e) /\ t \in Seq(Chars) /\ Len(t) = LastByte(e) /\ Len(t) \in Nat
    /\ j \in 0..Len(t) /\ k \in 0..Len(t) /\ j <= k /\ n = k - j /\ n \in Nat
    /\ block \in Seq(Chars) /\ Len(block) = n

\* What a block command has before it when a block is marked: the block and
\* where the cursor is.
Task(e, t, j, k, n, block, at) ==
    /\ Sound(e) /\ IsMarked(e) /\ Block(e, t, j, k, n, block)
    /\ j = Marked(e).start /\ k = Marked(e).end /\ n = BlockLength(Marked(e))
    /\ block = edit_get_block(e, Marked(e)) /\ at = Cursor(e)

\* The user agrees.
Agreed == TRUE

\* The cursor lies before the block.
Precedes(at, j) == at < j

\* Not in the block, nor at its ends.
Outside(at, j, k) == at \notin j..k

-----------------------------------------------------------------------------
(* What a typed byte leaves in the ring.                                   *)

\* The ring begins with a key, and among its j newest entries is one.
Kept(e, j) ==
    /\ Depth(e) > 0 /\ IsKey(Item(e, 0))
    /\ \E p \in 0..Depth(e) - 1 : IsKey(Item(e, p)) /\ Depth(e) - p <= j

\* The entries that a typed byte pushes: none is a move or a key.
Plain(c) == c \in Entries /\ c.op \notin {"left", "right", "key", "times", "none"}

\* An editor that remembers its keys, the last of them at most j entries deep.
Intact(e, j) ==
    /\ Sound(e) /\ ~e.misled /\ Remembers(e)
    /\ Kept(e, j)

=============================================================================
