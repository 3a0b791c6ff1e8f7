# Midnight Commander 4.5.4 in TLA+

Specifications of GNU Midnight Commander (the sources under `mc-4.5.4/`, ported
to OS/2): file operations and the background jobs that do them behind the
user's back, the file systems inside archives and behind ftp, the subshell, and
the internal editor with its files. They are checked with TLC on small
instances. The transfer of plain files and of trees, the calls of the jobs, the
archives, the ftp connection, the subshell, the editor with its undo ring and
its saves are also proved with TLAPS, for every instance.

Line numbers are those of the files in `mc-4.5.4/src`, `mc-4.5.4/vfs` and
`mc-4.5.4/gtkedit`; "mc.1" is `mc-4.5.4/doc/mc.1.in`, "mcedit.1" is
`mc-4.5.4/doc/mcedit.1.in`. `PROJECT.json` lists for every definition the lines
it models, for every run its module and properties, for every property a faulty
variant of the code that breaks it, and every hazard at its line.

## 1. The system

| Part | Sources | State | Operations | Module |
|---|---|---|---|---|
| transfer of plain files | file.c | `do_append`, `do_reget`, `replace_result`; one transfer | `copy_file_file`, `move_file_file`, loop of `panel_operate` | CopyFile |
| directory trees | file.c | recursion, `erase_list`, `recursive_result` | `copy_dir_dir`, `move_dir_dir`, `erase_dir`, `recursive_erase` | TreeOps |
| dialogs of an operation | filegui.c | `replace_dlg`, progress window | `file_progress_real_query_replace`, `check_buttons` | CopyFile, TreeOps, Background |
| background jobs | background.c, boxes.c | `task_list`, a socket pair for each job | `do_background`, `parent_call`, `background_attention`, `task_cb` | Background |
| event loop | key.c | `select_list`, static `select_set` | `get_event`, `try_channels`, `check_selects` | Background |
| vfs layer | vfs.c | handles, stamps, current directory | `mc_*` calls, `vfs_timeout_handler`, local copies | Vfs |
| archives | extfs.c, tar.c, direntry.c | open archives, usage counts, local copies | open, read, close, free | Vfs |
| ftp | ftpfs.c, shared_ftp_fish.c | a connection, what is known of the server, cached listings | commands, transfers, aborts, reconnection | Ftp |
| subshell | subshell.c, main.c, cmd.c | `subshell_alive`, `subshell_stopped`, `subshell_state`, pty, pipe | `invoke_subshell`, `feed_subshell`, `sigchld_handler`, `synchronize` | Subshell |
| editor | gtkedit/edit.c, editcmd.c, editdraw.c | text, cursor, marks, screen, undo ring | keys | Editor |
| files of the editor | gtkedit/edit.c, editcmd.c | file name, modified, delete_file | load, save, save as, quit | EditFile |
| panels, tree, commands, viewer, menus, help, settings, ports | the rest | listings, marks, texts | one command at a time | none, see 8 |

The parts meet in a few places. A file operation calls the vfs layer for every
byte and the dialogs for every doubt; in a job, the dialogs are calls into the
parent. The vfs layer hands calls to the archives and to ftp, and an archive
inside another file system asks that one for a local copy. The event loop runs
everything else: keys, the channels of the jobs, the time-outs of the vfs
layer. The subshell shares the terminal with all of them, and the current
directory with the panel.

The program is one process without threads, but four things make it hard:

* **Every call may fail, and every failure asks the user.** Dialogs sit in the
  middle of loops; Skip, Retry and Abort leave them by different labels, with
  different cleanups. What an answer sets in a global lives on in the next file.
* **The event loop is re-entered.** A job's request is handled inside
  `get_event`; the handler opens a dialog, and the dialog calls `get_event`.
  Static variables of the outer loop are overwritten by the inner one.
* **Other processes.** Jobs call routines in the parent and are killed; the
  shell stops, dies, is left, and reads the same keyboard; the ftp server's
  replies have no name; other programs remove files between two calls.
* **State is remembered of what is elsewhere**: which directory the server and
  the shell are in, whether a link is alive, whether an archive is still in
  use, how many lines are above the screen. It has to follow every error path.

What makes each part correct:

* transfer: a move never removes a source that is not at the target; a target
  is what the user agreed to; Abort stops; tags go with success only.
* trees: the same for subtrees, and what was skipped or refused stays whole.
* background: to a job, a call into the parent is a procedure call; each job
  comes to its end.
* vfs: what is in use is not freed, what was left is, and the sweep that frees
  follows no freed stamp.
* ftp: an answer is taken for the command it answers; the cache holds whole
  listings of the right directory; a transfer that broke off is no success; a
  lost link does not stay unnoticed.
* subshell: commands go to a prompt only, in the directory of the panel; mc and
  the shell never both wait for each other.
* editor: counts and screen agree with the text, undo goes back through exactly
  what was seen; no text is lost between the buffer and the disk.

## 2. Modules

**CopyFile, CopyFileProofs** - `copy_file_file` (file.c:543-907), `move_file_file` (1137-1249)
and the loop of `panel_operate` over the tagged files. One action per section
between two calls that can fail or ask; `pc` has the name of the section (the
labels of the code where it has them). User and operating system are choices in
the actions: `file_error`, `check_buttons` and `query_replace` are the dialogs,
each `...Fails` action the failing branch of a call. Bytes are counts: a target
is `old` bytes from before and then the source bytes `from+1 .. upto`; `good` is
false once bytes are repeated or missing. `decided`, `base` and `aborted` are
history. Init lets `do_reget` be 1 at the start, as file.c:169 does.

**TreeOps, MCTreeOps, TreeOpsProofs** - `copy_dir_dir` (915-1131), `move_dir_dir` (1251-1352),
`erase_file`, `recursive_erase`, `erase_dir`, `erase_dir_iff_empty` (1356-1538)
over a tree given by the parent of each node. The C recursion is `stack`; the
entries of a directory come in any order. One plain file is one step, with the
outcomes that CopyFile shows for it. At the target there may be a directory of
the same name, also one inside it, or a plain file, which the code takes for the
directory (`taken`, section 7). `erase_list` is the list of copied entries
that a move by copying works off (`erase_at_end` is 1 and never set otherwise,
file.c:129). Left out: hard links to directories, a directory copied into itself
(`dest_dirs`), following links, owner and mode of directories.

**Background, BackgroundCalls, BackgroundProofs** - the parent and its jobs. A job copies `NFiles`
files; where it has to ask it puts a request in `up[c]` and waits for `down[c]`.
The parent is a program with a counter: `select` (waiting), `walk`
(`check_selects` goes down the list of channels, `at` says how far it is), `key`.
`stack` has a frame for each open dialog: a dialog is a loop of its own, so
`Opens` goes back to `select`, and `Closes` continues the walk that was
interrupted *with the `select_set` the inner loop left behind*. When that set
names a socket with nothing in it the parent is inside `read`, and no action of
it is enabled until the job writes. `replace_dlg` is the job whose dialog the
static pointer belongs to: after a nested one the outer dialog takes its result
from freed memory (filegui.c:626), the inner result or a value that counts as
Abort. BackgroundCalls is the abstract specification: to each job `parent_call`
is a procedure call, idle, asked, answered; Background implements it
(`CallsAnsweredOnce`). Left out: Stop and Resume, moves and deletions in the
background, other routines than the two questions and the good-bye, a
foreground operation meanwhile, a fork that fails.

**Vfs, MCVfs, VfsProofs** - archives (extfs and, in `Tars`, tar through direntry.c), some
inside others (`Outer`; an extfs archive keeps a local copy of its file from the outer
one, a tar archive an open handle), two panels that show directories, open
files, local copies, and time. An archive has a usage count and perhaps a stamp.
The entry points run to their end and are the actions: mc_chdir with the stamps
of what is left (vfs.c:766-905), open, close and local copies with what they do
to the counts (extfs.c:641-712, 833-884), and `vfs_timeout_handler` (vfs.c:1151),
which keeps the pointer to the next stamp over a free; `dangling` is what becomes
of that. They are put together from the functions of the code, each an operator
from one state of the layer to the next. `MaxUses` bounds handles and copies at
one time, `MaxLeaks` the uses that are never given back.

**Ftp, FtpProofs** - one control connection, one data connection, and the server behind
them. `bucket` is the `struct connection`, `cache` the directory cache, `server` the
other side. The functions of ftpfs.c that talk to it are operators from a state
(the record `Now`, with what the last function returned) to the set of states
they may end in, and the entry points of the file system are the actions: looking up a name
(`Look`), chdir, the simple commands, chmod, whose reply is ignored, rename, getting and putting a whole file,
reading a file piece by piece (`OpenLinear` .. `CloseLinear`), flushing, `my_forget`
and freeing; `HangsUp` is the network. Replies queue up on the link, so reading
one too few shows in every later command. The server may refuse any command and
break off any transfer; the user may interrupt any wait, and so cut a write
short. While a file is read piece by piece no other call uses the link.

**Subshell, SubshellProofs** - mc and the shell as two processes with the pty, the pipe that
tells the directory, and SIGCHLD between them. mc is a program with a counter
(what it waits for in `feed_subshell` and `synchronize`); `sigchld_handler` is an
action that may come at any point where the signal is not blocked. The shell
runs lines in order, reports its directory and stops itself at each prompt, and
what the user runs may take for ever. The switch key may come alone
(`SwitchKey`) or in one read behind other keys (`SwitchKeyBehind`), which is
remembered in `mixed` (section 7). The shell may be killed while mc waits or
does not (`MaxDeaths`), and left with exit; `MaxTyped` bounds the user's lines.

**Editor, EditText, EditorInvariants, EditorProofs** - the text as a sequence of bytes, cursor, start of
screen with its line number, both marks and the undo ring entry by entry
(edit.c:457-1011, with growth, counted repetitions, annihilation of opposite
moves, and wrapping), and 24 commands with the block commands of editcmd.c
(916-1107). The five primitives are operators on the record `edit`; the loops of
the code, which all repeat them, are `DoAll` and `Times`, walking over lines is
`Walk`, and undo, which pops until a key, is `PopKey`: recursive functions, over
lists of commands or bounds that the loop cannot exceed (`Held`: the commands
that are in the ring). An action is a key: what `edit_execute_key_command` does
for it, with the scrolling at its end. EditText is the abstract specification
of undo: a stack of what was seen (text, cursor, start of the screen); Editor
implements it with `Shown <- AllSeen`, `now <- Seen(edit)` (`UndoIsExact`).
Entries that were never written are `NoEntry`. `past`, `stored` and `misled` are
history; `misled` says that a move annihilated an entry of an empty ring
(section 7).

**EditFile, EditFileProofs** - `edit_load_file`, `edit_save_file` and its callers
(editcmd.c:190-317, 600-880, 2206-2284), one action per system call of a save,
`save` being the save that runs. A content is a whole text; `Partial` is what an
interrupted write leaves. Calls named in `Faults` may fail; the program may be
killed between any two. `existed`, `quick`, `spoilt` and `discarded` are history.

## 3. Runs

| Run | Question | Bounds |
|---|---|---|
| `copy` | safety and termination of copies and moves | 2 files of size 0 or 3 with a buffer of 2, targets absent or of size 2, one Retry: 0.8 million states |
| `copy_faults` | is a source removed without its bytes having arrived, whatever goes wrong? | 2 files of all kinds, all obstacles, short writes, late errors, sources that vanish: 5.3 million |
| `copy_short_write` | a finding | 1 file, short writes |
| `tree` | copies, moves and deletions of trees | 6 nodes: a directory with a file and a subdirectory with a file, an empty directory, a file; directories and plain files at the target; one Retry: 2.0 million |
| `background` | do the calls of the jobs stay in step, does each job end? | 2 jobs of 1 file, one Retry each, kills, 3 dialogs: 0.5 million |
| `background_no` | a finding | 2 jobs of 1 file, Yes and No |
| `vfs` | who is freed, when? | an archive in an archive and a tar, 2 uses each, one leak, 2 panels: 32 000 |
| `vfs_changes` | a finding | the same, with changed copies |
| `subshell` | who has the terminal, in which directory? | 3 directories, one of them remote; 2 typed lines, 2 deaths: 0.7 million |
| `editor` | does the state follow the text, does undo lead back? | texts of two bytes growing to four, a letter and a line feed, two lines of screen, every sequence of 4 keys, a ring of 8 that grows to 16 and wraps: 0.1 million |
| `edit_file` | is the text ever lost? | 2 files, one text besides the empty one, three save modes, failing open, write, rename, kills: 2.7 million |
| `ftp` | do replies, cache and results agree with the server? | 2 directories, one with links, one lost link: 66 000 |

Why these are enough. Sizes 0 and 3 with a buffer of 2 give the empty file, a
full and a partial buffer; two files are what an answer needs to reach a file it
was not given for; one Retry is what a loop needs to come round once. The tree
has a nested directory below a tagged one, an empty one, and entries that
follow. Two jobs are enough for a dialog inside the handling of another, whose
walk then goes on over a channel that the inner loop has read. Two levels of
archives are what a stamp needs to be handed to a parent, two uses what a count
needs to be wrong. Two deaths let the second one meet the shell that replaced
the first. Four keys put two entries of different kinds around a block command
and an undo; in the editor the size of the ring is scaled down so that they
fill it (`option_max_undo` is at least 256 in the code) and `StackMargin` (10 in
the code) is 5, still enough for the longest group of entries. `Overflows =
FALSE` excludes keys whose own entries fill the ring; no four keys of `editor` do, and
the proofs include them. One lost link is found by the write after the next, and reconnecting once is what puts remembered
and real directory apart. `copy` leaves out late errors, whose dialogs lose an
Abort (section 7), `subshell` typing ahead, `vfs` changed copies, and `edit_file`
failing closes, for the same reason.

`edit_file`, `editor` and `subshell` end (the editor is closed, the keys are used
up, the user quits mc), so deadlock is not checked there; it is in all other
runs.

What the passing runs show:

* `MoveNeverLoses`, `MoveCountsAll`, `MoveKeeps`: what a move has removed is at the
  target, but for an empty directory whose name a plain file has there
  (section 7). `CopiedAsDecided`: a target reported as done is the whole source, over
  nothing (Yes), behind the old contents (Append) or continued (Reget).
  `AppendKeepsOld`: no error exit touches the old contents under an Append.
* `AbortSkipsTheRest`, `AbortStopsEntry`: after Abort no other file is taken up, no
  source is removed and nothing is written, though the incomplete target at hand may
  still be deleted; inside a tree nothing more is copied or erased. `UntaggedOnSuccess`: a tag goes
  only when the file is at the target. `SkippedStays`: what was skipped, and the
  directories above it, stay. TreeOps' `Consistent`: the erase list holds
  entries of this directory only, which have been copied or are directories for
  which a plain file was taken, children before parents.
* `CallsAnsweredOnce` and Background's `Consistent`: a job's question is in one
  place, and gets one answer, its own. `OperationEnds`, `JobsEnd`: an operation
  ends once Retry is no longer answered; a job is unregistered in the end.
* `InUseStays`, `SweepSafe`, `CurrentStays`, `LeftIsFreed`, Vfs' `Consistent`: an
  archive with a handle, a copy or a nested archive is not freed, nor one that a
  panel shows; the counts are the uses there are; one that was left, and whose
  leaving stamped it, is freed in the end, with the archives around it.
* `InactiveMeansPrompt`, `CommandsRunInPanelDir`, `KeyboardComesBack`,
  `PromptComes`: mc calls the shell idle only when it is at a prompt; a command
  runs in the panel's directory, also after a restart; when the shell stops or
  dies mc goes on; each wait for a prompt ends. The first three except a shell that
  was left with a switch key behind other keys (`mixed`).
* `CursorIsShown`, `TypedIsKept`, `BlocksAsMarked`, `UndoIsExact`, Editor's
  `Consistent`: the counts of lines before the cursor and the screen are right;
  the ring forgets the oldest key and never the one being stored; a block
  command does to the marked text what it says; undo shows exactly what was
  shown before, in order.
* `TextIsOnDisk`, `SafeSaveKeeps`, `SafeSaveReplaces`, `DeletesOnlyUnsaved`: see 5.
* `InStep`, `ListedAsNamed`, `Truthful`, `RepairedSoon`: on a link that is not
  `overlooked`, as many replies are read as were sent; a cached listing is whole
  and of the directory it is filed under, unless a reconnection led `astray`; an
  operation that reports success did happen at the server, but for those that
  report it whatever came of them (chmod, a short write, a file that is only
  emptied: `unsure`, section 7); at most two
  operations fail for a lost link before a new one is made.

## 4. Fairness

`CopyFile` and `TreeOps`: weak fairness of the steps of a running operation. The
program is sequential, waits but for the user, and the dialogs are modal;
starting another operation is not under fairness. `Background`: weak fairness of
the parent and of each job, which are processes of their own; that includes that
an open dialog is answered. Which channel is handled first, and whether a key is
there, is not under fairness. Retry answers are bounded, and that is an
assumption: a user who retries for ever keeps the operation for ever.

`Vfs`: time passes and the handler of the time-out runs to its end when it is
due, since `get_event` calls it; nothing obliges the user to leave a directory
or to close a file. `Subshell`: mc runs, signals arrive, and the shell executes
the lines that mc itself sends; the user, and the commands of the user, may
take for ever. `Editor`, `EditFile` and `Ftp` have no liveness property: they are
sequential programs without a loop that waits for another process, but for the
server, whose silence the user interrupts; `RepairedSoon` is the bounded form.

## 5. Proofs

`CopyFileProofs` proves, for every number of files, all sizes, every buffer and
every combination of faults:

* `TypeCorrectness`: `Spec => []TypeOK`.
* `MoveCounts`: `Spec => []MoveCountsAll`. A source is removed only when its
  target has received as many bytes as the source has. This includes short
  writes: their fault is in *which* bytes, not in how many.
* `MoveSafety`: without short writes, `Spec => []MoveNeverLoses`.

The assumptions are `SizeAssumption` and `SwitchAssumption`: types only. The
properties are not inductive, since the removal comes many steps after the bytes
it relies on. The inductive invariant `IInv` carries the fact along: `Place` (which
variables mean something at which `pc`, and that the source is there while it is
read), `Transfer` (what the target holds plus what is in the buffer is what was
read, and in a move the target starts at byte 0), `Reported` (in a move, at the
labels after the loop, either the status is an error or the target is complete;
at `unlink` it is complete) and `NothingLost` (a source that is gone is `Carried`).
There is a lemma for each dialog, frame lemmas for the files that a step leaves
alone, one lemma for each action, and one for each group of actions.

It goes on from there, for the same instances, to what was decided about a file:

* `OldContentsStay`: `Spec => []AppendKeepsOld`, short writes included.
* `UntagsWhatArrived`: `Spec => UntaggedOnSuccess`, an action property.
* `AbortIsFinal`: without `LateErrors`, `Spec => AbortSkipsTheRest`, an action
  property: while the operation has not ended, no step after an Abort takes up
  another file, removes a source, or changes a target in another way than by
  deleting the incomplete one at hand.
* `CopiesAsDecided`: without short writes and if `Undisturbed`, `Spec =>
  []CopiedAsDecided`.

The hypotheses are the deviations of section 7, each of which breaks the property:
the dialogs about late errors overwrite an Abort; an Append outlives an early
return of `copy_file_file`, which takes a file that changes between two calls in
a move, or a second operation (`Undisturbed` excludes both, for moves only). The
invariant adds, to `IInv`, `Answered` and `Agreement` (what `do_append`, `do_reget`
and `replace_result` say is what was decided about *this* file), `Appending` and
`Resuming` (and has reached the offset in the target), `Finished` (a transfer that
is reported as done has had all its bytes) and `AbortStands` (the status of an
aborted transfer is still Abort where `panel_operate` looks at it).

`EditFileProofs` proves, for any files, texts and failing calls among open, write
and rename, with kills between any two steps:

* `TypeCorrectness`: `Spec => []TypeOK`.
* `SavedIsOnDisk`: `Spec => []TextIsOnDisk`. A text shown as unmodified, and the
  text of an editor that has closed without giving it up, is the content of its
  file.
* `NeverLost`: `Spec => []SafeSaveKeeps`. A file that was never saved quickly is
  there whole after every step of every save, under its own or its backup's name.
* `ReplacedAtOnce`: `Spec => SafeSaveReplaces`, an action property: a safe save
  changes the file only by putting the whole new text in its place.
* `DeletesOnlyItsOwn`: `Spec => DeletesOnlyUnsaved`, an action property.

They assume `EditFileAssumption` (names that differ) and `Reliable`: close and read
report no error. The code ignores both results, and with failing closes TLC
finds the properties violated (section 7). The inductive invariant adds to the
properties what they owe to earlier steps: `Prepared` (the whole text is in the
temporary file before anything is renamed), `Untouched` (a file is opened for
writing only by quick saves, and is there until its backup takes its place),
`Created` (what is marked for deletion was not there before and holds no saved
text) and `Unmodified` (an unmodified text stays in its file while it is saved
elsewhere, the step where a save under another name fails).

`TreeOpsProofs` proves, for every tree, every order of the entries, every failure
and every answer (`TreeAssumption`: the parents make a tree; `ChoiceAssumption`:
types):

* `ErasesWhatIsCopied`: `Spec => []Consistent`.
* `MovedTreesStay`: `Spec => []MoveKeeps`. What was removed from the source is at the
  target, except empty directories for which a plain file was taken; a directory
  that holds anything is not lost that way, as the theorem shows.
* `SkippedAndRefusedStay`: `Spec => []SkippedStays`.
* `AbortStops`: `Spec => AbortStopsEntry`, an action property.

A tree of unknown depth needs facts about paths that would be proved by
induction. They come without it: the function that walks up a tree is shown to
exist by writing it down (`Above(n)`, the least set that holds n and the parent of
all its members), and facts about all nodes by a smallest counterexample. The
inductive invariant: `Calls`, `Arguments` and `Frames` (the stack is a chain of
directories, each inside the one below it, with its label); `SrcClosed` (the source
is a tree at any time); `Untouched` and `Ahead` (nothing below the entries that are
still to come has been touched); `Copied` (what a finished call reported as copied
is whole at the target, but for what was skipped), `Blocked` (nothing is made or
copied below a plain file that stands for a directory, so that such a directory, if
it goes, had nothing in it), `Kept` and `Refused` (what was
skipped or refused has all directories above it in place, which no `rmdir`
removes, for it finds them full), and `Stopping` (after Abort every frame returns).
Two lemmas say of all steps at once which nodes leave the source (`Removed`) and
where the control goes (`Moves`); the rest follows from those.

`BackgroundProofs` proves, for any number of jobs, files, Retry answers and nested
dialogs, with jobs that are killed (`BackgroundAssumption`: types):

* `QuestionsInOnePlace`: `Spec => []Consistent`.
* `CallsAreProcedureCalls`: `Spec => CallsAnsweredOnce`, the refinement of
  BackgroundCalls.

The invariant `InStep` says for each job where its question is, on its way, in a
dialog, interrupted by another dialog, or on its way back, and that it is in one
of these places only; `Newest` says that the dialog of `replace_dlg`, while
it has no result, is the innermost one about replacing. In the refinement a
job that asks is `Ask`; the answer in a dialog is `Answer`, also when it is the
stored one; reading it is `GoOn`; leaving or being killed is `Leave`; the walks of
the parent over its channels, and the opening of dialogs, are stutters.

`FtpProofs` proves, for all sets of directories and any number of lost links
(`FtpAssumption`: types), whatever the server refuses or breaks off and the user
interrupts:

* `StaysInStep`: `Spec => []InStep`. `ListsTheRightDir`: `Spec => []ListedAsNamed`.
  `ReportsTruly`: `Spec => []Truthful`. `RepairsSoon`: `Spec => []RepairedSoon`.

`Truthful` excepts the operations that are `unsure` (section 7). They are modelled and
their untrue reports noted (`lied`), so the theorem says that no other operation of the
model, and no other error path of these, reports what did not happen.

The functions of the code are operators that yield sets of states, nested eight
deep, so the proof is made as one of a sequential program: each function has a
lemma from what holds when it is called to what holds when it returns, on success
and otherwise, and the callers use the lemma and not the definition. The invariant
between two entry points is `Safe`: `Idle` (at most one reply is left over, only
after an interrupt, and never one to a plain command) or, while a file is read
piece by piece, `Busy`; `Placed` (the server is where it is thought to be);
`CacheOK`; and `Repairing`, the bound that makes `RepairedSoon` inductive: a lost
link is in one of three stages (hung up, written to, write failed), and no more
operations have failed on it than its stage.

`SubshellProofs` proves, for any directories and any number of lines, signals and
deaths of the shell (`HomeAssumption`, `BoundsAssumption`: types):

* `TypeCorrectness`: the types of the variables.
* `KnowsTheShell`: `Spec => []Consistent`. `InactiveAtPrompt`: `Spec =>
  []InactiveMeansPrompt`. `RunsInPanelDir`: `Spec => []CommandsRunInPanelDir`.

All but the types have the hypothesis `~TypesAhead`: what is typed ahead is the
deviation of section 7, which breaks them. `InactiveMeansPrompt` and
`CommandsRunInPanelDir` except a shell that was left with a switch key behind other
keys (`mixed`, the same section); `KnowsTheShell` holds with it. What mc believes is
late by a signal and a pipe, so the invariant `Known` is about what is under way:
`Signals` (a SIGCHLD that is due is about the shell as it is), `Calls` (which caller
waits where), `Fresh` (a new shell gets its first line before any other) and
`Directories` (the directory in the pipe, or else the one that mc remembers, is that
of the shell); and, unless the shell is `mixed`, `OneLine` (between mc and the prompt
is at most one line), `Prompts` (a shell that is not at its prompt is not called
idle) and `Commands` (a command that mc is sure about is sent, taken and run in its
directory).

`VfsProofs` proves, for every nesting of archives, any number of panels, handles,
local copies and leaks, and whatever of the gets and ungets fails
(`ArchiveAssumption`: types, finitely many archives, and that no archive is
inside itself):

* `CountsRight`: `Spec => []Consistent`. `UsedStay`: `Spec => []InUseStays`.
  `SweepStaysOnList`: `Spec => []SweepSafe`.
* `ShownStay`: `Spec => CurrentStays`, an action property.

The inductive invariant: `Counted` (`fd_usage` is at least the number of handles,
copies and loaded archives inside; the exact count is not invariant, for some
error paths never give a use back), `Rooted` (an archive is loaded only inside a
loaded one), `Listed` (one stamp for each archive that has one, which nobody uses
or shows) and `Settled` (the current directory is one of the panels', or local).
The entry points are loops over paths of unknown length, so the functions that
compute them are first shown to exist, by the smallest length for which there is
none (`Iterates`), and are followed step by step (`Stepwise`).

`EditorProofs` proves, for any bytes and texts, any size of the screen, any first
and full size of the ring, and every sequence of keys (`EditorAssumption`: types,
and a `StackMargin` of at least 5, the code has 10):

* `CursorAlwaysShown`: `Spec => []CursorIsShown`.
* `ConsistentUnlessMisled`: `Spec => [](edit.misled \/ Consistent)`.
* `UndoIsExactUnlessMisled`: `Spec /\ [](~edit.misled) => UndoIsExact`, the
  refinement of EditText, and step by step `UndoIsExactUntilMisled`, where the steps
  before the first move that misleads are exact whatever comes later.
* `BlocksAlwaysAsMarked`: `Spec => [](edit.misled \/ BlocksAsMarked)`.
* `TypedAlwaysKept`: with `MaxUndo >= 11`, `Spec => [](edit.misled \/ TypedIsKept)`.
  A ring that is too small for what one typed byte pushes cannot keep it; the
  code has at least 256 entries (edit.c:464-465).

`misled` is the deviation of section 7: a move has annihilated an entry of an empty
ring. It is a history variable that this one step of `Annihilate` sets, so the
hypothesis says of the proofs that nothing else in the ring is wrong: not a ring
that wraps, forgets or grows between any two entries of a key, nor a key that
fills the whole ring (`Overflows` does not matter here). From then on the pointer
is below the bottom and no invariant about what the ring holds can be true;
`CursorAlwaysShown` holds nevertheless, since the screen follows the cursor.

No property of the undo ring is inductive. The invariant, in `EditorInvariants`, says
what the ring is a record of: `Invariant` is that there is some list of screens (`log`) such that
`Good(edit, log, 0)`, and `Exact` that this list is `past`. `Good` has three parts.
`Placed`: screen and marks lie in the text, with the right number of lines above
it. `Shape`: at least four entries are free, and until the ring has its full size
it begins at 0. `Fits`: read from the top downwards, each entry of the ring is one
that the text, the cursor and the line counts at that point admit, done there it
leads to where the next entry fits, and at each `key` entry the screen is the next
one of the list. `Fits` does not mention how the entries are stored. So pushing an
entry has one lemma for each way in which the ring may take it (stored, counted,
annihilated, the same key again, after forgetting a key, after starting anew, with
the memory doubled), and each primitive one that its reverse leads back. The
loops of the commands then need no more than that each of their steps is a
primitive. What they do to text and cursor, from which `BlocksAsMarked` follows,
is `Block`: which bytes lie where while a block is copied, cut and put in byte by
byte. `Kept`, for `TypedIsKept`, counts how many entries may follow the last key
before it is the one to be forgotten.

Only model-checked:

* liveness and ENABLED, out of the prover's reach: `OperationEnds`, `JobsEnd`,
  `LeftIsFreed`, `KeyboardComesBack`, `PromptComes`;
* the violations of section 6.

All other properties of the passing runs are stated by theorems, with the
hypotheses given here.

## 6. Findings

Each is shown by a run whose property is what the code or the manual says.

1. `copy_short_write`, file.c:783: after a short write the loop writes from the
   start of the buffer again; a move then deletes the only good copy.
2. `background_no`, filegui.c:626: the result of a dialog is read through a static
   pointer, which the dialog of another job has replaced and freed: the answer
   about the other file is taken, and No overwrites (mc.1:2178-2179).
3. `vfs_changes`, extfs.c:877: `extfs_ungetlocalcopy` notes the change of a copy in
   the inode, `extfs_close` looks at its own record: the change is not written
   back (extfs.c:671 "Commit the file if it has changed").

## 7. Known deviations

Seen while modelling. The models follow the code here; a property that they
would break says in its comment what it excepts, or the run leaves the case out,
as named.

File operations

* An Append answer outlives an early return of `copy_file_file`, and a later Yes
  appends (file.c:572; mc.1:2177); to every job the parent sends its own
  `do_append` and never resets it (background.c:346).
* Abort below a nested directory becomes Retry in `recursive_erase` (file.c:1417),
  `move_dir_dir` drops the Abort of `erase_dir_iff_empty` (1342), and an Abort in
  the dialogs about close, chown and chmod is overwritten by the next one (858,
  877, 893), although mc.1:2162-2164 says that the rest is skipped. `copy` has no
  late errors for that reason.
* `copy_dir_dir` returns the status of its last entry (1113), so that a tree with
  skipped files is untagged (mc.1:2192-2194; the FIXME at 913 knows).
* A directory is copied or moved into whatever has its name at the target
  (file.c:990-1052, with a FIXME at 951). When that is a plain file each entry fails,
  but an empty directory has none: moved onto a plain file it is erased and is
  nowhere then. `MoveKeeps` and the erase list except that.
* Reget, once answered, is applied to all later files (filegui.c:620);
  `copy_file_file` clears the `do_reget` that the dialog of a move has set (569).

Background jobs

* The message about a killed job runs the event loop before the channel is
  unregistered, and opens again without end (background.c:293); `task_cb` means to
  unregister the job but tests for SIGINT (boxes.c:873; mc.1:1307-1310).
* A read that fails passes for a routine to be called (background.c:289);
  `message_3s` announces 3 of its 5 arguments (501); unregistering does not close
  the descriptor (119); the list on the screen keeps freed nodes (boxes.c:861); when
  fork fails the operation goes on in the foreground (file.c:1800).

Archives

* A tar archive counts inodes as open files and so is never freed
  (direntry.c:52, 933; mc.1:1763-1767): `LeftIsFreed` is about extfs.
* A chdir that fails, a listing that does, and a panel that is closed leave an
  archive without a stamp (`left_behind`). `vfs_free_resources` has no callers.
* `sfs.c` hands out and frees its identifiers wrongly (sfs.c:237), and a cached
  entry that has expired is freed and returned (direntry.c:252-302).
* With 97 handles open the next open ends the program (vfs.c:107).

Ftp

* A reply is left unread when a transfer is aborted that the server has just
  ended with another reply than 426, or when the wait for accept or for a last
  reply is interrupted (`overlooked`).
* After a reconnection the directory of the server is still thought to be known,
  and the listing of another one is cached (`astray`; the comment at ftpfs.c:1598
  against 784-826).
* Success that is not (`unsure`): chmod ignores the reply (ftpfs.c:1532-1533,
  1573-1579), chown does nothing (1582-1594). A write that an interrupt cuts short is
  taken for a whole one, in `store_file` (1419) as in `retrieve_file`, and bytes are
  missing. An existing file that was only emptied, opened with O_TRUNC and closed
  with nothing written, is not stored (shared_ftp_fish.c:495-499, 548).
* `store_file` unlinks the local copy before it is sent, so that a failed store
  loses the change. A refused reconnection frees the connection while handles are
  open. After a failing `my_forget` the socket stays -1 for good. Passive mode is
  given up for good after one failure, a lost link among others. The data socket
  is not closed by `linear_abort`. The branch "Should not happen" of
  `s_ungetlocalcopy` is the one for every changed copy. mc.1:2926-2931 says that
  passive mode is off by default, ftpfs.c:95 has it on.

Subshell

* What the user types while a command runs is read by the shell after its prompt,
  and mc takes it for idle by then (subshell.c:951, 973-980; mc.1:2042-2045): with
  `TypesAhead = TRUE` TLC finds `InactiveMeansPrompt` violated.
* `feed_subshell` passes on what stands before the switch key in one read without
  clearing `subshell_ready` (subshell.c:973-980), and calls the shell idle if that was
  set: "ls" and C-o leaves half a line at the prompt, "cd /x", Enter and C-o makes
  the next command run elsewhere without a warning, "vi", Enter and C-o lets the
  panel wait for a prompt that does not come (`mixed`).
* A directory that a killed shell left in the pipe is taken for that of the next
  one (`unread`). A command sent to a shell that has just died is lost. A SIGSTOP
  from outside leaves `subshell_stopped` stale.

Editor

* What is pushed is not compared with the top of a ring of one or two entries, but it
  is with that of an empty ring, which is what lies in memory from before
  (edit.c:491). So after everything was undone in a ring that had wrapped, a key may
  not be stored (`StaleKey` in `TypedIsKept`), the entries after it make the ring
  start anew at 0, and a move annihilates an entry at the *other* end of the memory:
  the ring now counts as full of keys that were undone or forgotten, and undo does
  them (mcedit.1:69 "key for key undo", edit.c:450-451 "So undo tracks scrolling and
  key actions exactly"). With `Chars = {10}`, `MaxText = 2`, `StartStack = MaxUndo = 8`,
  `MaxKeys = 14` and the commands Left, Right, Left_Highlight and Toggle_Insert TLC
  finds `UndoIsExact` violated after twelve keys. `misled` marks that step; the
  proofs show that there is no other cause.
* Undo does not restore the marks exactly, and the screen may start inside a line
  after a line feed above it was deleted.
* The results of close and read are ignored (editcmd.c:299): with "close" in
  `Faults` TLC finds `SafeSaveReplaces` violated against mcedit.1:382-388.
* A failed save of an unmodified text leaves a truncated file, and the text still
  counts as unmodified (`spoilt`). When the second rename of a save with backup
  fails, the file is there under the name of the backup only. Temporary files are
  left behind. A load that fails leaves the editor without buffers.

## 8. Not modelled, and the plan

Within the modelled parts: names and their parsing, listings, sfs, tar's
reloading, writing back through scripts, fish, mcfs, ftp logins and proxies,
several ftp connections, local copies over ftp, other calls on a link while a
file is read from it piece by piece (a Reget from a server to itself starts RETR
before it opens the target); the reading of the prompt,
terminal modes, a failing fork; words, paragraphs, columns, tabs, wrapping,
search and replace, macros and the mouse in the editor, other programs that
change its file, owners and modes; Stop and Resume of jobs, moves in the
background.

Next, the most important first:

1. **Panels** (screen.c, dir.c, main.c): marks and their counts, the cursor and the
   listing through reloads, sorting and the update after an operation; composed
   with Vfs for the directory of the panel.
2. **Direntry** (direntry.c): entries, inodes, use counts, expiry, under tar and ftp.
3. **Background**, second part: moves and deletions, a foreground operation at the
   same time, Stop and Resume.
4. **Viewer** (view.c): the growing buffer of a pipe and the offsets into it.

Of little use: menus, masks and the user menu (text); drawing and terminal
layers; help and its tools; settings; `regex.c`, `intl/`, `slang/`, popt, glib (other
projects); the ports, which replace single functions; the GNOME front end.
Liveness, ENABLED, induction over data and recursive operators are out of the
prover's reach and are left to TLC.
