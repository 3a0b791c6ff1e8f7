------------------------------ MODULE CopyFile ------------------------------
(***************************************************************************)
(* The transfer of plain files: copy_file_file and move_file_file of       *)
(* src/file.c, the replace dialog of src/filegui.c and the part of         *)
(* panel_operate that walks over the tagged files of a panel, for "Copy"   *)
(* and "Move".                                                             *)
(*                                                                         *)
(* The user is a second actor: every error dialog, replace dialog and      *)
(* progress window may be answered in any way.  The system calls are a     *)
(* third one: each of them may fail.  The globals of file.c that survive   *)
(* from one file to the next (do_append, do_reget, replace_result) are     *)
(* variables here, and an operation may be followed by another one.        *)
(*                                                                         *)
(* Bytes are abstracted to counts.  A target holds `old' bytes it had      *)
(* before the operation, followed by the source bytes from+1 .. upto;      *)
(* `good' says that they are those bytes, each once and in order.          *)
(***************************************************************************)
EXTENDS Naturals, FiniteSets

CONSTANTS
    NFiles,       \* the tagged files are 1..NFiles, in panel order
    Sizes,        \* possible sizes of a source file
    OldSizes,     \* possible sizes of a target that already exists
    Kinds,        \* kinds of source file that occur (a subset of AllKinds)
    Targets,      \* what may stand at a target's name (subset of Obstacles)
    Ops,          \* operations that may be started: a subset of {"copy","move"}
    BufSize,      \* size of the transfer buffer
    ConfirmOverwrite,  \* the option of that name (used by moves only)
    MaxOps,       \* bound: operations in one session
    MaxRetry,     \* bound: Retry answers and not-ready reads in one operation
    ShortWrites,  \* TRUE: write() may store only a part of the buffer
    LateErrors,   \* TRUE: the close, chown and chmod calls that follow the
                  \* transfer may fail
    StatRaces     \* TRUE: a source that has just been seen may be gone or
                  \* unreadable at the next stat

AllKinds == {"plain", "hardlink", "symlink", "special"}
Obstacles == {"none", "dir", "same"}    \* "same": the source file itself

ASSUME SizeAssumption ==
    /\ NFiles \in Nat \ {0}
    /\ Sizes \subseteq Nat
    /\ OldSizes \subseteq Nat
    /\ Kinds \subseteq AllKinds
    /\ Targets \subseteq Obstacles
    /\ Ops \subseteq {"copy", "move"}
    /\ BufSize \in Nat \ {0}
    /\ MaxOps \in Nat
    /\ MaxRetry \in Nat
ASSUME SwitchAssumption ==
    /\ ConfirmOverwrite \in BOOLEAN
    /\ ShortWrites \in BOOLEAN
    /\ LateErrors \in BOOLEAN
    /\ StatRaces \in BOOLEAN

Files == 1..NFiles

NoFile == [old |-> 0, from |-> 0, upto |-> 0, good |-> FALSE, there |-> FALSE]
Content == [old : Nat, from : Nat, upto : Nat, good : BOOLEAN, there : BOOLEAN]
OldFile(n) == [old |-> n, from |-> 0, upto |-> 0, good |-> TRUE, there |-> TRUE]

\* What a caller of copy_file_file gets (FileProgressStatus in file.h).
Status == {"cont", "retry", "skip", "abort"}

\* The answers of the replace dialog.  The code applies an answer to every
\* later target when its number is at least REPLACE_ALWAYS.
ThisTarget == {"yes", "no", "append"}
AllTargets == {"always", "update", "never", "abort", "size", "reget"}

VARIABLES
    size,            \* size of each source file
    kind,            \* kind of each source file
    obstacle,        \* what the target's name is, other than a plain file
    present,         \* is the source file still there?
    dst,             \* the target of each source file
    marked,          \* tag of each file in the panel
    op,              \* the running operation, "none" when there is none
    cur,             \* the file being processed (0 between operations)
    pc,              \* where the program is
    do_append, do_reget, replace_result,   \* file.c globals
    return_status,   \* local of the running function
    resources,       \* "src"/"dst" open, "short": target is incomplete
    appending,       \* copy_file_file: the target was opened for appending
    pos,             \* read position in the source
    n_read,          \* bytes of the buffer that are still to be written
    buf,             \* source offset of the first byte in the buffer
    budget,          \* Retry answers left
    ops,             \* operations started
    aborted,         \* history: the user asked for Abort in this operation
    decided,         \* history: what was decided about each existing target
    base             \* history: size of each target when the operation began

globals == <<do_append, do_reget, replace_result>>
xfer    == <<resources, appending, pos, n_read, buf>>
fixed   == <<size, kind, obstacle>>
disk    == <<present, dst>>
panel   == <<marked, op, cur, ops>>
ghost   == <<decided, base>>
vars == <<fixed, disk, panel, pc, globals, return_status, xfer, budget,
          aborted, ghost>>

PCs == {"idle", "next", "returned",
        "move", "move_stat", "move_rename", "move_copied", "unlink",
        "copy", "dst_stat", "src_stat", "copy_query", "by_kind", "open_src",
        "reget", "fstat_src", "open_dst", "fstat_dst", "read", "write",
        "progress", "close_src", "close_dst", "finish", "chown", "chmod",
        "update"}

FilesOK ==
    /\ size \in [Files -> Nat]
    /\ kind \in [Files -> AllKinds]
    /\ obstacle \in [Files -> Obstacles]
    /\ present \in [Files -> BOOLEAN]
    /\ dst \in [Files -> Content]
    /\ base \in [Files -> Nat]

PanelOK ==
    /\ marked \in [Files -> BOOLEAN]
    /\ op \in {"copy", "move", "none"}
    /\ cur \in 0..NFiles
    /\ ops \in 0..MaxOps
    /\ decided \in [Files -> {"none", "overwrite", "append", "reget"}]

ControlOK ==
    /\ pc \in PCs
    /\ return_status \in Status
    /\ budget \in 0..MaxRetry
    /\ aborted \in BOOLEAN
    /\ do_append \in BOOLEAN
    /\ do_reget \in Nat
    /\ replace_result \in ThisTarget \cup AllTargets \cup {"none"}

TransferOK ==
    /\ resources \subseteq {"src", "dst", "short"}
    /\ appending \in BOOLEAN
    /\ pos \in Nat
    /\ n_read \in Nat
    /\ buf \in Nat

TypeOK == FilesOK /\ PanelOK /\ ControlOK /\ TransferOK

SizeOf(c) == c.old + (c.upto - c.from)
Whole(c, f) == c.there /\ c.good /\ c.from = 0 /\ c.upto = size[f]
Source(f) == [old |-> 0, from |-> 0, upto |-> size[f], good |-> TRUE,
              there |-> TRUE]

Init ==
    /\ size \in [Files -> Sizes]
    /\ kind \in [Files -> Kinds]
    /\ obstacle \in [Files -> Targets]
    /\ \A f, g \in Files : kind[f] = "hardlink" /\ kind[g] = "hardlink"
                            => size[f] = size[g]
    /\ present = [f \in Files |-> TRUE]
    /\ dst \in [Files -> {NoFile} \cup {OldFile(n) : n \in OldSizes}]
    /\ \A f \in Files : obstacle[f] # "none" => dst[f] = NoFile
    /\ marked = [f \in Files |-> TRUE]
    /\ op = "none" /\ cur = 0 /\ pc = "idle" /\ ops = 0
    /\ do_append = FALSE /\ do_reget = 1 /\ replace_result = "none"
    /\ return_status = "cont"
    /\ resources = {} /\ appending = FALSE
    /\ pos = 0 /\ n_read = 0 /\ buf = 0
    /\ budget = MaxRetry /\ aborted = FALSE
    /\ decided = [f \in Files |-> "none"]
    /\ base = [f \in Files |-> 0]

-----------------------------------------------------------------------------
(* The dialogs.  Each operator gives the primed values of pc,               *)
(* return_status, budget and aborted.                                       *)

StopAnswers == {"skip", "abort"}

NoAnswer == UNCHANGED <<budget, aborted>>

Stop(label, a) ==
    /\ a \in StopAnswers
    /\ aborted' = (aborted \/ a = "abort")
    /\ pc' = label
    /\ UNCHANGED budget

Again == budget > 0 /\ budget' = budget - 1 /\ UNCHANGED <<pc, aborted>>

\* file_error: Retry repeats the call that failed, the other answers leave
\* for `label' with the answer as status.
file_error(label) ==
    \/ Again /\ return_status' = "retry"
    \/ \E a \in StopAnswers : Stop(label, a) /\ return_status' = a

\* Faulty variant: Cancel is handed on as it comes from the dialog.
check_buttons_RawCancel(go, stop) ==
    \/ pc' = go /\ return_status' = "cont" /\ NoAnswer
    \/ \E a \in StopAnswers : Stop(stop, a) /\ return_status' = "cancel"

\* file_progress_show and its relatives: a button may have been pressed.
check_buttons(go, stop) ==
    \/ pc' = go /\ return_status' = "cont" /\ NoAnswer
    \/ \E a \in StopAnswers : Stop(stop, a) /\ return_status' = a

\* Faulty variant: Abort is reported to the caller as Skip.
check_abort_AsSkip(go, stop, s) ==
    \/ pc' = go /\ return_status' = s /\ NoAnswer
    \/ Stop(stop, "abort") /\ return_status' = "skip"

\* The callers that look only for Abort.
check_abort(go, stop, s) ==
    \/ pc' = go /\ return_status' = s /\ NoAnswer
    \/ Stop(stop, "abort") /\ return_status' = "abort"

Goto(label) == pc' = label /\ UNCHANGED return_status /\ NoAnswer
Return(s) == pc' = "returned" /\ return_status' = s /\ NoAnswer

\* copy_file_file is called by panel_operate or by move_file_file.
Caller == IF op = "copy" THEN "returned" ELSE "move_copied"

Offered(f) ==
    ThisTarget \cup (AllTargets \ {"reget"}) \cup
        (IF SizeOf(dst[f]) > 0 /\ size[f] > SizeOf(dst[f]) THEN {"reget"}
                                                             ELSE {})

\* What an answer says about this pair of files.
Verdict(r, f) ==
    CASE r \in {"yes", "always", "append", "reget"} -> {"cont"}
      [] r = "update" -> {"cont", "skip"}     \* depends on the two dates
      [] r = "size" -> {IF size[f] = SizeOf(dst[f]) THEN "skip" ELSE "cont"}
      [] r \in {"no", "never"} -> {"skip"}
      [] r = "abort" -> {"abort"}

Decision(r) == IF r \in {"append", "reget"} THEN r ELSE "overwrite"

\* file_progress_real_query_replace
query_replace(go, stop) ==
    \E r \in IF replace_result \in AllTargets THEN {replace_result}
                                              ELSE Offered(cur) :
    \E v \in Verdict(r, cur) :
        /\ replace_result' = r
        /\ do_reget' = IF r = "reget" THEN SizeOf(dst[cur]) ELSE do_reget
        /\ do_append' = (do_append \/ r \in {"append", "reget"})
        /\ return_status' = v
        /\ aborted' = (aborted \/ v = "abort")
        /\ decided' = IF v = "cont" THEN [decided EXCEPT ![cur] = Decision(r)]
                                    ELSE decided
        /\ pc' = IF v = "cont" THEN go ELSE stop
        /\ UNCHANGED budget

-----------------------------------------------------------------------------
(* panel_operate                                                            *)

StartOperation ==
    /\ pc = "idle" /\ ops < MaxOps
    /\ \E f \in Files : marked[f]
    /\ \E o \in Ops : op' = o
    /\ ops' = ops + 1
    /\ pc' = "next"
    /\ replace_result' = "none"                 \* create_op_win
    /\ budget' = MaxRetry /\ aborted' = FALSE
    /\ decided' = [f \in Files |-> "none"]
    /\ base' = [f \in Files |-> SizeOf(dst[f])]
    \* what an earlier operation left of a target is now an old target
    /\ dst' = [f \in Files |-> IF marked[f] /\ present[f] /\ dst[f].there
                               THEN OldFile(SizeOf(dst[f])) ELSE dst[f]]
    /\ UNCHANGED <<fixed, present, marked, cur, do_append, do_reget,
                   return_status, xfer>>

\* Faulty variant: the loop does not step past the file it has just handled.
Later_NoStep == {f \in Files : f >= cur /\ marked[f]}

Later == {f \in Files : f > cur /\ marked[f]}

NextFile ==
    /\ pc = "next" /\ Later # {}
    /\ cur' \in Later /\ \A f \in Later : cur' <= f
    /\ Goto(IF op = "copy" THEN "copy" ELSE "move")
    /\ UNCHANGED <<fixed, disk, marked, op, ops, globals, xfer, ghost>>

EndOperation ==
    /\ cur' = 0 /\ op' = "none" /\ pc' = "idle"
    /\ UNCHANGED <<fixed, disk, ops, globals, return_status, xfer, budget, ghost>>

LastFile ==
    /\ pc = "next" /\ Later = {}
    /\ EndOperation
    /\ UNCHANGED <<marked, aborted>>

\* Faulty variant: a skipped file loses its tag like a copied one.
FileDone_UntagsSkipped ==
    /\ pc = "returned" /\ return_status # "abort"
    /\ marked' = [marked EXCEPT ![cur] = FALSE]
    /\ \/ /\ pc' = "next"
          /\ UNCHANGED <<fixed, disk, op, cur, ops, globals, return_status,
                         xfer, budget, aborted, ghost>>
       \/ aborted' = TRUE /\ EndOperation

\* The value that came back decides about the tag; the progress window is
\* shown once more and is asked for Abort only.
FileDone ==
    /\ pc = "returned" /\ return_status # "abort"
    /\ marked' = IF return_status = "cont" THEN [marked EXCEPT ![cur] = FALSE]
                                           ELSE marked
    /\ \/ /\ pc' = "next"
          /\ UNCHANGED <<fixed, disk, op, cur, ops, globals, return_status,
                         xfer, budget, aborted, ghost>>
       \/ aborted' = TRUE /\ EndOperation

Aborted ==
    /\ pc = "returned" /\ return_status = "abort"
    /\ EndOperation
    /\ UNCHANGED <<marked, aborted>>

-----------------------------------------------------------------------------
(* move_file_file                                                           *)

MoveShow ==
    /\ pc = "move"
    /\ check_abort("move_stat", "returned", "cont")
    /\ UNCHANGED <<fixed, disk, panel, globals, xfer, ghost>>

MoveStatFails ==
    /\ pc = "move_stat" /\ (~present[cur] \/ StatRaces)
    /\ file_error("returned")
    /\ UNCHANGED <<fixed, disk, panel, globals, xfer, ghost>>

MoveStat ==
    /\ pc = "move_stat" /\ present[cur]
    /\ IF obstacle[cur] # "none"
       THEN Return("skip") /\ UNCHANGED <<globals, decided>>
       ELSE IF dst[cur].there /\ ConfirmOverwrite
            THEN query_replace("move_rename", "returned")
            ELSE /\ Goto("move_rename")
                 /\ decided' = [decided EXCEPT ![cur] =
                                  IF dst[cur].there THEN "overwrite" ELSE @]
                 /\ UNCHANGED globals
    /\ UNCHANGED <<fixed, disk, panel, xfer, base>>

MoveRename ==
    /\ pc = "move_rename" /\ ~do_append
    /\ dst' = [dst EXCEPT ![cur] = Source(cur)]
    /\ present' = [present EXCEPT ![cur] = FALSE]
    /\ Return("cont")
    /\ UNCHANGED <<fixed, panel, globals, xfer, ghost>>

\* The option "stable symlinks": the link is made anew, then removed.
MoveStableSymlink ==
    /\ pc = "move_rename" /\ ~do_append /\ kind[cur] = "symlink"
    /\ \/ /\ dst' = [dst EXCEPT ![cur] = Source(cur)]
          /\ pc' = "unlink" /\ return_status' = "cont" /\ NoAnswer
       \/ file_error("returned") /\ dst' \in {dst, [dst EXCEPT ![cur] = NoFile]}
    /\ UNCHANGED <<fixed, present, panel, globals, xfer, ghost>>

\* The rename failed, or is not tried because the source is to be appended.
MoveByCopy ==
    /\ pc = "move_rename"
    /\ Goto("copy")
    /\ UNCHANGED <<fixed, disk, panel, globals, xfer, ghost>>

\* Faulty variant: the status of the copy is not looked at.
MoveCopied_Unchecked ==
    /\ pc = "move_copied"
    /\ check_buttons("unlink", "returned")
    /\ UNCHANGED <<fixed, disk, panel, globals, xfer, ghost>>

MoveCopied ==
    /\ pc = "move_copied"
    /\ IF return_status = "cont" THEN check_buttons("unlink", "returned")
                                 ELSE Goto("returned")
    /\ UNCHANGED <<fixed, disk, panel, globals, xfer, ghost>>

UnlinkFails ==
    /\ pc = "unlink"
    /\ file_error("returned")
    /\ UNCHANGED <<fixed, disk, panel, globals, xfer, ghost>>

Unlink ==
    /\ pc = "unlink"
    /\ present' = [present EXCEPT ![cur] = FALSE]
    /\ IF return_status = "cont" THEN check_buttons("returned", "returned")
                                 ELSE Goto("returned")
    /\ UNCHANGED <<fixed, dst, panel, globals, xfer, ghost>>

-----------------------------------------------------------------------------
(* copy_file_file                                                           *)

CopyShow ==
    /\ pc = "copy"
    /\ do_reget' = 0
    /\ resources' = {}
    /\ check_abort("dst_stat", Caller, "retry")
    /\ UNCHANGED <<fixed, disk, panel, do_append, replace_result, appending,
                   pos, n_read, buf, ghost>>

DstStat ==
    /\ pc = "dst_stat"
    /\ IF obstacle[cur] = "dir" THEN file_error(Caller) ELSE Goto("src_stat")
    /\ UNCHANGED <<fixed, disk, panel, globals, xfer, ghost>>

SrcStatFails ==
    /\ pc = "src_stat" /\ (~present[cur] \/ StatRaces)
    /\ file_error(Caller)
    /\ UNCHANGED <<fixed, disk, panel, globals, xfer, ghost>>

SrcStat ==
    /\ pc = "src_stat" /\ present[cur]
    /\ Goto(IF dst[cur].there \/ obstacle[cur] = "same" THEN "copy_query"
                                                        ELSE "by_kind")
    /\ UNCHANGED <<fixed, disk, panel, globals, xfer, ghost>>

\* Only panel_operate passes ask_overwrite; move_file_file has asked already.
CopyQuery ==
    /\ pc = "copy_query"
    /\ IF obstacle[cur] = "same"
       THEN /\ pc' = Caller /\ return_status' = "skip" /\ NoAnswer
            /\ UNCHANGED <<globals, decided>>
       ELSE IF op = "copy"
            THEN query_replace("by_kind", Caller)
            ELSE Goto("by_kind") /\ UNCHANGED <<globals, decided>>
    /\ UNCHANGED <<fixed, disk, panel, xfer, base>>

\* check_hardlinks: an earlier name of the same inode has been copied, and
\* the target becomes one more link to that copy.
Hardlinked ==
    /\ pc = "by_kind" /\ ~do_append /\ kind[cur] = "hardlink" /\ ~dst[cur].there
    /\ \E g \in Files : /\ g < cur /\ kind[g] = "hardlink"
                        /\ present[g] /\ dst[g].there
                        /\ dst' = [dst EXCEPT ![cur] = dst[g]]
    /\ Goto(Caller)
    /\ UNCHANGED <<fixed, present, panel, globals, xfer, ghost>>

\* make_symlink and mknod.  An existing symbolic link is removed first, and
\* making the new one may fail after that.
MakeSpecial ==
    /\ pc = "by_kind" /\ ~do_append /\ kind[cur] \in {"symlink", "special"}
    /\ \/ /\ kind[cur] = "special" => ~dst[cur].there
          /\ dst' = [dst EXCEPT ![cur] = Source(cur)]
          /\ pc' = Caller /\ return_status' = "cont" /\ NoAnswer
       \/ file_error(Caller) /\ UNCHANGED dst
       \/ /\ kind[cur] = "symlink" /\ file_error(Caller)
          /\ dst' = [dst EXCEPT ![cur] = NoFile]
       \* chown or chmod of the new node
       \/ /\ kind[cur] = "special" /\ ~dst[cur].there
          /\ dst' = [dst EXCEPT ![cur] = Source(cur)]
          /\ \E a \in StopAnswers : Stop(Caller, a) /\ return_status' = a
    /\ UNCHANGED <<fixed, present, panel, globals, xfer, ghost>>

Regular ==
    /\ pc = "by_kind"
    /\ do_append \/ kind[cur] \in {"plain", "hardlink"}
    /\ Goto("open_src")
    /\ UNCHANGED <<fixed, disk, panel, globals, xfer, ghost>>

\* Faulty variant: the error exits leave do_append as it is.
StopAppending_Forgotten == UNCHANGED do_append

\* An error that ends the attempt forgets that the file was to be appended.
StopAppending ==
    do_append' = IF return_status' = "retry" THEN do_append ELSE FALSE

OpenSrc ==
    /\ pc = "open_src" /\ present[cur]
    /\ resources' = resources \cup {"src"}
    /\ pos' = 0
    /\ Goto(IF do_reget > 0 THEN "reget" ELSE "fstat_src")
    /\ UNCHANGED <<fixed, disk, panel, globals, appending, n_read, buf, ghost>>

OpenSrcFails ==
    /\ pc = "open_src"
    /\ file_error(Caller)
    /\ StopAppending
    /\ UNCHANGED <<fixed, disk, panel, do_reget, replace_result, xfer, ghost>>

Reget ==
    /\ pc = "reget"
    /\ pos' = do_reget
    /\ Goto("fstat_src")
    /\ UNCHANGED <<fixed, disk, panel, globals, resources, appending, n_read,
                   buf, ghost>>

\* "Reget failed, about to overwrite file"
RegetFails ==
    /\ pc = "reget"
    /\ do_reget' = 0 /\ do_append' = FALSE
    /\ decided' = [decided EXCEPT ![cur] = "overwrite"]
    /\ Goto("fstat_src")
    /\ UNCHANGED <<fixed, disk, panel, replace_result, xfer, base>>

FstatSrc ==
    /\ pc = "fstat_src"
    /\ \/ Goto("open_dst") /\ UNCHANGED do_append
       \/ file_error("close_src") /\ StopAppending
    /\ UNCHANGED <<fixed, disk, panel, do_reget, replace_result, xfer, ghost>>

\* Faulty variant: the target is truncated also when it is appended to.
OpenDst_Truncates ==
    /\ pc = "open_dst"
    /\ do_append => dst[cur].there
    /\ dst' = [dst EXCEPT ![cur] = [old |-> 0, from |-> 0, upto |-> 0,
                                   good |-> TRUE, there |-> TRUE]]
    /\ resources' = resources \cup {"dst", "short"}
    /\ appending' = do_append
    /\ do_append' = FALSE
    /\ Goto("fstat_dst")
    /\ UNCHANGED <<fixed, present, panel, do_reget, replace_result, pos,
                   n_read, buf, ghost>>

\* Without O_CREAT (appending) the open of a missing target cannot succeed.
OpenDst ==
    /\ pc = "open_dst"
    /\ do_append => dst[cur].there
    /\ dst' = [dst EXCEPT ![cur] =
                [old |-> IF do_append THEN SizeOf(@) ELSE 0,
                 from |-> pos, upto |-> pos, good |-> TRUE, there |-> TRUE]]
    /\ resources' = resources \cup {"dst", "short"}
    /\ appending' = do_append
    /\ do_append' = FALSE
    /\ Goto("fstat_dst")
    /\ UNCHANGED <<fixed, present, panel, do_reget, replace_result, pos,
                   n_read, buf, ghost>>

OpenDstFails ==
    /\ pc = "open_dst"
    /\ file_error("close_src")
    /\ StopAppending
    /\ UNCHANGED <<fixed, disk, panel, do_reget, replace_result, xfer, ghost>>

FstatDst ==
    /\ pc = "fstat_dst"
    /\ \/ check_buttons("read", "close_src")
       \/ file_error("close_src")
    /\ UNCHANGED <<fixed, disk, panel, globals, xfer, ghost>>

ReadNotReady ==
    /\ pc = "read" /\ budget > 0 /\ budget' = budget - 1
    /\ pc' = "progress"
    /\ UNCHANGED <<fixed, disk, panel, globals, return_status, xfer, aborted, ghost>>

ReadFails ==
    /\ pc = "read"
    /\ file_error("close_src")
    /\ UNCHANGED <<fixed, disk, panel, globals, xfer, ghost>>

Read ==
    /\ pc = "read"
    /\ \E k \in 1..BufSize : /\ pos + k <= size[cur]
                             /\ pos' = pos + k /\ n_read' = k
    /\ buf' = pos
    /\ Goto("write")
    /\ UNCHANGED <<fixed, disk, panel, globals, resources, appending, ghost>>

ReadEof ==
    /\ pc = "read" /\ pos >= size[cur]
    /\ resources' = resources \ {"short"}
    /\ Goto("close_src")
    /\ UNCHANGED <<fixed, disk, panel, globals, appending, pos, n_read, buf, ghost>>

\* mc_write stores the first k bytes of the buffer behind the target's end.
Stored(c, k) == [c EXCEPT !.upto = @ + k,
                         !.good = IF c.upto = buf THEN @ ELSE FALSE]

Write ==
    /\ pc = "write"
    /\ dst' = [dst EXCEPT ![cur] = Stored(@, n_read)]
    /\ n_read' = 0
    /\ Goto("progress")
    /\ UNCHANGED <<fixed, present, panel, globals, resources, appending, pos,
                   buf, ghost>>

\* After a short write the loop writes what is left -- counted correctly,
\* but taken from the start of the buffer again.
WriteShort ==
    /\ pc = "write" /\ ShortWrites
    /\ \E k \in 1..(n_read - 1) : /\ dst' = [dst EXCEPT ![cur] = Stored(@, k)]
                                  /\ n_read' = n_read - k
    /\ UNCHANGED <<fixed, present, panel, pc, return_status, budget, aborted,
                   globals, resources, appending, pos, buf, ghost>>

WriteFails ==
    /\ pc = "write"
    /\ file_error("close_src")
    /\ UNCHANGED <<fixed, disk, panel, globals, xfer, ghost>>

Progress ==
    /\ pc = "progress"
    /\ check_buttons("read", "close_src")
    /\ UNCHANGED <<fixed, disk, panel, globals, xfer, ghost>>

\* `ret:'.  Closing the source keeps the status unless the answer is Abort;
\* closing the target and the calls after it replace the status.
CloseSrc ==
    /\ pc = "close_src"
    /\ \/ Goto("close_dst")
       \/ /\ LateErrors /\ "src" \in resources
          /\ \/ Again /\ UNCHANGED return_status
             \/ \E a \in StopAnswers :
                   /\ Stop("close_dst", a)
                   /\ return_status' = IF a = "abort" THEN a ELSE return_status
    /\ UNCHANGED <<fixed, disk, panel, globals, xfer, ghost>>

TempError(label) ==
    \/ Again /\ UNCHANGED return_status
    \/ \E a \in StopAnswers : Stop(label, a) /\ return_status' = a

CloseDst ==
    /\ pc = "close_dst"
    /\ \/ Goto("finish")
       \/ LateErrors /\ "dst" \in resources /\ TempError("finish")
    /\ UNCHANGED <<fixed, disk, panel, globals, xfer, ghost>>

\* "Incomplete file was retrieved. Keep it?"
RemoveShortFile ==
    /\ pc = "finish" /\ "short" \in resources
    /\ dst' \in {dst, [dst EXCEPT ![cur] = NoFile]}
    /\ Goto("update")
    /\ UNCHANGED <<fixed, present, panel, globals, xfer, ghost>>

Finish ==
    /\ pc = "finish" /\ "short" \notin resources
    /\ Goto(IF "dst" \in resources THEN "chown" ELSE "update")
    /\ UNCHANGED <<fixed, disk, panel, globals, xfer, ghost>>

Chown ==
    /\ pc = "chown"
    /\ Goto("chmod") \/ (LateErrors /\ ~appending /\ TempError("chmod"))
    /\ UNCHANGED <<fixed, disk, panel, globals, xfer, ghost>>

Chmod ==
    /\ pc = "chmod"
    /\ Goto("update") \/ (LateErrors /\ ~appending /\ TempError("update"))
    /\ UNCHANGED <<fixed, disk, panel, globals, xfer, ghost>>

UpdateOne ==
    /\ pc = "update"
    /\ IF return_status = "cont" THEN check_buttons(Caller, Caller)
                                 ELSE Goto(Caller)
    /\ UNCHANGED <<fixed, disk, panel, globals, xfer, ghost>>

-----------------------------------------------------------------------------
copy_file_file ==
    \/ CopyShow \/ DstStat \/ SrcStatFails \/ SrcStat \/ CopyQuery
    \/ Hardlinked \/ MakeSpecial \/ Regular
    \/ OpenSrc \/ OpenSrcFails \/ Reget \/ RegetFails \/ FstatSrc
    \/ OpenDst \/ OpenDstFails \/ FstatDst
    \/ ReadNotReady \/ ReadFails \/ Read \/ ReadEof
    \/ Write \/ WriteShort \/ WriteFails \/ Progress
    \/ CloseSrc \/ CloseDst \/ RemoveShortFile \/ Finish
    \/ Chown \/ Chmod \/ UpdateOne

move_file_file ==
    \/ MoveShow \/ MoveStatFails \/ MoveStat \/ MoveRename
    \/ MoveStableSymlink \/ MoveByCopy \/ MoveCopied \/ UnlinkFails \/ Unlink

panel_operate == NextFile \/ LastFile \/ FileDone \/ Aborted

\* Between operations the program waits; nothing has to follow.
Idle == pc = "idle" /\ UNCHANGED vars

Next == StartOperation \/ Idle \/ panel_operate \/ move_file_file \/ copy_file_file

Spec == Init /\ [][Next]_vars

\* The program runs on by itself and the user answers what is asked; a new
\* operation need not be started.
Fairness == WF_vars(panel_operate \/ move_file_file \/ copy_file_file)

FairSpec == Spec /\ Fairness

-----------------------------------------------------------------------------
(* Properties                                                               *)

\* Moving never loses data: when a source file has been removed, all of its
\* bytes, each once and in order, are in its target (behind the old contents
\* if the user chose Append).  The removal is the mc_unlink of move_file_file
\* or the rename before it.
MoveNeverLoses == \A f \in Files : ~present[f] => Whole(dst[f], f)

\* The same without looking at the bytes: a source file is removed only when
\* its target has received as many bytes as the source has.
MoveCountsAll ==
    \A f \in Files : ~present[f] =>
        dst[f].there /\ dst[f].from = 0 /\ dst[f].upto = size[f]

Succeeded == pc = "returned" /\ return_status = "cont"

\* A transfer reported as successful has carried the source to its end.
CopyComplete ==
    Succeeded => dst[cur].there /\ dst[cur].good /\ dst[cur].upto >= size[cur]

\* mc.1: "Press the Yes button to overwrite the file": nothing of the old
\* contents is left in a target that was to be overwritten, whatever was
\* answered about files before it.
YesOverwrites ==
    Succeeded /\ decided[cur] \in {"none", "overwrite"}
        => dst[cur].old = 0 /\ dst[cur].from = 0

\* Append puts the whole source behind the whole old contents.
AppendAppends ==
    Succeeded /\ decided[cur] = "append"
        => dst[cur].old = base[cur] /\ dst[cur].from = 0

\* Reget continues the source where the existing target ends.
RegetResumes ==
    Succeeded /\ decided[cur] = "reget" /\ op = "copy"
        => dst[cur].old = base[cur] /\ dst[cur].from = base[cur]

\* What a successful transfer leaves behind is what was agreed with the user.
CopiedAsDecided ==
    CopyComplete /\ YesOverwrites /\ AppendAppends /\ RegetResumes

\* The old contents of a target that is being appended to stay in place until
\* the user has the incomplete target deleted.
AppendKeepsOld ==
    \A f \in Files :
        decided[f] \in {"append", "reget"} /\ dst[f].there
            => dst[f].old + dst[f].from >= base[f]

\* mc.1: "Pressing the Abort button will abort the whole operation, the rest
\* of the files are skipped": after Abort no other file is taken up, no source
\* is removed, and nothing is written; the target at hand, if it is incomplete,
\* may still be deleted.
AbortSkipsTheRest ==
    [][aborted /\ cur # 0 =>
          /\ cur' \in {cur, 0}
          /\ present' = present
          /\ dst' \in {dst, [dst EXCEPT ![cur] = NoFile]}]_vars

\* mc.1: "only the files on which the operation succeeded are untagged.
\* Failed and skipped files are left tagged."
UntaggedOnSuccess ==
    [][\A f \in Files : marked[f] /\ ~marked'[f] =>
          /\ dst[f].there /\ dst[f].upto >= size[f]
          /\ op = "move" => ~present[f]]_vars

\* An operation comes to an end once the user stops answering Retry.
OperationEnds == pc = "next" ~> pc = "idle"

=============================================================================
