------------------------------ MODULE TreeOps ------------------------------
(***************************************************************************)
(* Operations on directory trees: copy_dir_dir, move_dir_dir, erase_dir,   *)
(* recursive_erase and erase_file of src/file.c, called by panel_operate   *)
(* for the tagged entries of a panel.                                      *)
(*                                                                         *)
(* A tree of nodes is given by the parent of each node.  The recursion of  *)
(* the code is a stack of frames, one for each directory being read; the   *)
(* entries of a directory come in any order.  The transfer of one plain    *)
(* file is a single step here, with the outcomes that module CopyFile      *)
(* shows copy_file_file and move_file_file to have.  Every system call may *)
(* fail and every dialog may be answered in any way.                       *)
(***************************************************************************)
EXTENDS Naturals, Sequences

CONSTANTS
    NNodes,     \* the files and directories are 1..NNodes, in panel order
    Parent,     \* the directory a node is in; 0 is the panel's directory
    Dirs,       \* the nodes that are directories
    Jobs,       \* operations that may be chosen: "copy", "move", "delete"
    Targets,    \* directories there may be at the target (subset of Obstacles)
    MaxRetry    \* bound: Retry answers

Nodes == 1..NNodes
\* No directory, one, or one that holds a directory of the source's name.
Obstacles == {"none", "dir", "dirdir"}

ASSUME TreeAssumption ==
    /\ NNodes \in Nat
    /\ Dirs \subseteq Nodes
    /\ Parent \in [Nodes -> Dirs \cup {0}]
    /\ \A n \in Nodes : Parent[n] < n
ASSUME ChoiceAssumption ==
    /\ Jobs \subseteq {"copy", "move", "delete"}
    /\ Targets \subseteq Obstacles
    /\ MaxRetry \in Nat

Top == {n \in Nodes : Parent[n] = 0}
Status == {"cont", "retry", "skip", "abort"}
Answers == {"none", "yes", "no", "always", "never", "abort"}

VARIABLES
    src,        \* nodes that are still at the source
    dst,        \* nodes that are complete at the target
    obstacle,   \* the directory at the target's name of each top-level node
    taken,      \* directories at whose target's name a plain file stands
    dive_into_subdirs,  \* the option of that name in the copy dialog
    tagged,     \* top-level nodes still marked in the panel
    job,        \* the operation
    cur,        \* top-level node being processed
    pc,
    arg,        \* argument of the running call
    stack,      \* frames of copy_dir_dir or recursive_erase
    status,     \* return_status
    erase_list, \* copied nodes that move_dir_dir will erase
    recursive_result,   \* file_progress_recursive_result
    budget,     \* Retry answers left
    aborted,    \* history: the entries in which the user asked for Abort
    refused,    \* history: directories the user would not have deleted
    skipped     \* history: files below a moved directory not carried over

tree == <<src, dst>>
choice == <<obstacle, taken, dive_into_subdirs>>
calls == <<cur, arg, stack>>
ghost == <<refused, skipped>>
vars == <<tree, choice, tagged, job, calls, pc, status, erase_list,
          recursive_result, budget, aborted, ghost>>

PCs == {"next", "returned", "done",
        "erase_file", "unlink", "erase_dir", "query", "erase_loop",
        "recursive_rmdir", "rmdir",
        "copy_dir", "mkdir", "opendir", "copy_loop", "copy_file",
        "copied_entry",
        "move_file", "move_dir", "move_dir_stat", "rename", "moved",
        "erase_list", "erased", "erase_iff_empty", "rmdir_iff_empty"}

TypeOK ==
    /\ src \subseteq Nodes /\ dst \subseteq Nodes
    /\ obstacle \in [Top -> Obstacles] /\ taken \subseteq Dirs
    /\ dive_into_subdirs \in BOOLEAN
    /\ tagged \subseteq Top
    /\ job \in {"copy", "move", "delete"}
    /\ cur \in Top \cup {0}
    /\ pc \in PCs
    /\ arg \in Nodes \cup {0}
    /\ stack \in Seq([dir : Dirs, left : SUBSET Nodes])
    /\ status \in Status
    /\ erase_list \in Seq(Nodes)
    /\ recursive_result \in Answers
    /\ budget \in 0..MaxRetry
    /\ aborted \subseteq Top
    /\ refused \subseteq Dirs /\ skipped \subseteq Nodes

Children(n, S) == {m \in S : Parent[m] = n}

\* The top-level node that n is, or is below.
RootOf[n \in Nodes] == IF Parent[n] = 0 THEN n ELSE RootOf[Parent[n]]

\* n and the directories it is in.
Path[n \in Nodes] == {n} \cup (IF Parent[n] = 0 THEN {} ELSE Path[Parent[n]])
Subtree(d) == {n \in Nodes : d \in Path[n]}

\* Plain files are at the target's own name, or in the directories that stand
\* there and are used as they are.
TakenOK ==
    \A n \in taken :
        /\ Path[n] \cap taken = {n}
        /\ IF Parent[n] = 0
           THEN obstacle[n] = "none"
           ELSE obstacle[RootOf[n]] # "none" /\ ~dive_into_subdirs

Init ==
    /\ src = Nodes /\ dst = {}
    /\ obstacle \in [Top -> Targets]
    /\ dive_into_subdirs \in BOOLEAN
    /\ taken \in SUBSET Dirs /\ TakenOK
    /\ tagged = Top
    /\ job \in Jobs
    /\ cur = 0 /\ arg = 0 /\ pc = "next" /\ stack = <<>>
    /\ status = "cont" /\ erase_list = <<>>
    /\ recursive_result = "none"          \* create_op_win
    /\ budget = MaxRetry /\ aborted = {}
    /\ refused = {} /\ skipped = {}

-----------------------------------------------------------------------------
(* Calls, returns and dialogs.                                              *)

Frame == stack[Len(stack)]
Push(d) == stack' = Append(stack, [dir |-> d, left |-> Children(d, src)])
Pop == SubSeq(stack, 1, Len(stack) - 1)
Take(n) == stack' = [stack EXCEPT ![Len(stack)].left = @ \ {n}]

\* What a check of the progress window's buttons can say.
StopAnswers == {"skip", "abort"}
AbortAsked(a) ==
    aborted' = IF a = "abort" THEN aborted \cup {cur} ELSE aborted
Said(a) == status' = a /\ AbortAsked(a)

Quiet(s) == status' = s /\ UNCHANGED <<aborted, budget>>

\* Where erase_file returns to.
Eraser == IF stack # <<>> THEN "erase_loop"
          ELSE IF job = "move" THEN "erased" ELSE "returned"

Return(label, s) == pc' = label /\ Quiet(s)

Retry == budget > 0 /\ budget' = budget - 1 /\ UNCHANGED <<pc, aborted>>

file_error(label) ==
    \/ Retry /\ status' = "retry"
    \/ \E a \in StopAnswers : Said(a) /\ pc' = label /\ UNCHANGED budget

\* The callers that look for Abort only.
Show(go, stop) ==
    \/ pc' = go /\ Quiet(status)
    \/ pc' = stop /\ Said("abort") /\ UNCHANGED budget

\* check_progress_buttons returned as the status of a call.
Buttons(go, stop) ==
    \/ pc' = go /\ Quiet("cont")
    \/ \E a \in StopAnswers : Said(a) /\ pc' = stop /\ UNCHANGED budget

-----------------------------------------------------------------------------
(* panel_operate                                                            *)

\* Faulty variant: the loop does not step past the entry just handled.
Later_NoStep == {n \in tagged : n >= cur}

Later == {n \in tagged : n > cur}

NextEntry ==
    /\ pc = "next" /\ Later # {}
    /\ cur' \in Later /\ \A n \in Later : cur' <= n
    /\ arg' = cur'
    /\ pc' = CASE job = "delete" -> IF cur' \in Dirs THEN "erase_dir"
                                                     ELSE "erase_file"
               [] job = "copy" -> IF cur' \in Dirs THEN "copy_dir"
                                                   ELSE "copy_file"
               [] job = "move" -> IF cur' \in Dirs THEN "move_dir"
                                                   ELSE "move_file"
    /\ Quiet("cont")
    /\ UNCHANGED <<tree, choice, tagged, job, stack, erase_list,
                   recursive_result, ghost>>

LastEntry ==
    /\ pc = "next" /\ Later = {}
    /\ pc' = "done"
    /\ UNCHANGED <<tree, choice, tagged, job, calls, status, erase_list,
                   recursive_result, budget, aborted, ghost>>

EntryDone ==
    /\ pc = "returned" /\ status # "abort"
    /\ tagged' = IF status = "cont" THEN tagged \ {cur} ELSE tagged
    /\ Show("next", "done")
    /\ UNCHANGED <<tree, choice, job, calls, erase_list, recursive_result,
                   ghost>>

Aborted ==
    /\ pc = "returned" /\ status = "abort"
    /\ pc' = "done"
    /\ UNCHANGED <<tree, choice, tagged, job, calls, status, erase_list,
                   recursive_result, budget, aborted, ghost>>

-----------------------------------------------------------------------------
(* erase_file, erase_dir, recursive_erase                                   *)

erasing == <<dst, choice, tagged, job, erase_list, skipped>>

EraseFile ==
    /\ pc = "erase_file"
    /\ Show("unlink", Eraser)
    /\ UNCHANGED <<src, erasing, calls, recursive_result, refused>>

UnlinkFails ==
    /\ pc = "unlink"
    /\ file_error(Eraser)
    /\ UNCHANGED <<src, erasing, calls, recursive_result, refused>>

\* Only a delete reports its progress, and may be stopped by it.
Unlink ==
    /\ pc = "unlink"
    /\ src' = src \ {arg}
    /\ IF job = "delete" THEN Buttons(Eraser, Eraser) ELSE Return(Eraser, "cont")
    /\ UNCHANGED <<erasing, calls, recursive_result, refused>>

EraseDir ==
    /\ pc = "erase_dir"
    /\ \/ Show(IF Children(arg, src) = {} THEN "rmdir" ELSE "query", "returned")
       \/ pc' = "rmdir" /\ Quiet(status)          \* the directory is unreadable
    /\ UNCHANGED <<src, erasing, calls, recursive_result, refused>>

\* An answer that was given for all directories is not asked for again.
query_recursive ==
    /\ pc = "query"
    /\ \E r \in IF recursive_result \in {"always", "never", "abort"}
                THEN {recursive_result} ELSE Answers \ {"none"} :
        /\ recursive_result' = r
        /\ \/ /\ r \in {"yes", "always"}
              /\ \/ pc' = "erase_loop" /\ Push(arg) /\ Quiet("cont")
                 \/ Return("returned", "retry") /\ UNCHANGED stack
              /\ UNCHANGED refused
           \/ /\ r \in {"no", "never"}
              /\ refused' = refused \cup {arg}
              /\ Return("returned", "skip") /\ UNCHANGED stack
           \/ /\ r = "abort"
              /\ pc' = "returned" /\ Said("abort")
              /\ UNCHANGED <<stack, budget, refused>>
    /\ UNCHANGED <<src, erasing, cur, arg>>

\* A recursive call that did not succeed returns TRUE to its caller, which
\* is FILE_RETRY whatever happened in it.
Up(s) == IF Len(stack) > 1 /\ s # "cont" THEN "retry" ELSE s

Leave(s) ==
    /\ stack' = Pop
    /\ pc' = IF Len(stack) > 1 THEN "erase_loop" ELSE "returned"
    /\ status' = Up(s)

\* The next entry: a directory is entered (if it can be opened), a file is
\* erased.
RecursiveErase ==
    /\ pc = "erase_loop" /\ status = "cont"
    /\ \E n \in Frame.left :
        IF n \in Dirs
        THEN /\ pc' = "erase_loop" /\ UNCHANGED arg
             /\ \/ Quiet("cont")
                   /\ stack' = Append([stack EXCEPT ![Len(stack)].left = @ \ {n}],
                                      [dir |-> n, left |-> Children(n, src)])
                \/ Quiet("retry") /\ Take(n)
        ELSE Take(n) /\ arg' = n /\ pc' = "erase_file" /\ Quiet("cont")
    /\ UNCHANGED <<src, erasing, cur, recursive_result, refused>>

\* An entry cannot be examined.
RecursiveFails ==
    /\ pc = "erase_loop" /\ status = "cont" /\ Frame.left # {}
    /\ Leave("retry")
    /\ UNCHANGED <<src, erasing, cur, arg, recursive_result, refused, budget,
                   aborted>>

RecursiveStops ==
    /\ pc = "erase_loop" /\ status # "cont"
    /\ Leave(status)
    /\ UNCHANGED <<src, erasing, cur, arg, recursive_result, refused, budget,
                   aborted>>

RecursiveEnd ==
    /\ pc = "erase_loop" /\ status = "cont" /\ Frame.left = {}
    /\ \/ /\ pc' = "recursive_rmdir"
          /\ UNCHANGED <<stack, status, aborted>>
       \/ Leave("abort") /\ AbortAsked("abort")
    /\ UNCHANGED <<src, erasing, cur, arg, recursive_result, refused, budget>>

\* rmdir removes empty directories only.
RecursiveRmdir ==
    /\ pc = "recursive_rmdir"
    /\ \/ /\ Children(Frame.dir, src) = {}
          /\ src' = src \ {Frame.dir}
          /\ Leave("cont") /\ UNCHANGED <<budget, aborted>>
       \/ Retry /\ UNCHANGED <<src, stack, status>>
       \/ \E a \in StopAnswers :
             /\ Leave(a) /\ AbortAsked(a)
             /\ UNCHANGED <<src, budget>>
    /\ UNCHANGED <<erasing, cur, arg, recursive_result, refused>>

Rmdir ==
    /\ pc = "rmdir"
    /\ \/ /\ Children(arg, src) = {}
          /\ src' = src \ {arg}
          /\ Return("returned", "cont")
       \/ file_error("returned") /\ UNCHANGED src
    /\ UNCHANGED <<erasing, calls, recursive_result, refused>>

-----------------------------------------------------------------------------
(* copy_dir_dir                                                             *)

copying == <<src, choice, tagged, job, recursive_result, refused>>

\* Where copy_dir_dir and copy_file_file return to.
Copier == IF stack # <<>> THEN "copied_entry"
          ELSE IF job = "move" THEN "moved" ELSE "returned"

\* copy_file_file: success means that the target is complete.  Nothing can be
\* made below a plain file.
CopyFile ==
    /\ pc = "copy_file"
    /\ dst' \in {dst, dst \cup {arg}}
    /\ \E s \in Status :
        /\ Said(s)
        /\ s = "cont" => arg \in dst'
        /\ Parent[arg] \in taken => s # "cont" /\ dst' = dst
        /\ skipped' = IF s = "cont" THEN skipped ELSE skipped \cup {arg}
    /\ pc' = Copier
    /\ UNCHANGED <<copying, calls, erase_list, budget>>

\* The source cannot be examined, or is a link to one of its parents.
CopyDirFails ==
    /\ pc = "copy_dir"
    /\ \/ file_error(Copier)
       \/ job = "copy" /\ stack # <<>> /\ Return(Copier, "skip")
    /\ UNCHANGED <<copying, dst, calls, erase_list, skipped>>

\* An existing target is used as it is, even if it is a plain file, except
\* that a copy of a tagged directory may go one level deeper.
CopyDir ==
    /\ pc = "copy_dir"
    /\ IF stack = <<>>
       THEN pc' = IF \/ obstacle[arg] = "none" /\ arg \notin taken
                     \/ dive_into_subdirs
                  THEN "mkdir" ELSE "opendir"
       ELSE /\ pc' \in {"mkdir", "opendir"}
            /\ Parent[arg] \in taken => pc' = "mkdir"
            /\ ({arg} \cup Children(arg, Nodes)) \cap taken # {}
                  => pc' = "opendir"
    /\ Quiet(status)
    /\ UNCHANGED <<copying, dst, calls, erase_list, skipped>>

\* mkdir and chown of the target directory.
Mkdir ==
    /\ pc = "mkdir"
    /\ \/ /\ stack = <<>> => obstacle[arg] # "dirdir" /\ arg \notin taken
          /\ Parent[arg] \notin taken
          /\ pc' = "opendir" /\ Quiet(status)
       \/ file_error(Copier)
    /\ UNCHANGED <<copying, dst, calls, erase_list, skipped>>

\* The target exists now: nothing has looked whether it is a directory.  If the
\* source cannot be read the status says nothing of it.
OpenDir ==
    /\ pc = "opendir"
    /\ dst' = dst \cup ({arg} \ taken)
    /\ \/ pc' = "copy_loop" /\ Push(arg)
       \/ pc' = Copier /\ UNCHANGED stack
    /\ UNCHANGED <<copying, cur, arg, status, budget, aborted, erase_list,
                   skipped>>

\* Faulty variant: the loop goes on after Abort.
CopyDirEntry_PastAbort ==
    /\ pc = "copy_loop"
    /\ \E n \in Frame.left :
        /\ arg' = n
        /\ Take(n)
        /\ pc' = IF n \in Dirs THEN "copy_dir" ELSE "copy_file"
    /\ Quiet("cont")
    /\ UNCHANGED <<copying, dst, cur, erase_list, skipped>>

\* The next entry: a directory is entered, a file copied.
CopyDirEntry ==
    /\ pc = "copy_loop" /\ status # "abort"
    /\ \E n \in Frame.left :
        /\ arg' = n
        /\ Take(n)
        /\ pc' = IF n \in Dirs THEN "copy_dir" ELSE "copy_file"
    /\ Quiet("cont")
    /\ UNCHANGED <<copying, dst, cur, erase_list, skipped>>

\* Faulty variant: an entry is noted down for erasing whatever became of it.
CopiedEntry_Always ==
    /\ pc = "copied_entry"
    /\ erase_list' = IF job = "move" /\ status # "abort"
                     THEN Append(erase_list, arg) ELSE erase_list
    /\ pc' = "copy_loop"
    /\ UNCHANGED <<copying, dst, calls, status, budget, aborted, skipped>>

\* A move notes down what it has copied, to erase it at the end.
CopiedEntry ==
    /\ pc = "copied_entry"
    /\ erase_list' = IF job = "move" /\ status = "cont"
                     THEN Append(erase_list, arg) ELSE erase_list
    /\ pc' = "copy_loop"
    /\ UNCHANGED <<copying, dst, calls, status, budget, aborted, skipped>>

\* The loop's last status is the status of the directory.
CopyDirEnd ==
    /\ pc = "copy_loop" /\ (status = "abort" \/ Frame.left = {})
    /\ arg' = Frame.dir
    /\ stack' = Pop
    /\ pc' = IF Len(stack) > 1 THEN "copied_entry"
             ELSE IF job = "move" THEN "moved" ELSE "returned"
    /\ UNCHANGED <<copying, dst, cur, status, budget, aborted, erase_list,
                   skipped>>

-----------------------------------------------------------------------------
(* move_dir_dir, and move_file_file as a single step                        *)

moving == <<choice, tagged, job, cur, stack, recursive_result, ghost>>

\* move_file_file: the source goes only if the target is complete.
MoveFile ==
    /\ pc = "move_file"
    /\ dst' \in {dst, dst \cup {arg}}
    /\ src' \in {src, src \ {arg}}
    /\ arg \notin src' => arg \in dst'
    /\ \E s \in Status :
        /\ Said(s)
        /\ s = "cont" => arg \notin src'
        /\ s = "retry" => arg \in src'
    /\ pc' = "returned"
    /\ UNCHANGED <<moving, arg, erase_list, budget>>

MoveDir ==
    /\ pc = "move_dir"
    /\ Show("move_dir_stat", "returned")
    /\ UNCHANGED <<tree, moving, arg, erase_list>>

MoveDirStat ==
    /\ pc = "move_dir_stat"
    /\ IF \/ obstacle[arg] = "none" /\ arg \notin taken
          \/ dive_into_subdirs /\ obstacle[arg] # "dirdir"
       THEN pc' = "rename" /\ Quiet(status)
       ELSE IF dive_into_subdirs THEN file_error("returned")
            ELSE pc' = "copy_dir" /\ Quiet("cont")
    /\ UNCHANGED <<tree, moving, arg, erase_list>>

Rename ==
    /\ pc = "rename" /\ arg \notin taken
    /\ src' = src \ Subtree(arg)
    /\ dst' = dst \cup Subtree(arg)
    /\ Return("returned", "cont")
    /\ UNCHANGED <<moving, arg, erase_list>>

\* Across file systems the directory is copied; other errors are reported.
RenameFails ==
    /\ pc = "rename"
    /\ \/ pc' = "copy_dir" /\ Quiet("cont")
       \/ file_error("returned")
    /\ UNCHANGED <<tree, moving, arg, erase_list>>

\* Faulty variant: the list is not emptied when nothing is to be erased.
Moved_KeepsList ==
    /\ pc = "moved"
    /\ IF status = "cont" THEN Buttons("erase_list", "returned")
                          ELSE pc' = "returned" /\ Quiet(status)
    /\ UNCHANGED <<tree, moving, arg, erase_list>>

\* The copy is complete, or nothing is erased.
Moved ==
    /\ pc = "moved"
    /\ IF status = "cont" THEN Buttons("erase_list", "returned")
                          ELSE pc' = "returned" /\ Quiet(status)
    /\ erase_list' = IF pc' = "returned" THEN <<>> ELSE erase_list
    /\ UNCHANGED <<tree, moving, arg>>

EraseList ==
    /\ pc = "erase_list"
    /\ IF erase_list # <<>> /\ status # "abort"
       THEN /\ arg' = Head(erase_list)
            /\ pc' = IF arg' \in Dirs THEN "erase_iff_empty" ELSE "erase_file"
       ELSE arg' = cur /\ pc' = "erase_iff_empty"
    /\ Quiet(status)
    /\ UNCHANGED <<tree, moving, erase_list>>

Erased ==
    /\ pc = "erased"
    /\ erase_list' = Tail(erase_list)
    /\ pc' = "erase_list" /\ Quiet(status)
    /\ UNCHANGED <<tree, moving, arg>>

\* erase_dir_iff_empty returns; what it says of the moved directory itself is
\* not looked at.
IffEmpty(s) ==
    IF arg = cur
    THEN pc' = "returned" /\ erase_list' = <<>> /\ UNCHANGED status
    ELSE pc' = "erased" /\ status' = s /\ UNCHANGED erase_list

\* Faulty variant: the directory is removed with what is left in it.
EraseDirIffEmpty_Recursive ==
    /\ pc = "erase_iff_empty"
    /\ \/ IffEmpty("abort") /\ AbortAsked("abort") /\ UNCHANGED src
       \/ IffEmpty("cont") /\ UNCHANGED aborted /\ src' = src \ Subtree(arg)
    /\ UNCHANGED <<dst, moving, arg, budget>>

\* Not empty or unreadable: left alone.
EraseDirIffEmpty ==
    /\ pc = "erase_iff_empty"
    /\ \/ IffEmpty("abort") /\ AbortAsked("abort")
       \/ IffEmpty("cont") /\ UNCHANGED aborted
       \/ /\ Children(arg, src) = {}
          /\ pc' = "rmdir_iff_empty" /\ UNCHANGED <<status, aborted, erase_list>>
    /\ UNCHANGED <<tree, moving, arg, budget>>

\* my_rmdir removes empty directories only.
RmdirIffEmpty ==
    /\ pc = "rmdir_iff_empty"
    /\ \/ /\ Children(arg, src) = {} /\ src' = src \ {arg}
          /\ IffEmpty("cont") /\ UNCHANGED <<budget, aborted>>
       \/ Retry /\ UNCHANGED <<src, status, erase_list>>
       \/ \E a \in StopAnswers :
             /\ IffEmpty(a) /\ AbortAsked(a)
             /\ UNCHANGED <<src, budget>>
    /\ UNCHANGED <<dst, moving, arg>>

-----------------------------------------------------------------------------
panel_operate == NextEntry \/ LastEntry \/ EntryDone \/ Aborted

erase_dir ==
    \/ EraseFile \/ UnlinkFails \/ Unlink \/ EraseDir \/ query_recursive
    \/ RecursiveErase \/ RecursiveFails \/ RecursiveStops \/ RecursiveEnd
    \/ RecursiveRmdir \/ Rmdir

copy_dir_dir ==
    \/ CopyFile \/ CopyDirFails \/ CopyDir \/ Mkdir \/ OpenDir \/ CopyDirEntry
    \/ CopiedEntry \/ CopyDirEnd

move_dir_dir ==
    \/ MoveFile \/ MoveDir \/ MoveDirStat \/ Rename \/ RenameFails \/ Moved
    \/ EraseList \/ Erased \/ EraseDirIffEmpty \/ RmdirIffEmpty

Done == pc = "done" /\ UNCHANGED vars

Step == panel_operate \/ erase_dir \/ copy_dir_dir \/ move_dir_dir

Next == Step \/ Done

Spec == Init /\ [][Next]_vars

\* The program runs on by itself and the user answers what is asked.
FairSpec == Spec /\ WF_vars(Step)

-----------------------------------------------------------------------------
(* Properties                                                               *)

\* Moving a tree never loses a file, nor a directory that holds anything: what
\* has been removed from the source is complete at the target.  Only an empty
\* directory may be gone for good, if a plain file stands at its name there:
\* copy_dir_dir takes that for the directory ("FIXME: In this step we should
\* do something in case the destination already exist").
MoveKeeps ==
    job = "move" =>
        \A n \in Nodes \ src :
            n \in dst \/ (n \in taken /\ Children(n, Nodes) = {})

\* The list of what a move will erase.
EraseListSafe ==
    \A i \in 1..Len(erase_list) :
        /\ erase_list[i] \in (dst \cup taken) \ skipped
        /\ RootOf[erase_list[i]] = cur /\ erase_list[i] # cur
        /\ \A j \in 1..(i - 1) : erase_list[j] \notin Path[erase_list[i]]

\* The types, and: what is noted down for erasing has been copied (or is a
\* directory for which a plain file was taken), belongs to the directory being
\* moved, and comes before the directory it is in.
Consistent == TypeOK /\ EraseListSafe

\* A file of a moved directory that was skipped stays where it was, and so do
\* the directories it is in; a directory that the user would not have deleted
\* is left with all it holds.
SkippedStays ==
    /\ \A n \in skipped : job = "move" => Path[n] \subseteq src
    /\ \A d \in refused : Subtree(d) \subseteq src

\* mc.1: "Pressing the Abort button will abort the whole operation, the rest
\* of the files are skipped".  The part of this that the code keeps: within the
\* tagged entry in which the user asked for Abort nothing more is copied or
\* erased.  Each of the loops and recursive calls on the stack has to stop for
\* it, and move_dir_dir calls erase_dir_iff_empty once more all the same.
AbortStopsEntry == [][(cur \in aborted) /\ cur' = cur => UNCHANGED tree]_vars

\* The operation comes to an end once the user stops answering Retry.
OperationEnds == <>(pc = "done")
=============================================================================
