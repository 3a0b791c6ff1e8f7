----------------------------- MODULE Background -----------------------------
(***************************************************************************)
(* Copying in the background: do_background, parent_call and               *)
(* background_attention of src/background.c, the channels that get_event   *)
(* of src/key.c watches, and the questions a copy asks (query_replace,     *)
(* file_error).                                                            *)
(*                                                                         *)
(* The parent is one thread, but it reads a job's request inside           *)
(* get_event, and the dialog that the request opens calls get_event        *)
(* itself: the handling of one job's question is interrupted by the        *)
(* question of another.  `stack' has one frame for each dialog that is     *)
(* open.  The set of descriptors that select found is one static variable, *)
(* which the inner loop overwrites under the outer one, and so is the      *)
(* pointer to the replace dialog.                                          *)
(*                                                                         *)
(* A job copies its files one after the other.  Everything that lies       *)
(* between its questions is one step.                                      *)
(***************************************************************************)
EXTENDS Naturals, Sequences, FiniteSets

CONSTANTS
    NJobs,      \* jobs that may be started, numbered in that order
    NFiles,     \* files that each of them copies
    Answers,    \* the buttons of the replace dialog that occur
    Retries,    \* bound: Retry answers given to each job
    Kills,      \* TRUE: jobs may be killed from the Background Jobs dialog
    MaxDepth    \* bound: dialogs open at once

Jobs == 1..NJobs
Files == 1..NFiles

\* The answers that filegui.c numbers REPLACE_ALWAYS or higher.
AllTargets == {"always", "update", "never", "abort", "size", "reget"}
Buttons == AllTargets \cup {"yes", "no", "append"}

ASSUME BackgroundAssumption ==
    /\ NJobs \in Nat /\ NFiles \in Nat
    /\ Answers \subseteq Buttons /\ Answers # {}
    /\ Retries \in Nat /\ MaxDepth \in Nat
    /\ Kills \in BOOLEAN

VARIABLES
    \* the jobs
    job,         \* where each job is
    file,        \* the file it is at
    exists,      \* which of its targets exist already
    append,      \* its file_progress_do_append
    retries,     \* Retry answers it may still get
    \* the sockets
    up, down,    \* from the job to the parent and back
    \* the parent
    pc,          \* what it does: "select", "walk" over the channels, "key"
    at,          \* the channels below this one have not been looked at
    channels,    \* select_list, which is in the order of descending jobs
    select_set,  \* static fd_set: what select found; 0 is the keyboard
    stack,       \* the dialogs opened by background_attention
    replace_dlg, \* the job for which the static replace_dlg was created last,
                 \* and the value that dialog returned
    do_append, replace_result,   \* the parent's file_progress_ globals
    \* history
    said,        \* what was answered about each target
    done         \* what the job did with each target

jobs == <<job, file, exists, append, retries>>
sockets == <<up, down>>
globals == <<do_append, replace_result, replace_dlg>>
loop == <<pc, at, select_set>>
history == <<said, done>>
vars == <<jobs, sockets, loop, channels, stack, globals, history>>

JobStates == {"none", "file", "ask", "open", "error", "leaving", "gone", "killed"}
Messages == {"replace", "error", "exit"}
Status == {"cont", "skip", "retry", "abort"}
Reply == [status : Status, append : BOOLEAN]

TypeOK ==
    /\ job \in [Jobs -> JobStates]
    /\ file \in [Jobs -> 1..(NFiles + 1)]
    /\ exists \in [Jobs -> [Files -> BOOLEAN]]
    /\ append \in [Jobs -> BOOLEAN]
    /\ retries \in [Jobs -> 0..Retries]
    /\ up \in [Jobs -> Seq(Messages)] /\ down \in [Jobs -> Seq(Reply)]
    /\ pc \in {"select", "walk", "key", "dead"}
    /\ at \in 1..(NJobs + 1)
    /\ channels \subseteq Jobs
    /\ select_set \subseteq Jobs \cup {0}
    /\ stack \in Seq([job : Jobs, about : {"replace", "error", "death"}])
    /\ replace_dlg \in [job : Jobs \cup {0}, ret : Buttons \cup {"none"}]
    /\ do_append \in BOOLEAN
    /\ replace_result \in Buttons \cup {"none"}
    /\ said \in [Jobs -> [Files -> Buttons \cup {"none"}]]
    /\ done \in [Jobs -> [Files -> {"none", "written", "appended"}]]

Init ==
    /\ job = [c \in Jobs |-> "none"] /\ file = [c \in Jobs |-> 1]
    /\ exists \in [Jobs -> [Files -> BOOLEAN]]
    /\ append = [c \in Jobs |-> FALSE] /\ retries = [c \in Jobs |-> Retries]
    /\ up = [c \in Jobs |-> <<>>] /\ down = [c \in Jobs |-> <<>>]
    /\ pc = "select" /\ at = NJobs + 1 /\ channels = {} /\ select_set = {}
    /\ stack = <<>> /\ replace_dlg = [job |-> 0, ret |-> "none"]
    /\ do_append = FALSE /\ replace_result = "none"
    /\ said = [c \in Jobs |-> [f \in Files |-> "none"]]
    /\ done = [c \in Jobs |-> [f \in Files |-> "none"]]

-----------------------------------------------------------------------------
(* The jobs: panel_operate and copy_file_file in the child process.         *)

parent == <<loop, channels, stack, globals>>

\* A job at a certain place.  The model ends when the parent does.
At(c, place) == pc # "dead" /\ job[c] = place

Send(c, m) == up' = [up EXCEPT ![c] = Append(@, m)] /\ UNCHANGED down

\* query_replace is called for a target that exists.
ChildFile(c) ==
    /\ At(c, "file") /\ file[c] <= NFiles
    /\ IF exists[c][file[c]]
       THEN Send(c, "replace") /\ job' = [job EXCEPT ![c] = "ask"]
       ELSE job' = [job EXCEPT ![c] = "open"] /\ UNCHANGED sockets
    /\ UNCHANGED <<file, exists, append, retries, parent, history>>

\* Where a status leads: the next file, the same call again, or clean_up.
Proceed(c, status) ==
    /\ job' = [job EXCEPT ![c] = CASE status \in {"cont", "retry"} -> "open"
                                   [] status = "skip" -> "file"
                                   [] status = "abort" -> "leaving"]
    /\ file' = IF status = "skip" THEN [file EXCEPT ![c] = @ + 1] ELSE file

\* parent_call reads the status and the parent's do_append.
ChildAnswered(c) ==
    /\ At(c, "ask") /\ down[c] # <<>>
    /\ append' = [append EXCEPT ![c] = Head(down[c]).append]
    /\ Proceed(c, Head(down[c]).status)
    /\ down' = [down EXCEPT ![c] = Tail(@)]
    /\ UNCHANGED <<exists, retries, up, parent, history>>

\* Without O_CREAT (appending) the open of a missing target cannot succeed.
ChildCopies(c) ==
    /\ At(c, "open")
    /\ append[c] => exists[c][file[c]]
    /\ done' = [done EXCEPT ![c][file[c]] = IF append[c] THEN "appended"
                                                        ELSE "written"]
    /\ append' = [append EXCEPT ![c] = FALSE]
    /\ job' = [job EXCEPT ![c] = "file"]
    /\ file' = [file EXCEPT ![c] = @ + 1]
    /\ UNCHANGED <<exists, retries, sockets, parent, said>>

\* One of the opens fails, and file_error is called.
ChildFails(c) ==
    /\ At(c, "open")
    /\ Send(c, "error") /\ job' = [job EXCEPT ![c] = "error"]
    /\ UNCHANGED <<file, exists, append, retries, parent, history>>

\* Faulty variant: parent_call does not read the reply of file_error.
ChildErrorAnswered_LeavesReply(c) ==
    /\ At(c, "error") /\ down[c] # <<>>
    /\ append' = [append EXCEPT ![c] = /\ Head(down[c]).status = "retry"
                                       /\ Head(down[c]).append]
    /\ Proceed(c, Head(down[c]).status)
    /\ retries' = IF Head(down[c]).status = "retry"
                  THEN [retries EXCEPT ![c] = @ - 1] ELSE retries
    /\ UNCHANGED <<exists, sockets, parent, history>>

\* The reply to an error dialog brings the parent's do_append as well; the
\* error exits clear it afterwards, Retry does not.
ChildErrorAnswered(c) ==
    /\ At(c, "error") /\ down[c] # <<>>
    /\ append' = [append EXCEPT ![c] = /\ Head(down[c]).status = "retry"
                                       /\ Head(down[c]).append]
    /\ Proceed(c, Head(down[c]).status)
    /\ retries' = IF Head(down[c]).status = "retry"
                  THEN [retries EXCEPT ![c] = @ - 1] ELSE retries
    /\ down' = [down EXCEPT ![c] = Tail(@)]
    /\ UNCHANGED <<exists, up, parent, history>>

\* tell_parent (MSG_CHILD_EXITING)
ChildExits(c) ==
    /\ \/ At(c, "leaving")
       \/ At(c, "file") /\ file[c] > NFiles
    /\ Send(c, "exit") /\ job' = [job EXCEPT ![c] = "gone"]
    /\ UNCHANGED <<file, exists, append, retries, parent, history>>

Child(c) ==
    \/ ChildFile(c) \/ ChildAnswered(c) \/ ChildCopies(c) \/ ChildFails(c)
    \/ ChildErrorAnswered(c) \/ ChildExits(c)

-----------------------------------------------------------------------------
(* The parent: get_event, try_channels, check_selects.                      *)

CanRead(c) == up[c] # <<>> \/ job[c] \in {"gone", "killed"}

\* select waits until a job or the keyboard has something.  A key may come at
\* any time.
Select ==
    /\ pc = "select"
    /\ \E key \in {{}, {0}} :
          select_set' = {c \in channels : CanRead(c)} \cup key
    /\ select_set' # {}
    /\ pc' = "walk" /\ at' = NJobs + 1
    /\ UNCHANGED <<jobs, sockets, channels, stack, globals, history>>

\* The channels that check_selects has still to look at.
Rest == {c \in channels : c < at /\ c \in select_set}

\* The walk is over: a key is read, or select called again.
WalkEnds ==
    /\ pc = "walk" /\ Rest = {}
    /\ pc' = IF 0 \in select_set THEN "key" ELSE "select"
    /\ UNCHANGED <<jobs, sockets, at, select_set, channels, stack, globals, history>>

\* The descriptor that background_attention reads next.
Reads(c) == pc = "walk" /\ c \in Rest /\ \A d \in Rest : d <= c

\* The channels below c have still to be looked at.
Attended(c) == pc' = "walk" /\ at' = c /\ UNCHANGED select_set

\* A dialog is put up and run, which is a get_event loop of its own; the
\* process has room for so many of them.
Opens(c, about) ==
    /\ IF Len(stack) < MaxDepth
       THEN pc' = "select" /\ stack' = Append(stack, [job |-> c, about |-> about])
       ELSE pc' = "dead" /\ UNCHANGED stack
    /\ UNCHANGED <<at, select_set>>

Take(c) == up' = [up EXCEPT ![c] = Tail(@)]

\* The reply carries do_append as it is when the routine has returned.  To
\* write to a job that has been killed fails, and nobody looks: tcp_init
\* catches SIGPIPE.
SendReply(c, status) ==
    down' = IF job[c] = "killed" THEN down
            ELSE [down EXCEPT ![c] = Append(@, [status |-> status,
                                                append |-> do_append'])]

\* What an answer says about a pair of files; two of them look at the files.
Verdict(r) ==
    CASE r \in {"yes", "always", "append", "reget"} -> {"cont"}
      [] r \in {"update", "size"} -> {"cont", "skip"}
      [] r \in {"no", "never"} -> {"skip"}
      [] r = "abort" -> {"abort"}

\* The end of file_progress_real_query_replace, for the result r.
Replaced(c, r) ==
    /\ replace_result' = r
    /\ do_append' = (do_append \/ r \in {"append", "reget"})
    /\ \E s \in Verdict(r) : SendReply(c, s)

Said(c, a) == said' = [said EXCEPT ![c][file[c]] = a]

\* query_replace: an answer for all targets is still there, or a dialog is
\* run.
AttendReplace(c) ==
    /\ Reads(c) /\ up[c] # <<>> /\ Head(up[c]) = "replace"
    /\ Take(c)
    /\ IF replace_result \in AllTargets
       THEN /\ Replaced(c, replace_result) /\ Said(c, replace_result)
            /\ Attended(c) /\ UNCHANGED <<stack, replace_dlg>>
       ELSE /\ Opens(c, "replace")
            /\ replace_dlg' = [job |-> c, ret |-> "none"]
            /\ UNCHANGED <<down, do_append, replace_result, said>>
    /\ UNCHANGED <<jobs, channels, done>>

AttendError(c) ==
    /\ Reads(c) /\ up[c] # <<>> /\ Head(up[c]) = "error"
    /\ Take(c) /\ Opens(c, "error")
    /\ UNCHANGED <<jobs, down, channels, globals, history>>

\* Faulty variant: the channel of a job that has left stays registered.
AttendExit_KeepsChannel(c) ==
    /\ Reads(c) /\ up[c] # <<>> /\ Head(up[c]) = "exit"
    /\ Take(c) /\ Attended(c)
    /\ UNCHANGED <<jobs, down, channels, stack, globals, history>>

\* MSG_CHILD_EXITING: unregister_task_running.
AttendExit(c) ==
    /\ Reads(c) /\ up[c] # <<>> /\ Head(up[c]) = "exit"
    /\ Take(c) /\ Attended(c)
    /\ channels' = channels \ {c}
    /\ UNCHANGED <<jobs, down, stack, globals, history>>

\* End of file: a message is shown, and the channel unregistered after that.
AttendDeath(c) ==
    /\ Reads(c) /\ up[c] = <<>> /\ down[c] = <<>>
    /\ job[c] \in {"gone", "killed"}
    /\ Opens(c, "death")
    /\ UNCHANGED <<jobs, sockets, channels, globals, history>>

\* A reply was never read by the job: read gives -1, which is not less than
\* sizeof (routine), and a routine that has no value is called.
AttendReset(c) ==
    /\ Reads(c) /\ up[c] = <<>> /\ job[c] = "killed" /\ down[c] # <<>>
    /\ pc' = "dead"
    /\ UNCHANGED <<jobs, sockets, at, select_set, channels, stack, globals,
                   history>>

background_attention(c) ==
    \/ AttendReplace(c) \/ AttendError(c) \/ AttendExit(c) \/ AttendDeath(c)
    \/ AttendReset(c)

-----------------------------------------------------------------------------
(* A key is read: it answers the dialog on top, or is a command.            *)

Top == stack[Len(stack)]

\* background_attention returns into the walk that called it.
Closes(kinds) ==
    /\ pc = "key" /\ stack # <<>> /\ Top.about \in kinds
    /\ stack' = SubSeq(stack, 1, Len(stack) - 1)
    /\ Attended(Top.job)
    /\ UNCHANGED <<jobs, up, done>>

\* The result is fetched through replace_dlg.  When the dialog of another job
\* has been created since, that one is read, although it is freed: its own
\* result, or a value that the switch takes for Abort.
AnswerReplace ==
    /\ Closes({"replace"})
    /\ \E a \in Answers :
        /\ Said(Top.job, a)
        /\ \E r \in IF replace_dlg.job = Top.job THEN {a}
                                                 ELSE {replace_dlg.ret, "abort"} :
            /\ Replaced(Top.job, r)
            /\ replace_dlg' = IF replace_dlg.job = Top.job
                              THEN [replace_dlg EXCEPT !.ret = r] ELSE replace_dlg
    /\ UNCHANGED channels

\* Faulty variant: for Retry the parent does not answer.
ErrorReply_RetryUnsent(c) ==
    \E s \in {"skip", "retry", "abort"} :
        /\ s = "retry" => retries[c] > 0
        /\ IF s = "retry" THEN UNCHANGED down ELSE SendReply(c, s)

ErrorReply(c) ==
    \E s \in {"skip", "retry", "abort"} :
        /\ s = "retry" => retries[c] > 0
        /\ SendReply(c, s)

\* An error dialog, or the message about a death, after which the channel is
\* unregistered.  (No run of the program gets there: while the message waits
\* for a key, get_event finds the end of file again.)
AnswerMessage ==
    /\ Closes({"error", "death"})
    /\ UNCHANGED <<globals, said>>
    /\ IF Top.about = "error"
       THEN ErrorReply(Top.job) /\ UNCHANGED channels
       ELSE channels' = channels \ {Top.job} /\ UNCHANGED down

\* do_background: the new process has a copy of the parent's globals.
StartJob(c) ==
    /\ pc = "key" /\ stack = <<>>
    /\ job[c] = "none" /\ \A d \in Jobs : d < c => job[d] # "none"
    /\ job' = [job EXCEPT ![c] = "file"]
    /\ append' = [append EXCEPT ![c] = do_append]
    /\ channels' = channels \cup {c}
    /\ pc' = "select"
    /\ UNCHANGED <<file, exists, retries, sockets, at, select_set, stack,
                   globals, history>>

\* task_cb of the Background Jobs dialog.
Kill(c) ==
    /\ pc = "key" /\ stack = <<>> /\ Kills
    /\ c \in channels /\ job[c] \notin {"gone", "killed"}
    /\ job' = [job EXCEPT ![c] = "killed"]
    /\ pc' = "select"
    /\ UNCHANGED <<file, exists, append, retries, sockets, at, select_set,
                   channels, stack, globals, history>>

\* Any other command.
OtherKey ==
    /\ pc = "key" /\ stack = <<>> /\ pc' = "select"
    /\ UNCHANGED <<jobs, sockets, at, select_set, channels, stack, globals,
                   history>>

-----------------------------------------------------------------------------
Parent ==
    \/ Select \/ WalkEnds \/ \E c \in Jobs : background_attention(c)
    \/ AnswerReplace \/ AnswerMessage \/ OtherKey

Session == Parent \/ \E c \in Jobs : StartJob(c) \/ Kill(c)

Dead == pc = "dead" /\ UNCHANGED vars

Next == Dead \/ Session \/ \E c \in Jobs : Child(c)

Spec == Init /\ [][Next]_vars

\* Each process runs on by itself, and the user answers what is asked.  No
\* job has to be started.
FairSpec == Spec /\ WF_vars(Parent) /\ \A c \in Jobs : WF_vars(Child(c))

-----------------------------------------------------------------------------
(* Properties                                                               *)

Alive(c) == job[c] \notin {"none", "gone", "killed"}
Asking(c) == job[c] \in {"ask", "error"}
Dialogs(c) == {i \in 1..Len(stack) : stack[i].job = c}

\* parent_call and background_attention keep step: the question of a job is
\* on its way, or in one dialog, or its answer is on its way back, whatever
\* was handled in between; a job that does not ask has nothing anywhere.
Exchange ==
    pc # "dead" => \A c \in Jobs : Alive(c) =>
        Len(up[c]) + Cardinality(Dialogs(c)) + Len(down[c])
            = IF Asking(c) THEN 1 ELSE 0

\* The types, and the exchange of questions and answers.
Consistent == TypeOK /\ Exchange

call == [c \in Jobs |->
    CASE job[c] \in {"gone", "killed"} -> [state |-> "over"]
      [] Asking(c) /\ down[c] = <<>> -> [state |-> "asked", question |-> job[c]]
      [] Asking(c) /\ down[c] # <<>> -> [state |-> "answered", reply |-> Head(down[c])]
      [] OTHER -> [state |-> "idle"]]

Calls == INSTANCE BackgroundCalls WITH Questions <- {"ask", "error"},
                                       Replies <- Reply

\* To the job, parent_call is a procedure call: see BackgroundCalls.
CallsAnsweredOnce == Calls!Spec

\* While nobody is killed, every job comes to its end and is unregistered,
\* although the user can answer one dialog at a time only and the parent may
\* sit in a read or wait for a key.
Killed == \E c \in Jobs : job[c] = "killed"
JobsEnd == \A c \in Jobs : job[c] = "file" ~> (c \notin channels \/ Killed)

\* mc.1: "the No button to skip the file".
NoSkips ==
    \A c \in Jobs : \A f \in Files : said[c][f] = "no" => done[c][f] = "none"
=============================================================================
