------------------------------ MODULE Subshell ------------------------------
(***************************************************************************)
(* The concurrent shell that runs the user's commands: src/subshell.c and  *)
(* its callers in main.c, cmd.c and command.c.                             *)
(*                                                                         *)
(* Before each prompt the shell writes its directory into a pipe and stops *)
(* itself.  mc reads the pipe, waits for SIGCHLD to tell that the shell    *)
(* has stopped, and continues it.  Between two commands mc keeps no        *)
(* contact: what it knows of the shell are subshell_state and              *)
(* subshell_cwd.  The user may leave a running shell with C-o and come     *)
(* back, and the shell may end or be killed at any time.                   *)
(*                                                                         *)
(* The steps of mc are those between two system calls that may wait; the   *)
(* signal handler may run between any two of them.                         *)
(***************************************************************************)
EXTENDS Naturals, Sequences, SequencesExt

CONSTANTS
    Dirs,           \* the directories of the panel and of the shell
    Remote,         \* those in a virtual file system
    Home,           \* where a shell starts
    TypesAhead,     \* whether the user types while a command runs
    MaxTyped,       \* bound: lines or parts of them, and signals, by the user
    MaxDeaths       \* bound: shells that exit or are killed

ASSUME HomeAssumption == Home \in Dirs \ Remote
ASSUME BoundsAssumption == MaxTyped \in Nat /\ MaxDeaths \in Nat

Local == Dirs \ Remote
Unreadable == "two lines"   \* subshell_cwd after two lines read as one

VARIABLES
    pc,             \* "select": in, or about to enter, the call
    call,           \* who called feed_subshell
    goal,           \* what the user asked mc for
    subshell_state,
    subshell_alive,
    subshell_stopped,
    subshell_ready,
    subshell_cwd,
    use_subshell,
    quit,
    waits_10s,      \* wptr is set: the first select of init_subshell
    cwd,            \* cpanel->cwd
    warned,         \* "Couldn't change to" was printed for this command
    shell,          \* the process: what it does, where, and its line
    report,         \* what waitpid would tell
    pty,            \* lines, and parts of lines, on their way to the shell
    pipe,           \* directories on their way to mc
    typed, deaths,  \* counters for the bounds
    unread,         \* history: a shell died while the pipe was not empty
    mixed           \* history: the user left this shell with C-o that was read
                    \* together with keys for the shell, which seemed ready

flags == <<subshell_state, subshell_alive, subshell_stopped, subshell_ready,
           subshell_cwd, use_subshell, quit>>
run == <<pc, call, goal, waits_10s>>
panel == <<cwd, warned>>
process == <<shell, report>>
channels == <<pty, pipe>>
bounds == <<typed, deaths, unread, mixed>>
vars == <<flags, run, panel, process, channels, bounds>>

\* "text" is the beginning of a line, "typed" a line that is not from mc; sure:
\* mc has not warned about the directory
Line == [what : {"precmd", "cd", "command", "typed", "text"}, dir : Local,
         sure : BOOLEAN]
Precmd == [what |-> "precmd", dir |-> Home, sure |-> TRUE]
Cd(d) == [what |-> "cd", dir |-> d, sure |-> TRUE]
Command(d) == [what |-> "command", dir |-> d, sure |-> ~warned]
Typed(what) == [what |-> what, dir |-> Home, sure |-> FALSE]

Status == {"starting", "reading", "running", "told", "stopped", "dead"}

ModeOK ==
    /\ pc \in {"idle", "go", "test", "select", "sync", "back", "timeout", "over"}
    /\ call \in {"init", "chdir", "run"}
    /\ goal \in {"start", "cd", "command", "toggle"}
    /\ subshell_state \in {"INACTIVE", "ACTIVE", "RUNNING_COMMAND"}
    /\ subshell_alive \in BOOLEAN /\ subshell_stopped \in BOOLEAN
    /\ subshell_ready \in BOOLEAN
    /\ use_subshell \in BOOLEAN /\ quit \in BOOLEAN /\ waits_10s \in BOOLEAN
    /\ warned \in BOOLEAN

PlaceOK == subshell_cwd \in Local \cup {"", Unreadable} /\ cwd \in Dirs

Process == [status : Status, suspended : BOOLEAN, cwd : Local, line : Line]

ShellOK ==
    /\ shell \in Process
    /\ report \in {"none", "stopped", "suspended", "exited", "killed"}

ChannelsOK ==
    /\ pty \in Seq(Line) /\ pipe \in Seq(Local)
    /\ typed \in 0..MaxTyped /\ deaths \in 0..MaxDeaths
    /\ unread \in BOOLEAN /\ mixed \in BOOLEAN

TypeOK == ModeOK /\ PlaceOK /\ ShellOK /\ ChannelsOK

NewShell == [status |-> "starting", suspended |-> FALSE, cwd |-> Home,
             line |-> Precmd]

Init ==
    /\ pc = "test" /\ call = "init" /\ goal = "start" /\ waits_10s = TRUE
    /\ subshell_state = "RUNNING_COMMAND"
    /\ subshell_alive = TRUE /\ subshell_stopped = FALSE
    /\ subshell_ready = FALSE /\ subshell_cwd = ""
    /\ use_subshell = TRUE /\ quit = FALSE
    /\ cwd = Home /\ warned = FALSE
    /\ shell = NewShell /\ report = "none"
    /\ pty = <<Precmd>> /\ pipe = <<>>
    /\ typed = 0 /\ deaths = 0 /\ unread = FALSE /\ mixed = FALSE

-----------------------------------------------------------------------------
(* feed_subshell and synchronize.                                           *)

Dead == shell.status = "dead"

Test ==
    /\ pc = "test"
    /\ pc' = IF subshell_alive THEN "select" ELSE "back"
    /\ UNCHANGED <<call, goal, waits_10s, flags, panel, process, channels, bounds>>

\* There is output to read, or the terminal has no other end any more.
ReadPty ==
    /\ pc = "select"
    /\ Dead \/ waits_10s
    /\ pc' = "test" /\ waits_10s' = FALSE
    /\ UNCHANGED <<call, goal, flags, panel, process, channels, bounds>>

ReadPipe_OnlyAfterCommands ==
    /\ pc = "select" /\ ~Dead /\ pipe # <<>>
    /\ subshell_cwd' = IF call = "run" \/ subshell_cwd = "" THEN Head(pipe)
                       ELSE subshell_cwd
    /\ pipe' = <<>>
    /\ pc' = "sync" /\ waits_10s' = FALSE
    /\ UNCHANGED <<call, goal, subshell_state, subshell_alive, subshell_stopped,
                   subshell_ready, use_subshell, quit, panel, process, pty, bounds>>

\* The whole pipe is read, and only the last newline taken off.
ReadPipe ==
    /\ pc = "select" /\ ~Dead /\ pipe # <<>>
    /\ subshell_cwd' = IF Len(pipe) = 1 THEN Head(pipe) ELSE Unreadable
    /\ pipe' = <<>>
    /\ pc' = "sync" /\ waits_10s' = FALSE
    /\ UNCHANGED <<call, goal, subshell_state, subshell_alive, subshell_stopped,
                   subshell_ready, use_subshell, quit, panel, process, pty, bounds>>

Continued(sh) == IF sh.status = "stopped" THEN [sh EXCEPT !.status = "reading"]
                 ELSE [sh EXCEPT !.suspended = FALSE]

synchronize_NoWait ==
    /\ pc = "sync"
    /\ subshell_stopped' = FALSE
    /\ shell' = Continued(shell)

synchronize_OnlyStopped ==
    /\ pc = "sync"
    /\ subshell_stopped
    /\ subshell_stopped' = FALSE
    /\ shell' = Continued(shell)

synchronize ==
    /\ pc = "sync"
    /\ ~subshell_alive \/ subshell_stopped
    /\ subshell_stopped' = FALSE
    /\ shell' = Continued(shell)

Synchronized ==
    /\ synchronize
    /\ subshell_ready' = TRUE
    /\ IF subshell_state = "RUNNING_COMMAND"
       THEN subshell_state' = "INACTIVE" /\ pc' = "back"
       ELSE UNCHANGED subshell_state /\ pc' = "test"
    /\ UNCHANGED <<call, goal, waits_10s, subshell_alive, subshell_cwd,
                   use_subshell, quit, panel, report, channels, bounds>>

\* A key of the user, looked at when there is nothing else to read.
HasKeyboard == pc = "select" /\ call = "run" /\ ~Dead /\ pipe = <<>>

MayType == TypesAhead \/ (shell.status = "reading"
                          /\ \A i \in 1..Len(pty) : pty[i].what = "text")

Type_KeepsReady(what) ==
    /\ HasKeyboard /\ MayType /\ typed < MaxTyped
    /\ pty' = Append(pty, Typed(what))
    /\ UNCHANGED subshell_ready
    /\ pc' = "test" /\ typed' = typed + 1
    /\ UNCHANGED <<call, goal, waits_10s, subshell_state, subshell_alive,
                   subshell_stopped, subshell_cwd, use_subshell, quit, panel,
                   process, pipe, deaths, unread, mixed>>

Type(what) ==
    /\ HasKeyboard /\ MayType /\ typed < MaxTyped
    /\ pty' = Append(pty, Typed(what))
    /\ subshell_ready' = FALSE
    /\ pc' = "test" /\ typed' = typed + 1
    /\ UNCHANGED <<call, goal, waits_10s, subshell_state, subshell_alive,
                   subshell_stopped, subshell_cwd, use_subshell, quit, panel,
                   process, pipe, deaths, unread, mixed>>

\* C-o, alone in what is read.
SwitchKey ==
    /\ HasKeyboard
    /\ subshell_state' = IF subshell_ready THEN "INACTIVE" ELSE subshell_state
    /\ pc' = "back"
    /\ UNCHANGED <<call, goal, waits_10s, subshell_alive, subshell_stopped,
                   subshell_ready, subshell_cwd, use_subshell, quit, panel,
                   process, channels, bounds>>

\* C-o behind other keys in what is read: they go to the shell, but it is ready
\* all the same.  (What is behind C-o is lost.)
SwitchKeyBehind(what) ==
    /\ HasKeyboard /\ MayType /\ typed < MaxTyped
    /\ pty' = Append(pty, Typed(what))
    /\ subshell_state' = IF subshell_ready THEN "INACTIVE" ELSE subshell_state
    /\ pc' = "back" /\ typed' = typed + 1
    /\ mixed' = (mixed \/ subshell_ready)
    /\ UNCHANGED <<call, goal, waits_10s, subshell_alive, subshell_stopped,
                   subshell_ready, subshell_cwd, use_subshell, quit, panel,
                   process, pipe, deaths, unread>>

Timeout ==
    /\ pc = "select" /\ waits_10s
    /\ pc' = "timeout" /\ waits_10s' = FALSE
    /\ UNCHANGED <<call, goal, flags, panel, process, channels, bounds>>

-----------------------------------------------------------------------------
(* init_subshell, do_subshell_chdir and invoke_subshell.                    *)

\* What is still on the terminal of a dead shell is gone; the pipe is kept.
init_subshell ==
    /\ subshell_alive' = TRUE /\ subshell_stopped' = FALSE
    /\ shell' = NewShell /\ report' = "none"
    /\ pty' = <<Precmd>>
    /\ subshell_state' = "RUNNING_COMMAND"
    /\ call' = "init" /\ pc' = "test" /\ waits_10s' = TRUE

InitDone ==
    /\ pc \in {"back", "timeout"} /\ call = "init"
    /\ use_subshell' = (pc = "back" /\ subshell_alive)
    /\ pc' = IF quit /\ goal # "start" THEN "over" ELSE "idle"
    /\ UNCHANGED <<call, goal, waits_10s, subshell_state, subshell_alive,
                   subshell_stopped, subshell_ready, subshell_cwd, quit, panel,
                   process, channels, bounds>>

do_subshell_chdir_OnlyAtFirst(d, next) ==
    IF subshell_state = "INACTIVE" /\ subshell_cwd = Home /\ d # Home
    THEN /\ call' = "chdir" /\ pc' = "test"
         /\ pty' = Append(pty, Cd(d))
         /\ subshell_state' = "RUNNING_COMMAND"
    ELSE pc' = next /\ UNCHANGED <<call, pty, subshell_state>>

\* "next" is where mc goes on when there is nothing to do.
do_subshell_chdir(d, next) ==
    IF subshell_state = "INACTIVE" /\ subshell_cwd # d
    THEN /\ call' = "chdir" /\ pc' = "test"
         /\ pty' = Append(pty, Cd(d))
         /\ subshell_state' = "RUNNING_COMMAND"
    ELSE pc' = next /\ UNCHANGED <<call, pty, subshell_state>>

ChdirDone ==
    /\ pc = "back" /\ call = "chdir"
    /\ warned' = (subshell_alive /\ subshell_cwd # cwd)
    /\ pc' = IF goal = "cd" THEN "idle" ELSE "go"
    /\ UNCHANGED <<call, goal, waits_10s, flags, cwd, process, channels, bounds>>

\* do_cd in a panel.
DoCd(d) ==
    /\ pc = "idle" /\ d # cwd
    /\ cwd' = d /\ goal' = "cd" /\ warned' = FALSE
    /\ IF use_subshell /\ d \in Local THEN do_subshell_chdir(d, "idle")
       ELSE UNCHANGED <<pc, call, pty, subshell_state>>
    /\ UNCHANGED <<waits_10s, subshell_alive, subshell_stopped, subshell_ready,
                   subshell_cwd, use_subshell, quit, process, pipe, bounds>>

\* shell_execute refuses a command while the shell is busy, and the command
\* line one in a directory that is not local.
Execute ==
    /\ pc = "idle" /\ use_subshell /\ cwd \in Local
    /\ subshell_state = "INACTIVE"
    /\ goal' = "command" /\ warned' = FALSE
    /\ do_subshell_chdir(cwd, "go")
    /\ UNCHANGED <<waits_10s, subshell_alive, subshell_stopped, subshell_ready,
                   subshell_cwd, use_subshell, quit, cwd, process, pipe, bounds>>

\* view_other_cmd.
Toggle ==
    /\ pc = "idle" /\ use_subshell
    /\ goal' = "toggle" /\ warned' = FALSE
    /\ IF cwd \in Local THEN do_subshell_chdir(cwd, "go")
       ELSE pc' = "go" /\ UNCHANGED <<call, pty, subshell_state>>
    /\ UNCHANGED <<waits_10s, subshell_alive, subshell_stopped, subshell_ready,
                   subshell_cwd, use_subshell, quit, cwd, process, pipe, bounds>>

\* invoke_subshell, after the change of directory.
Go ==
    /\ pc = "go"
    /\ pc' = "test" /\ call' = "run"
    /\ IF goal = "command"
       THEN /\ pty' = Append(pty, Command(cwd))
            /\ subshell_state' = "RUNNING_COMMAND" /\ subshell_ready' = FALSE
       ELSE /\ subshell_state' = IF subshell_state = "INACTIVE" THEN "ACTIVE"
                                 ELSE subshell_state
            /\ UNCHANGED <<pty, subshell_ready>>
    /\ UNCHANGED <<goal, waits_10s, subshell_alive, subshell_stopped,
                   subshell_cwd, use_subshell, quit, panel, process, pipe, bounds>>

\* do_possible_cd: the panel follows the shell, unless the directory cannot be
\* entered (its own do_subshell_chdir finds nothing to do).
do_possible_cd ==
    IF subshell_alive /\ cwd \in Local /\ subshell_cwd # cwd
    THEN cwd' \in {cwd} \cup ({subshell_cwd} \cap Local)
    ELSE UNCHANGED cwd

RunDone ==
    /\ pc = "back" /\ call = "run"
    /\ do_possible_cd
    /\ IF ~subshell_alive /\ ~quit
       THEN init_subshell /\ mixed' = FALSE
       ELSE /\ pc' = IF quit THEN "over" ELSE "idle"
            /\ UNCHANGED <<subshell_alive, subshell_stopped, process, pty,
                           subshell_state, call, waits_10s, mixed>>
    /\ UNCHANGED <<goal, subshell_ready, subshell_cwd, use_subshell, quit,
                   warned, pipe, typed, deaths, unread>>

\* quit_cmd, when exit_subshell does not ask or the answer is Yes.
Quit ==
    /\ pc = "idle" /\ pc' = "over"
    /\ UNCHANGED <<call, goal, waits_10s, flags, panel, process, channels, bounds>>

-----------------------------------------------------------------------------
(* sigchld_handler.  Before the call of select it goes unnoticed, in the    *)
(* call it interrupts it.                                                   *)

sigchld_handler ==
    /\ report # "none" /\ report' = "none" /\ pc # "over"
    /\ subshell_stopped' = (subshell_stopped \/ report = "stopped")
    /\ subshell_alive' = (subshell_alive /\ report \notin {"exited", "killed"})
    /\ quit' = (quit \/ report = "exited")
    /\ shell' = IF report = "suspended" THEN Continued(shell) ELSE shell
    /\ pc' \in IF pc = "select" THEN {"test", "select"} ELSE {pc}
    /\ UNCHANGED <<call, goal, waits_10s, subshell_state, subshell_ready,
                   subshell_cwd, use_subshell, panel, channels, bounds>>

-----------------------------------------------------------------------------
(* The shell, as init_subshell sets it up: external.                        *)

mc == <<flags, run, panel>>

Reads == ~shell.suspended /\ pc # "over"

Starts ==
    /\ Reads /\ shell.status = "starting"
    /\ shell' = [shell EXCEPT !.status = "reading"]
    /\ UNCHANGED <<mc, report, channels, bounds>>

\* A line begins with what had been typed of it before.
TakesLine ==
    /\ Reads /\ shell.status = "reading"
    /\ LET n == SelectInSeq(pty, LAMBDA l : l.what # "text")
       IN  /\ n # 0
           /\ shell' = [shell EXCEPT !.status = "running",
                           !.line = IF n = 1 THEN pty[1] ELSE Typed("typed")]
           /\ pty' = SubSeq(pty, n + 1, Len(pty))
    /\ UNCHANGED <<mc, report, pipe, bounds>>

\* The line is done, and the directory told.
Tells(d) ==
    /\ Reads /\ shell.status = "running"
    /\ CASE shell.line.what = "precmd" -> d = shell.cwd
         [] shell.line.what = "cd" -> d \in {shell.cwd, shell.line.dir}
         [] OTHER -> TRUE
    /\ shell' = [shell EXCEPT !.status = "told", !.cwd = d]
    /\ pipe' = Append(pipe, d)
    /\ UNCHANGED <<mc, report, pty, bounds>>

Stops ==
    /\ Reads /\ shell.status = "told"
    /\ shell' = [shell EXCEPT !.status = "stopped"] /\ report' = "stopped"
    /\ UNCHANGED <<mc, channels, bounds>>

\* The user stops the shell itself with SIGTSTP.
Suspended ==
    /\ Reads /\ shell.status \in {"reading", "running"} /\ report = "none"
    /\ typed < MaxTyped /\ typed' = typed + 1
    /\ shell' = [shell EXCEPT !.suspended = TRUE] /\ report' = "suspended"
    /\ UNCHANGED <<mc, channels, deaths, unread, mixed>>

Dies(how) ==
    /\ ~Dead /\ deaths < MaxDeaths /\ pc # "over"
    /\ how = "exited" => shell.status = "running" /\ ~shell.suspended
                         /\ shell.line.what \in {"command", "typed"}
    /\ shell' = [shell EXCEPT !.status = "dead"] /\ report' = how
    /\ deaths' = deaths + 1
    /\ unread' = (unread \/ pipe # <<>>)
    /\ UNCHANGED <<mc, channels, typed, mixed>>

-----------------------------------------------------------------------------
feed_subshell ==
    \/ Test \/ ReadPty \/ ReadPipe \/ Synchronized \/ Timeout
    \/ \E what \in {"text", "typed"} : Type(what) \/ SwitchKeyBehind(what)
    \/ SwitchKey

invoke_subshell == InitDone \/ ChdirDone \/ Go \/ RunDone

User == Execute \/ Toggle \/ Quit \/ \E d \in Dirs : DoCd(d)

Shell ==
    \/ Starts \/ TakesLine \/ Stops \/ Suspended
    \/ \E d \in Local : Tells(d)
    \/ \E how \in {"exited", "killed"} : Dies(how)

Next == feed_subshell \/ invoke_subshell \/ User \/ sigchld_handler \/ Shell

Spec == Init /\ [][Next]_vars

\* mc runs, signals arrive, and a shell obeys mc's own lines; what the user
\* runs, and the user himself, may take for ever.
FairSpec ==
    /\ Spec
    /\ WF_vars(Test) /\ WF_vars(ReadPty) /\ WF_vars(ReadPipe)
    /\ WF_vars(Synchronized) /\ WF_vars(invoke_subshell)
    /\ WF_vars(sigchld_handler)
    /\ WF_vars(Starts) /\ WF_vars(TakesLine) /\ WF_vars(Stops)
    /\ WF_vars(shell.line.what \in {"precmd", "cd"} /\ \E d \in Local : Tells(d))

-----------------------------------------------------------------------------
(* Properties.                                                              *)

AtPrompt == shell.status = "reading" /\ pty = <<>>

\* Whenever mc takes the shell for idle, and so sends it a command or a cd
\* without asking (main.c:783, subshell.c:754), the shell is at its prompt,
\* and nothing of a line has been typed.  (Not of a shell that the user has left
\* with C-o read together with other keys: "ls^O" leaves half a line there.)
InactiveMeansPrompt ==
    pc = "idle" /\ use_subshell /\ subshell_state = "INACTIVE" /\ ~mixed
        => AtPrompt \/ Dead

\* A command from mc's command line starts in the directory of the panel it
\* was given in, or a warning that the shell could not get there came first.
\* (Not after a directory has been left in the pipe by a dead shell, nor in a
\* shell left with "cd /x<Enter>^O" read at once.)
CommandsRunInPanelDir ==
    shell.status = "running" /\ shell.line.what = "command" /\ shell.line.sure
    /\ ~unread /\ ~mixed
    => shell.cwd = shell.line.dir

\* What mc believes of an idle shell's directory is true: it decides by it
\* whether a cd is needed.
CwdIsKnown ==
    /\ pc = "idle" /\ use_subshell /\ subshell_state = "INACTIVE" /\ AtPrompt
    /\ ~unread
    => subshell_cwd = shell.cwd

\* The types, and what mc believes of the directory.
Consistent == TypeOK /\ CwdIsKnown

\* mc, without the keyboard while it starts a shell or makes it change its
\* directory, gets the keyboard back, whatever the shell dies of.  (Not from a
\* shell that runs a command of the user's: "vi<Enter>^O" read at once.)
Quietly == pc \in {"test", "select", "sync"} /\ call \in {"init", "chdir"}
KeyboardComesBack == Quietly /\ ~mixed ~> ~Quietly

\* A shell that has stopped itself before its prompt while the user is in it
\* goes on, unless it dies: no SIGCHLD is missed and no SIGCONT too early.
PromptComes ==
    shell.status = "stopped" /\ pc \in {"test", "select", "sync"}
        ~> shell.status # "stopped" \/ pc \notin {"test", "select", "sync"}

=============================================================================
