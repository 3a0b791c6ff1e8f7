--------------------------- MODULE SubshellProofs ---------------------------
(***************************************************************************)
(* What mc believes of its shell is true, for any directories and any      *)
(* number of commands, keys, signals and deaths of the shell, if the user  *)
(* does not type while a command runs.  A shell that was left with C-o     *)
(* read together with other keys (mixed) is excepted from some of it.      *)
(***************************************************************************)
EXTENDS Subshell, SequenceTheorems, WellFoundedInduction, TLAPS

\* feed_subshell is at work.
Feeding == pc \in {"test", "select", "sync"}

\* What SIGCHLD has told and has still to tell is about this shell as it is.
Signals ==
    /\ ~subshell_alive \/ report \in {"exited", "killed"} => Dead
    /\ subshell_stopped => shell.status \in {"stopped", "dead"}
    /\ report = "stopped" => shell.status = "stopped" /\ ~subshell_stopped
    /\ report = "suspended" => /\ shell.suspended
                               /\ shell.status \in {"reading", "running"}

\* The line that sets the shell up comes first and alone, and init_subshell
\* waits for it.
Fresh ==
    ~Dead =>
        /\ shell.status = "starting" => pty = <<Precmd>>
        /\ \A i \in 1..Len(pty) : pty[i].what = "precmd" => pty = <<Precmd>>
        /\ pty = <<Precmd>> => /\ shell.status \in {"starting", "reading"}
                               /\ call = "init"
                               /\ subshell_state = "RUNNING_COMMAND"

\* Only the last line on its way to the shell is complete, and none is behind
\* the one that the shell executes.
OneLine ==
    ~Dead =>
        /\ \A i \in 1..Len(pty) : i < Len(pty) => pty[i].what = "text"
        /\ shell.status \in {"running", "told", "stopped"} => pty = <<>>

\* How far mc's calls have come.
Calls ==
    /\ waits_10s => call = "init" /\ subshell_state = "RUNNING_COMMAND"
    /\ pc = "sync" => ~waits_10s
    /\ pc = "timeout" => call = "init"
    /\ call = "init" /\ subshell_state = "RUNNING_COMMAND" =>
          \/ Feeding \/ pc = "timeout"
          \/ pc = "back" /\ ~subshell_alive
          \/ pc \in {"idle", "over"} /\ ~use_subshell
    /\ call = "chdir" => use_subshell
    /\ call = "chdir" /\ subshell_state = "RUNNING_COMMAND" =>
          Feeding \/ ~subshell_alive
    /\ call # "run" => subshell_state # "ACTIVE"
    /\ Feeding => \/ subshell_state = "RUNNING_COMMAND"
                  \/ call = "run" /\ subshell_state = "ACTIVE"
    /\ pc = "go" => use_subshell
    /\ goal = "command" /\ (pc = "go" \/ call = "chdir")
          => cwd \in Local \/ pc \in {"idle", "over"}
    /\ pc = "go" /\ goal = "command" =>
          subshell_state = "INACTIVE" \/ ~subshell_alive

\* subshell_state and subshell_ready say INACTIVE, or ready, of a prompt only.
Prompts ==
    /\ subshell_state = "INACTIVE" => AtPrompt \/ Dead
    /\ subshell_ready => \/ AtPrompt \/ Dead
                         \/ call # "run" /\ subshell_state = "RUNNING_COMMAND"

\* A command that mc is sure about is sent, taken and run in its directory.
InItsDir(l) == l.what = "command" /\ l.sure => shell.cwd = l.dir

\* One directory at most is on its way, the one that the shell is in.
Directories ==
    ~unread =>
        /\ Dead => pipe = <<>>
        /\ ~Dead /\ pipe # <<>> =>
              shell.status \in {"told", "stopped"} /\ pipe = <<shell.cwd>>
        /\ shell.status \in {"told", "stopped"} /\ pipe = <<>> => pc = "sync"
        /\ ~Dead /\ pc = "sync" =>
              /\ shell.status \in {"told", "stopped"} /\ pipe = <<>>
              /\ subshell_cwd = shell.cwd
        /\ shell.status = "reading" =>
              subshell_cwd = shell.cwd \/ pty = <<Precmd>>

\* The commands that mc sends, and has sent, are for the directory of the shell.
Commands ==
    ~unread =>
        /\ ~Dead /\ pc = "go" /\ goal = "command" /\ ~warned =>
              subshell_cwd = cwd
        /\ ~Dead => \A i \in 1..Len(pty) : InItsDir(pty[i])
        /\ shell.status = "running" => InItsDir(shell.line)

\* What mc knows of any shell, and of one that was not left with C-o behind
\* other keys.
Known ==
    /\ Signals /\ Calls /\ Fresh /\ Directories
    /\ mixed \/ (OneLine /\ Prompts /\ Commands)

USE HomeAssumption, BoundsAssumption
    DEF flags, run, panel, process, channels, bounds

-----------------------------------------------------------------------------
(* Lines on the terminal.                                                   *)

\* The least of a set of numbers is one of them.
LEMMA LeastElement ==
    ASSUME NEW S \in SUBSET Nat, S # {}
    PROVE  /\ Min(S) \in S
           /\ \A y \in S : Min(S) <= y
<1>1. PICK x \in S : \A y \in S : ~(<<y, x>> \in OpToRel(<, Nat))
  BY NatLessThanWellFounded, WFMin
<1>2. ASSUME NEW y \in S PROVE x <= y
  <2>1. ~(y < x)
    BY <1>1 DEF OpToRel
  <2>2. QED
    BY <2>1
<1>3. QED
  BY <1>2 DEF Min

\* TakesLine takes the first complete line, and what was typed before it.
LEMMA FirstLine ==
    ASSUME pty \in Seq(Line), TakesLine
    PROVE  \E n \in 1..Len(pty) :
              /\ pty[n].what # "text"
              /\ \A i \in 1..(n - 1) : pty[i].what = "text"
              /\ shell' = [shell EXCEPT !.status = "running",
                              !.line = IF n = 1 THEN pty[1]
                                                ELSE Typed("typed")]
              /\ pty' = SubSeq(pty, n + 1, Len(pty))
<1>. DEFINE I == {i \in 1..Len(pty) : pty[i].what # "text"}
            n == IF I # {} THEN Min(I) ELSE 0
<1>1. /\ n # 0
      /\ shell' = [shell EXCEPT !.status = "running",
                      !.line = IF n = 1 THEN pty[1] ELSE Typed("typed")]
      /\ pty' = SubSeq(pty, n + 1, Len(pty))
  BY DEF TakesLine, SelectInSeq
<1>2. I # {}
  BY <1>1
<1>3. I \in SUBSET Nat
  OBVIOUS
<1>4. Min(I) \in I /\ \A y \in I : Min(I) <= y
  BY <1>2, <1>3, LeastElement
<1>5. n \in I /\ \A y \in I : n <= y
  BY <1>2, <1>4
<1>6. n \in 1..Len(pty) /\ pty[n].what # "text"
  BY <1>5
<1>7. ASSUME NEW i \in 1..(n - 1) PROVE pty[i].what = "text"
  <2>1. n \in Nat /\ i \in 1..Len(pty) /\ ~(n <= i)
    BY <1>6
  <2>2. i \notin I
    BY <1>5, <2>1
  <2>3. QED
    BY <2>1, <2>2
<1>8. QED
  <2> HIDE DEF n
  <2>1. QED
    BY <1>1, <1>6, <1>7

\* When only the last line is complete, the terminal is empty after it.
LEMMA WholeLine ==
    ASSUME pty \in Seq(Line), OneLine, TakesLine
    PROVE  /\ pty' = <<>>
           /\ \/ shell' = [shell EXCEPT !.status = "running",
                              !.line = Typed("typed")]
              \/ /\ pty # <<>>
                 /\ shell' = [shell EXCEPT !.status = "running",
                                !.line = pty[1]]
<1>1. PICK n \in 1..Len(pty) :
        /\ pty[n].what # "text"
        /\ shell' = [shell EXCEPT !.status = "running",
                        !.line = IF n = 1 THEN pty[1] ELSE Typed("typed")]
        /\ pty' = SubSeq(pty, n + 1, Len(pty))
  BY FirstLine
<1>2. ~(n < Len(pty))
  BY <1>1 DEF OneLine, TakesLine, Dead
<1>3. pty' = <<>>
  BY <1>1, <1>2, SubSeqEmpty
<1>4. pty # <<>>
  BY <1>1
<1>5. QED
  BY <1>1, <1>3, <1>4

\* Appending leaves the lines before alone.
LEMMA Appended ==
    ASSUME NEW s \in Seq(Line), NEW l \in Line
    PROVE  /\ Len(Append(s, l)) = Len(s) + 1
           /\ Append(s, l)[Len(s) + 1] = l
           /\ \A i \in 1..Len(s) : Append(s, l)[i] = s[i]
  OBVIOUS

\* A line that is not a command is put behind the others.
LEMMA NoCommand ==
    ASSUME NEW s \in Seq(Line), NEW l \in Line, l.what # "command",
           NEW t, t = Append(s, l)
    PROVE  \A i \in 1..Len(t) : t[i].what = "command" =>
              i \in 1..Len(s) /\ t[i] = s[i]
<1>1. /\ Len(t) = Len(s) + 1 /\ t[Len(s) + 1] = l
      /\ \A i \in 1..Len(s) : t[i] = s[i]
  BY Appended
<1>2. Len(s) \in Nat
  OBVIOUS
<1>3. ASSUME NEW i \in 1..Len(t), t[i].what = "command"
      PROVE  i \in 1..Len(s) /\ t[i] = s[i]
  <2>1. i # Len(s) + 1
    BY <1>1, <1>3
  <2>2. i \in 1..Len(s)
    BY <1>1, <1>2, <2>1
  <2>3. QED
    BY <1>1, <2>2
<1>4. QED
  BY <1>3

\* What mc and the user send are lines.
LEMMA Lines ==
    /\ Precmd \in Line
    /\ \A d \in Local : Cd(d) \in Line
    /\ \A what \in {"text", "typed"} : Typed(what) \in Line
    /\ warned \in BOOLEAN => \A d \in Local : Command(d) \in Line
  BY DEF Line, Local, Precmd, Cd, Typed, Command

-----------------------------------------------------------------------------
(* The types, and how far the calls have come.                              *)

\* Every step keeps Calls.
LEMMA CallsStep ==
    ASSUME ModeOK, Calls, [Next]_vars
    PROVE  Calls'
<1> USE DEF ModeOK, Calls, Feeding, HasKeyboard
<1>1. CASE Test
  BY <1>1 DEF Test
<1>2. CASE ReadPty
  BY <1>2 DEF ReadPty
<1>3. CASE ReadPipe
  BY <1>3 DEF ReadPipe
<1>4. CASE Synchronized
  BY <1>4 DEF Synchronized, synchronize, Continued
<1>5. ASSUME NEW what \in {"text", "typed"},
             Type(what) \/ SwitchKeyBehind(what)
      PROVE  Calls'
  BY <1>5 DEF Type, SwitchKeyBehind
<1>6. CASE SwitchKey
  BY <1>6 DEF SwitchKey, HasKeyboard
<1>7. CASE Timeout
  BY <1>7 DEF Timeout
<1>8. CASE InitDone
  BY <1>8 DEF InitDone
<1>9. CASE ChdirDone
  BY <1>9 DEF ChdirDone
<1>10. CASE Go
  BY <1>10 DEF Go
<1>11. CASE RunDone
  BY <1>11 DEF RunDone, do_possible_cd, init_subshell
<1>12. CASE Execute
  BY <1>12 DEF Execute, do_subshell_chdir
<1>13. CASE Toggle
  BY <1>13 DEF Toggle, do_subshell_chdir
<1>14. ASSUME NEW d \in Dirs, DoCd(d)
       PROVE  Calls'
  BY <1>14 DEF DoCd, do_subshell_chdir
<1>15. CASE Quit
  BY <1>15 DEF Quit
<1>16. CASE sigchld_handler
  BY <1>16 DEF sigchld_handler, Continued
<1>17. CASE Starts
  BY <1>17 DEF Starts, mc
<1>18. CASE TakesLine
  BY <1>18 DEF TakesLine, mc
<1>19. CASE Stops
  BY <1>19 DEF Stops, mc
<1>20. CASE Suspended
  BY <1>20 DEF Suspended, mc
<1>21. ASSUME NEW d \in Local, Tells(d)
       PROVE  Calls'
  BY <1>21 DEF Tells, mc
<1>22. ASSUME NEW how \in {"exited", "killed"}, Dies(how)
       PROVE  Calls'
  BY <1>22 DEF Dies, mc
<1>23. CASE UNCHANGED vars
  BY <1>23 DEF vars
<1>24. QED
  BY <1>1, <1>2, <1>3, <1>4, <1>5, <1>6, <1>7, <1>8, <1>9, <1>10, <1>11,
     <1>12, <1>13, <1>14, <1>15, <1>16, <1>17, <1>18, <1>19, <1>20, <1>21,
     <1>22, <1>23
     DEF Next, feed_subshell, invoke_subshell, User, Shell

\* Every step keeps the types of mc's flags.
LEMMA ModeStep ==
    ASSUME ModeOK, Calls, [Next]_vars
    PROVE  ModeOK'
<1> USE DEF ModeOK, Calls, Feeding, HasKeyboard
<1>1. CASE Test
  BY <1>1 DEF Test
<1>2. CASE ReadPty
  BY <1>2 DEF ReadPty
<1>3. CASE ReadPipe
  BY <1>3 DEF ReadPipe
<1>4. CASE Synchronized
  BY <1>4 DEF Synchronized, synchronize, Continued
<1>5. ASSUME NEW what \in {"text", "typed"},
             Type(what) \/ SwitchKeyBehind(what)
      PROVE  ModeOK'
  BY <1>5 DEF Type, SwitchKeyBehind
<1>6. CASE SwitchKey
  BY <1>6 DEF SwitchKey, HasKeyboard
<1>7. CASE Timeout
  BY <1>7 DEF Timeout
<1>8. CASE InitDone
  BY <1>8 DEF InitDone
<1>9. CASE ChdirDone
  BY <1>9 DEF ChdirDone
<1>10. CASE Go
  BY <1>10 DEF Go
<1>11. CASE RunDone
  BY <1>11 DEF RunDone, do_possible_cd, init_subshell
<1>12. CASE Execute
  BY <1>12 DEF Execute, do_subshell_chdir
<1>13. CASE Toggle
  BY <1>13 DEF Toggle, do_subshell_chdir
<1>14. ASSUME NEW d \in Dirs, DoCd(d)
       PROVE  ModeOK'
  BY <1>14 DEF DoCd, do_subshell_chdir
<1>15. CASE Quit
  BY <1>15 DEF Quit
<1>16. CASE sigchld_handler
  BY <1>16 DEF sigchld_handler, Continued
<1>17. CASE Starts
  BY <1>17 DEF Starts, mc
<1>18. CASE TakesLine
  BY <1>18 DEF TakesLine, mc
<1>19. CASE Stops
  BY <1>19 DEF Stops, mc
<1>20. CASE Suspended
  BY <1>20 DEF Suspended, mc
<1>21. ASSUME NEW d \in Local, Tells(d)
       PROVE  ModeOK'
  BY <1>21 DEF Tells, mc
<1>22. ASSUME NEW how \in {"exited", "killed"}, Dies(how)
       PROVE  ModeOK'
  BY <1>22 DEF Dies, mc
<1>23. CASE UNCHANGED vars
  BY <1>23 DEF vars
<1>24. QED
  BY <1>1, <1>2, <1>3, <1>4, <1>5, <1>6, <1>7, <1>8, <1>9, <1>10, <1>11,
     <1>12, <1>13, <1>14, <1>15, <1>16, <1>17, <1>18, <1>19, <1>20, <1>21,
     <1>22, <1>23
     DEF Next, feed_subshell, invoke_subshell, User, Shell

\* Every step keeps the types of the directories.
LEMMA PlaceStep ==
    ASSUME TypeOK, [Next]_vars
    PROVE  PlaceOK'
<1> USE DEF TypeOK, PlaceOK, ChannelsOK
<1>1. CASE Test
  BY <1>1 DEF Test
<1>2. CASE ReadPty
  BY <1>2 DEF ReadPty
<1>3. CASE ReadPipe
  <2>1. Head(pipe) \in Local
    <3>1. pipe \in Seq(Local) /\ pipe # <<>>
      BY <1>3 DEF ReadPipe
    <3>2. QED
      BY <3>1, HeadTailProperties
  <2>2. QED
    BY <1>3, <2>1 DEF ReadPipe
<1>4. CASE Synchronized
  BY <1>4 DEF Synchronized, synchronize, Continued
<1>5. ASSUME NEW what \in {"text", "typed"},
             Type(what) \/ SwitchKeyBehind(what)
      PROVE  PlaceOK'
  BY <1>5 DEF Type, SwitchKeyBehind
<1>6. CASE SwitchKey
  BY <1>6 DEF SwitchKey, HasKeyboard
<1>7. CASE Timeout
  BY <1>7 DEF Timeout
<1>8. CASE InitDone
  BY <1>8 DEF InitDone
<1>9. CASE ChdirDone
  BY <1>9 DEF ChdirDone
<1>10. CASE Go
  BY <1>10 DEF Go
<1>11. CASE RunDone
  BY <1>11 DEF RunDone, do_possible_cd, init_subshell, Local
<1>12. CASE Execute
  BY <1>12 DEF Execute, do_subshell_chdir
<1>13. CASE Toggle
  BY <1>13 DEF Toggle, do_subshell_chdir
<1>14. ASSUME NEW d \in Dirs, DoCd(d)
       PROVE  PlaceOK'
  BY <1>14 DEF DoCd, do_subshell_chdir
<1>15. CASE Quit
  BY <1>15 DEF Quit
<1>16. CASE sigchld_handler
  BY <1>16 DEF sigchld_handler, Continued
<1>17. CASE Starts
  BY <1>17 DEF Starts, mc
<1>18. CASE TakesLine
  BY <1>18 DEF TakesLine, mc
<1>19. CASE Stops
  BY <1>19 DEF Stops, mc
<1>20. CASE Suspended
  BY <1>20 DEF Suspended, mc
<1>21. ASSUME NEW d \in Local, Tells(d)
       PROVE  PlaceOK'
  BY <1>21 DEF Tells, mc
<1>22. ASSUME NEW how \in {"exited", "killed"}, Dies(how)
       PROVE  PlaceOK'
  BY <1>22 DEF Dies, mc
<1>23. CASE UNCHANGED vars
  BY <1>23 DEF vars
<1>24. QED
  BY <1>1, <1>2, <1>3, <1>4, <1>5, <1>6, <1>7, <1>8, <1>9, <1>10, <1>11,
     <1>12, <1>13, <1>14, <1>15, <1>16, <1>17, <1>18, <1>19, <1>20, <1>21,
     <1>22, <1>23
     DEF Next, feed_subshell, invoke_subshell, User, Shell

\* Every step keeps the types of the shell.
LEMMA ShellStep ==
    ASSUME TypeOK, [Next]_vars
    PROVE  ShellOK'
<1> USE DEF TypeOK, ShellOK, Process, NewShell, Status
<1>1. CASE Test
  BY <1>1 DEF Test
<1>2. CASE ReadPty
  BY <1>2 DEF ReadPty
<1>3. CASE ReadPipe
  BY <1>3 DEF ReadPipe
<1>4. CASE Synchronized
  BY <1>4 DEF Synchronized, synchronize, Continued
<1>5. ASSUME NEW what \in {"text", "typed"},
             Type(what) \/ SwitchKeyBehind(what)
      PROVE  ShellOK'
  BY <1>5 DEF Type, SwitchKeyBehind
<1>6. CASE SwitchKey
  BY <1>6 DEF SwitchKey, HasKeyboard
<1>7. CASE Timeout
  BY <1>7 DEF Timeout
<1>8. CASE InitDone
  BY <1>8 DEF InitDone
<1>9. CASE ChdirDone
  BY <1>9 DEF ChdirDone
<1>10. CASE Go
  BY <1>10 DEF Go
<1>11. CASE RunDone
  <2>1. NewShell \in Process
    BY Lines DEF Local
  <2>2. CASE init_subshell
    BY <2>1, <2>2 DEF init_subshell
  <2>3. CASE UNCHANGED process
    BY <2>3
  <2>4. QED
    BY <1>11, <2>2, <2>3 DEF RunDone
<1>12. CASE Execute
  BY <1>12 DEF Execute, do_subshell_chdir
<1>13. CASE Toggle
  BY <1>13 DEF Toggle, do_subshell_chdir
<1>14. ASSUME NEW d \in Dirs, DoCd(d)
       PROVE  ShellOK'
  BY <1>14 DEF DoCd, do_subshell_chdir
<1>15. CASE Quit
  BY <1>15 DEF Quit
<1>16. CASE sigchld_handler
  BY <1>16 DEF sigchld_handler, Continued
<1>17. CASE Starts
  BY <1>17 DEF Starts, mc
<1>18. CASE TakesLine
  <2>1. PICK n \in 1..Len(pty) :
           shell' = [shell EXCEPT !.status = "running",
                       !.line = IF n = 1 THEN pty[1] ELSE Typed("typed")]
    BY <1>18, FirstLine DEF ChannelsOK
  <2>2. pty[1] \in Line /\ Typed("typed") \in Line
    BY <2>1, Lines DEF ChannelsOK
  <2>3. QED
    BY <1>18, <2>1, <2>2 DEF TakesLine, mc
<1>19. CASE Stops
  BY <1>19 DEF Stops, mc
<1>20. CASE Suspended
  BY <1>20 DEF Suspended, mc
<1>21. ASSUME NEW d \in Local, Tells(d)
       PROVE  ShellOK'
  BY <1>21 DEF Tells, mc
<1>22. ASSUME NEW how \in {"exited", "killed"}, Dies(how)
       PROVE  ShellOK'
  BY <1>22 DEF Dies, mc
<1>23. CASE UNCHANGED vars
  BY <1>23 DEF vars
<1>24. QED
  BY <1>1, <1>2, <1>3, <1>4, <1>5, <1>6, <1>7, <1>8, <1>9, <1>10, <1>11,
     <1>12, <1>13, <1>14, <1>15, <1>16, <1>17, <1>18, <1>19, <1>20, <1>21,
     <1>22, <1>23
     DEF Next, feed_subshell, invoke_subshell, User, Shell

\* Every step keeps the types of the channels and counters.
LEMMA ChannelsStep ==
    ASSUME TypeOK, Calls, [Next]_vars
    PROVE  ChannelsOK'
<1> USE DEF TypeOK, Calls, ChannelsOK
<1>1. CASE Test
  BY <1>1 DEF Test
<1>2. CASE ReadPty
  BY <1>2 DEF ReadPty
<1>3. CASE ReadPipe
  BY <1>3 DEF ReadPipe
<1>4. CASE Synchronized
  BY <1>4 DEF Synchronized, synchronize, Continued
<1>5. ASSUME NEW what \in {"text", "typed"},
             Type(what) \/ SwitchKeyBehind(what)
      PROVE  ChannelsOK'
  <2>1. /\ pty' = Append(pty, Typed(what)) /\ Typed(what) \in Line
        /\ typed < MaxTyped /\ typed' = typed + 1
        /\ UNCHANGED <<pipe, deaths, unread>> /\ mixed' \in BOOLEAN
    BY <1>5, Lines DEF Type, SwitchKeyBehind, ModeOK
  <2>2. QED
    BY <2>1
<1>6. CASE SwitchKey
  BY <1>6 DEF SwitchKey, HasKeyboard
<1>7. CASE Timeout
  BY <1>7 DEF Timeout
<1>8. CASE InitDone
  BY <1>8 DEF InitDone
<1>9. CASE ChdirDone
  BY <1>9 DEF ChdirDone
<1>10. CASE Go
  BY <1>10, Lines DEF Go, ModeOK
<1>11. CASE RunDone
  <2>1. <<Precmd>> \in Seq(Line)
    BY Lines
  <2>2. QED
    BY <1>11, <2>1 DEF RunDone, init_subshell
<1>12. CASE Execute
  <2>1. CASE pty' = Append(pty, Cd(cwd))
    BY <1>12, <2>1, Lines DEF Execute, do_subshell_chdir
  <2>2. CASE pty' = pty
    BY <1>12, <2>2 DEF Execute, do_subshell_chdir
  <2>3. QED
    BY <1>12, <2>1, <2>2 DEF Execute, do_subshell_chdir
<1>13. CASE Toggle
  <2>1. CASE pty' = Append(pty, Cd(cwd))
    BY <1>13, <2>1, Lines DEF Toggle, do_subshell_chdir
  <2>2. CASE pty' = pty
    BY <1>13, <2>2 DEF Toggle, do_subshell_chdir
  <2>3. QED
    BY <1>13, <2>1, <2>2 DEF Toggle, do_subshell_chdir
<1>14. ASSUME NEW d \in Dirs, DoCd(d)
       PROVE  ChannelsOK'
  <2>1. CASE pty' = Append(pty, Cd(d))
    BY <1>14, <2>1, Lines DEF DoCd, do_subshell_chdir
  <2>2. CASE pty' = pty
    BY <1>14, <2>2 DEF DoCd, do_subshell_chdir
  <2>3. QED
    BY <1>14, <2>1, <2>2 DEF DoCd, do_subshell_chdir
<1>15. CASE Quit
  BY <1>15 DEF Quit
<1>16. CASE sigchld_handler
  BY <1>16 DEF sigchld_handler, Continued
<1>17. CASE Starts
  BY <1>17 DEF Starts, mc
<1>18. CASE TakesLine
  <2>1. PICK n \in 1..Len(pty) : pty' = SubSeq(pty, n + 1, Len(pty))
    BY <1>18, FirstLine
  <2>2. pty' \in Seq(Line)
    BY <2>1, SubSeqProperties
  <2>3. QED
    BY <1>18, <2>2 DEF TakesLine, mc
<1>19. CASE Stops
  BY <1>19 DEF Stops, mc
<1>20. CASE Suspended
  BY <1>20 DEF Suspended, mc
<1>21. ASSUME NEW d \in Local, Tells(d)
       PROVE  ChannelsOK'
  BY <1>21 DEF Tells, mc
<1>22. ASSUME NEW how \in {"exited", "killed"}, Dies(how)
       PROVE  ChannelsOK'
  BY <1>22 DEF Dies, mc
<1>23. CASE UNCHANGED vars
  BY <1>23 DEF vars
<1>24. QED
  BY <1>1, <1>2, <1>3, <1>4, <1>5, <1>6, <1>7, <1>8, <1>9, <1>10, <1>11,
     <1>12, <1>13, <1>14, <1>15, <1>16, <1>17, <1>18, <1>19, <1>20, <1>21,
     <1>22, <1>23
     DEF Next, feed_subshell, invoke_subshell, User, Shell

\* Every step keeps Signals.
LEMMA SignalsStep ==
    ASSUME TypeOK, Signals, [Next]_vars
    PROVE  Signals'
<1> USE DEF TypeOK, Signals, ShellOK, Process, Dead, Reads
<1>1. CASE Test
  BY <1>1 DEF Test, NewShell
<1>2. CASE ReadPty
  BY <1>2 DEF ReadPty, NewShell
<1>3. CASE ReadPipe
  BY <1>3 DEF ReadPipe, NewShell
<1>4. CASE Synchronized
  BY <1>4 DEF Synchronized, synchronize, Continued, NewShell
<1>5. ASSUME NEW what \in {"text", "typed"},
             Type(what) \/ SwitchKeyBehind(what)
      PROVE  Signals'
  BY <1>5 DEF Type, SwitchKeyBehind, NewShell
<1>6. CASE SwitchKey
  BY <1>6 DEF SwitchKey, HasKeyboard, NewShell
<1>7. CASE Timeout
  BY <1>7 DEF Timeout, NewShell
<1>8. CASE InitDone
  BY <1>8 DEF InitDone, NewShell
<1>9. CASE ChdirDone
  BY <1>9 DEF ChdirDone, NewShell
<1>10. CASE Go
  BY <1>10 DEF Go, NewShell
<1>11. CASE RunDone
  BY <1>11 DEF RunDone, do_possible_cd, init_subshell, NewShell
<1>12. CASE Execute
  BY <1>12 DEF Execute, do_subshell_chdir, NewShell
<1>13. CASE Toggle
  BY <1>13 DEF Toggle, do_subshell_chdir, NewShell
<1>14. ASSUME NEW d \in Dirs, DoCd(d)
       PROVE  Signals'
  BY <1>14 DEF DoCd, do_subshell_chdir, NewShell
<1>15. CASE Quit
  BY <1>15 DEF Quit, NewShell
<1>16. CASE sigchld_handler
  BY <1>16 DEF sigchld_handler, Continued, NewShell
<1>17. CASE Starts
  BY <1>17 DEF Starts, mc, NewShell
<1>18. CASE TakesLine
  BY <1>18 DEF TakesLine, mc, NewShell
<1>19. CASE Stops
  BY <1>19 DEF Stops, mc, NewShell
<1>20. CASE Suspended
  BY <1>20 DEF Suspended, mc, NewShell
<1>21. ASSUME NEW d \in Local, Tells(d)
       PROVE  Signals'
  BY <1>21 DEF Tells, mc, NewShell
<1>22. ASSUME NEW how \in {"exited", "killed"}, Dies(how)
       PROVE  Signals'
  BY <1>22 DEF Dies, mc, NewShell
<1>23. CASE UNCHANGED vars
  BY <1>23 DEF vars
<1>24. QED
  BY <1>1, <1>2, <1>3, <1>4, <1>5, <1>6, <1>7, <1>8, <1>9, <1>10, <1>11,
     <1>12, <1>13, <1>14, <1>15, <1>16, <1>17, <1>18, <1>19, <1>20, <1>21,
     <1>22, <1>23
     DEF Next, feed_subshell, invoke_subshell, User, Shell

\* Of a new shell mc knows all.
LEMMA Renewed ==
    ASSUME init_subshell
    PROVE  OneLine' /\ Prompts' /\ Commands'
<1>1. /\ pty' = <<Precmd>> /\ shell' = NewShell /\ pc' = "test"
      /\ call' = "init" /\ subshell_state' = "RUNNING_COMMAND"
  BY DEF init_subshell
<1>2. Len(<<Precmd>>) = 1 /\ <<Precmd>>[1] = Precmd
  BY Lines
<1>3. \A i \in 1..Len(pty') : ~(i < Len(pty')) /\ pty'[i].what # "command"
  BY <1>1, <1>2 DEF Precmd
<1>4. shell'.status = "starting"
  BY <1>1 DEF NewShell
<1>5. OneLine'
  BY <1>3, <1>4 DEF OneLine
<1>6. Prompts'
  BY <1>1 DEF Prompts
<1>7. Commands'
  BY <1>1, <1>3, <1>4 DEF Commands, InItsDir
<1>8. QED
  BY <1>5, <1>6, <1>7

\* Every step keeps OneLine: the user types at a prompt only.
LEMMA OneLineStep ==
    ASSUME ~TypesAhead, TypeOK, Signals, OneLine, Calls, Prompts,
           ~mixed', [Next]_vars
    PROVE  OneLine'
<1> USE DEF TypeOK, Signals, OneLine, Calls, Prompts, AtPrompt, ShellOK,
            ChannelsOK, Process, Dead, Reads
<1>1. CASE Test
  BY <1>1 DEF Test, NewShell
<1>2. CASE ReadPty
  BY <1>2 DEF ReadPty, NewShell
<1>3. CASE ReadPipe
  BY <1>3 DEF ReadPipe, NewShell
<1>4. CASE Synchronized
  BY <1>4 DEF Synchronized, synchronize, Continued, NewShell
<1>5. ASSUME NEW what \in {"text", "typed"},
             Type(what) \/ SwitchKeyBehind(what)
      PROVE  OneLine'
  <2>1. /\ pty' = Append(pty, Typed(what)) /\ Typed(what) \in Line
        /\ UNCHANGED shell /\ shell.status = "reading"
        /\ \A i \in 1..Len(pty) : pty[i].what = "text"
    BY <1>5, Lines DEF Type, SwitchKeyBehind, HasKeyboard, MayType
  <2>2. QED
    BY <2>1, Appended
<1>6. CASE SwitchKey
  BY <1>6 DEF SwitchKey, HasKeyboard, NewShell
<1>7. CASE Timeout
  BY <1>7 DEF Timeout, NewShell
<1>8. CASE InitDone
  BY <1>8 DEF InitDone, NewShell
<1>9. CASE ChdirDone
  BY <1>9 DEF ChdirDone, NewShell
<1>10. CASE Go
  BY <1>10 DEF Go, NewShell
<1>11. CASE RunDone
  <2>1. CASE init_subshell
    BY <2>1, Renewed
  <2>2. CASE /\ UNCHANGED <<shell, pty, subshell_state, subshell_ready>>
             /\ UNCHANGED call
    BY <2>2
  <2>3. QED
    BY <1>11, <2>1, <2>2 DEF RunDone
<1>12. CASE Execute
  BY <1>12 DEF Execute, do_subshell_chdir, NewShell
<1>13. CASE Toggle
  BY <1>13 DEF Toggle, do_subshell_chdir, NewShell
<1>14. ASSUME NEW d \in Dirs, DoCd(d)
       PROVE  OneLine'
  BY <1>14 DEF DoCd, do_subshell_chdir, NewShell
<1>15. CASE Quit
  BY <1>15 DEF Quit, NewShell
<1>16. CASE sigchld_handler
  BY <1>16 DEF sigchld_handler, Continued, NewShell
<1>17. CASE Starts
  BY <1>17 DEF Starts, mc, NewShell
<1>18. CASE TakesLine
  <2>1. /\ pty' = <<>>
        /\ \/ shell' = [shell EXCEPT !.status = "running",
                           !.line = Typed("typed")]
           \/ /\ pty # <<>>
              /\ shell' = [shell EXCEPT !.status = "running",
                             !.line = pty[1]]
    BY <1>18, WholeLine DEF ChannelsOK
  <2>2. Len(pty') = 0 /\ shell'.status = "running"
    BY <2>1
  <2>3. QED
    BY <2>1, <2>2
<1>19. CASE Stops
  BY <1>19 DEF Stops, mc, NewShell
<1>20. CASE Suspended
  BY <1>20 DEF Suspended, mc, NewShell
<1>21. ASSUME NEW d \in Local, Tells(d)
       PROVE  OneLine'
  BY <1>21 DEF Tells, mc, NewShell
<1>22. ASSUME NEW how \in {"exited", "killed"}, Dies(how)
       PROVE  OneLine'
  BY <1>22 DEF Dies, mc, NewShell
<1>23. CASE UNCHANGED vars
  BY <1>23 DEF vars
<1>24. QED
  BY <1>1, <1>2, <1>3, <1>4, <1>5, <1>6, <1>7, <1>8, <1>9, <1>10, <1>11,
     <1>12, <1>13, <1>14, <1>15, <1>16, <1>17, <1>18, <1>19, <1>20, <1>21,
     <1>22, <1>23
     DEF Next, feed_subshell, invoke_subshell, User, Shell

\* Every step keeps Prompts.
LEMMA PromptsStep ==
    ASSUME TypeOK, Signals, OneLine, Calls, Prompts,
           ~mixed', [Next]_vars
    PROVE  Prompts'
<1> USE DEF TypeOK, Signals, OneLine, Calls, Prompts, AtPrompt, ShellOK,
            Process, Dead, Reads, Feeding
<1>1. CASE Test
  BY <1>1 DEF Test, NewShell
<1>2. CASE ReadPty
  BY <1>2 DEF ReadPty, NewShell
<1>3. CASE ReadPipe
  BY <1>3 DEF ReadPipe, NewShell
<1>4. CASE Synchronized
  BY <1>4 DEF Synchronized, synchronize, Continued, NewShell
<1>5. ASSUME NEW what \in {"text", "typed"},
             Type(what) \/ SwitchKeyBehind(what)
      PROVE  Prompts'
  <2>1. /\ subshell_state # "INACTIVE"
        /\ ~subshell_ready' /\ UNCHANGED subshell_state
    <3>1. CASE Type(what)
      BY <3>1 DEF Type, HasKeyboard
    <3>2. CASE SwitchKeyBehind(what)
      BY <3>2 DEF SwitchKeyBehind, HasKeyboard, ModeOK, ChannelsOK
    <3>3. QED
      BY <1>5, <3>1, <3>2
  <2>2. QED
    BY <2>1
<1>6. CASE SwitchKey
  BY <1>6 DEF SwitchKey, HasKeyboard, NewShell
<1>7. CASE Timeout
  BY <1>7 DEF Timeout, NewShell
<1>8. CASE InitDone
  BY <1>8 DEF InitDone, NewShell
<1>9. CASE ChdirDone
  BY <1>9 DEF ChdirDone, NewShell
<1>10. CASE Go
  BY <1>10 DEF Go, ModeOK
<1>11. CASE RunDone
  <2>1. CASE init_subshell
    BY <2>1, Renewed
  <2>2. CASE /\ UNCHANGED <<shell, pty, subshell_state, subshell_ready>>
             /\ UNCHANGED call
    BY <2>2
  <2>3. QED
    BY <1>11, <2>1, <2>2 DEF RunDone
<1>12. CASE Execute
  BY <1>12 DEF Execute, do_subshell_chdir, NewShell
<1>13. CASE Toggle
  BY <1>13 DEF Toggle, do_subshell_chdir, NewShell
<1>14. ASSUME NEW d \in Dirs, DoCd(d)
       PROVE  Prompts'
  BY <1>14 DEF DoCd, do_subshell_chdir, NewShell
<1>15. CASE Quit
  BY <1>15 DEF Quit, NewShell
<1>16. CASE sigchld_handler
  BY <1>16 DEF sigchld_handler, Continued, NewShell
<1>17. CASE Starts
  BY <1>17 DEF Starts, mc, NewShell
<1>18. CASE TakesLine
  <2>1. /\ pty' = <<>>
        /\ \/ shell' = [shell EXCEPT !.status = "running",
                           !.line = Typed("typed")]
           \/ /\ pty # <<>>
              /\ shell' = [shell EXCEPT !.status = "running",
                             !.line = pty[1]]
    BY <1>18, WholeLine DEF ChannelsOK
  <2>2. pty # <<>> /\ shell.status = "reading"
    BY <1>18 DEF TakesLine, SelectInSeq
  <2>3. QED
    BY <1>18, <2>1, <2>2 DEF TakesLine, mc
<1>19. CASE Stops
  BY <1>19 DEF Stops, mc, NewShell
<1>20. CASE Suspended
  BY <1>20 DEF Suspended, mc, NewShell
<1>21. ASSUME NEW d \in Local, Tells(d)
       PROVE  Prompts'
  BY <1>21 DEF Tells, mc, NewShell
<1>22. ASSUME NEW how \in {"exited", "killed"}, Dies(how)
       PROVE  Prompts'
  BY <1>22 DEF Dies, mc, NewShell
<1>23. CASE UNCHANGED vars
  BY <1>23 DEF vars
<1>24. QED
  BY <1>1, <1>2, <1>3, <1>4, <1>5, <1>6, <1>7, <1>8, <1>9, <1>10, <1>11,
     <1>12, <1>13, <1>14, <1>15, <1>16, <1>17, <1>18, <1>19, <1>20, <1>21,
     <1>22, <1>23
     DEF Next, feed_subshell, invoke_subshell, User, Shell

\* A line put behind the others is not the first.
LEMMA Behind ==
    ASSUME pty \in Seq(Line), Fresh, UNCHANGED shell,
           ~Dead => pty # <<Precmd>>,
           NEW l \in Line, l.what # "precmd", pty' = Append(pty, l)
    PROVE  Fresh'
<1> SUFFICES ASSUME ~Dead PROVE Fresh'
  BY DEF Fresh, Dead
<1>1. /\ Len(pty') = Len(pty) + 1 /\ pty'[Len(pty) + 1] = l
      /\ \A i \in 1..Len(pty) : pty'[i] = pty[i]
  BY Appended
<1>2. \A i \in 1..Len(pty') : i \in 1..Len(pty) \/ i = Len(pty) + 1
  BY <1>1
<1>3. \A i \in 1..Len(pty') : pty'[i].what # "precmd"
  BY <1>1, <1>2 DEF Fresh
<1>4. pty' # <<Precmd>>
  <2>1. Len(<<Precmd>>) = 1 /\ <<Precmd>>[1].what = "precmd"
    BY DEF Precmd
  <2>2. 1 \in 1..Len(<<Precmd>>)
    BY <2>1
  <2>3. QED
    BY <1>3, <2>1, <2>2
<1>5. shell.status # "starting"
  BY DEF Fresh
<1>6. QED
  BY <1>3, <1>4, <1>5 DEF Fresh, Dead

\* Every step keeps Fresh.
LEMMA FreshStep ==
    ASSUME TypeOK, Signals, Calls, Fresh, [Next]_vars
    PROVE  Fresh'
<1> USE DEF TypeOK, Signals, Calls, Fresh, ShellOK, ChannelsOK, Process, Dead,
            Reads, Feeding
<1>1. CASE Test
  BY <1>1 DEF Test, NewShell
<1>2. CASE ReadPty
  BY <1>2 DEF ReadPty, NewShell
<1>3. CASE ReadPipe
  BY <1>3 DEF ReadPipe, NewShell
<1>4. CASE Synchronized
  BY <1>4 DEF Synchronized, synchronize, Continued, NewShell
<1>5. ASSUME NEW what \in {"text", "typed"},
             Type(what) \/ SwitchKeyBehind(what)
      PROVE  Fresh'
  <2>1. /\ UNCHANGED shell /\ pty \in Seq(Line)
        /\ pty' = Append(pty, Typed(what))
    BY <1>5 DEF Type, SwitchKeyBehind
  <2>2. Typed(what) \in Line /\ Typed(what).what # "precmd"
    BY Lines DEF Typed
  <2>3. ~Dead => pty # <<Precmd>>
    BY <1>5 DEF Type, SwitchKeyBehind, HasKeyboard
  <2>4. QED
    BY <2>1, <2>2, <2>3, Behind
<1>6. CASE SwitchKey
  BY <1>6 DEF SwitchKey, HasKeyboard, NewShell
<1>7. CASE Timeout
  BY <1>7 DEF Timeout, NewShell
<1>8. CASE InitDone
  BY <1>8 DEF InitDone, NewShell
<1>9. CASE ChdirDone
  BY <1>9 DEF ChdirDone, NewShell
<1>10. CASE Go
  <2>1. /\ UNCHANGED shell /\ pty \in Seq(Line)
        /\ ~Dead => pty # <<Precmd>>
    BY <1>10 DEF Go, ModeOK
  <2>2. CASE pty' = pty
    BY <1>10, <2>1, <2>2 DEF Go, ModeOK
  <2>3. CASE pty' = Append(pty, Command(cwd)) /\ Command(cwd) \in Line
    <3>1. Command(cwd).what # "precmd"
      BY DEF Command
    <3>2. QED
      BY <2>1, <2>3, <3>1, Behind
  <2>4. QED
    BY <1>10, <2>2, <2>3, Lines DEF Go, ModeOK
<1>11. CASE RunDone
  <2>1. CASE init_subshell
    <3>1. /\ pty' = <<Precmd>> /\ shell' = NewShell /\ call' = "init"
          /\ subshell_state' = "RUNNING_COMMAND"
      BY <2>1 DEF init_subshell
    <3>2. QED
      BY <3>1 DEF NewShell
  <2>2. CASE UNCHANGED <<shell, pty, subshell_state, call>>
    BY <2>2
  <2>3. QED
    BY <1>11, <2>1, <2>2 DEF RunDone
<1>12. CASE Execute
  <2>1. /\ UNCHANGED shell /\ pty \in Seq(Line)
        /\ ~Dead => pty # <<Precmd>>
    BY <1>12 DEF Execute, do_subshell_chdir
  <2>2. CASE pty' = pty
    BY <1>12, <2>1, <2>2 DEF Execute, do_subshell_chdir
  <2>3. CASE pty' = Append(pty, Cd(cwd)) /\ Cd(cwd) \in Line
    <3>1. Cd(cwd).what # "precmd"
      BY DEF Cd
    <3>2. QED
      BY <2>1, <2>3, <3>1, Behind
  <2>4. QED
    BY <1>12, <2>2, <2>3, Lines DEF Execute, do_subshell_chdir
<1>13. CASE Toggle
  <2>1. /\ UNCHANGED shell /\ pty \in Seq(Line)
        /\ ~Dead => pty # <<Precmd>>
    BY <1>13 DEF Toggle, do_subshell_chdir
  <2>2. CASE pty' = pty
    BY <1>13, <2>1, <2>2 DEF Toggle, do_subshell_chdir
  <2>3. CASE pty' = Append(pty, Cd(cwd)) /\ Cd(cwd) \in Line
    <3>1. Cd(cwd).what # "precmd"
      BY DEF Cd
    <3>2. QED
      BY <2>1, <2>3, <3>1, Behind
  <2>4. QED
    BY <1>13, <2>2, <2>3, Lines DEF Toggle, do_subshell_chdir
<1>14. ASSUME NEW d \in Dirs, DoCd(d)
       PROVE  Fresh'
  <2>1. UNCHANGED shell /\ pty \in Seq(Line)
    BY <1>14 DEF DoCd
  <2>2. CASE use_subshell /\ d \in Local
    <3>1. ~Dead => pty # <<Precmd>>
      BY <1>14, <2>2 DEF DoCd
    <3>2. CASE pty' = pty
      BY <2>1, <3>1, <3>2
    <3>3. CASE pty' = Append(pty, Cd(d))
      <4>1. Cd(d) \in Line /\ Cd(d).what # "precmd"
        BY <2>2, Lines DEF Cd
      <4>2. QED
        BY <2>1, <3>1, <3>3, <4>1, Behind
    <3>4. QED
      BY <1>14, <2>2, <3>2, <3>3 DEF DoCd, do_subshell_chdir
  <2>3. CASE ~(use_subshell /\ d \in Local)
    BY <1>14, <2>1, <2>3 DEF DoCd
  <2>4. QED
    BY <2>2, <2>3
<1>15. CASE Quit
  BY <1>15 DEF Quit, NewShell
<1>16. CASE sigchld_handler
  BY <1>16 DEF sigchld_handler, Continued, NewShell
<1>17. CASE Starts
  BY <1>17 DEF Starts, mc, NewShell
<1>18. CASE TakesLine
  <2>1. PICK n \in 1..Len(pty) :
          /\ shell' = [shell EXCEPT !.status = "running",
                          !.line = IF n = 1 THEN pty[1] ELSE Typed("typed")]
          /\ pty' = SubSeq(pty, n + 1, Len(pty))
    BY <1>18, FirstLine
  <2>2. pty \in Seq(Line) /\ ~Dead /\ n \in Nat /\ Len(pty) \in Nat
    BY <1>18, LenProperties DEF TakesLine
  <2>3. /\ Len(pty') = Len(pty) - n
        /\ \A i \in 1..Len(pty') : pty'[i] = pty[n + i]
                                  /\ n + i \in 1..Len(pty)
    <3>1. \A i \in (n + 1)..Len(pty) : pty[i] \in Line
      BY <2>2, ElementOfSeq
    <3>2. /\ Len(pty') = IF n + 1 <= Len(pty)
                         THEN Len(pty) - (n + 1) + 1 ELSE 0
          /\ \A i \in 1..(Len(pty) - (n + 1) + 1) :
                pty'[i] = pty[(n + 1) + i - 1]
      BY <2>1, <2>2, <3>1, SubSeqProperties
    <3>3. Len(pty') = Len(pty) - n
      BY <2>2, <3>2
    <3>4. ASSUME NEW i \in 1..Len(pty')
          PROVE  pty'[i] = pty[n + i] /\ n + i \in 1..Len(pty)
      <4>1. i \in 1..(Len(pty) - (n + 1) + 1) /\ (n + 1) + i - 1 = n + i
        BY <2>2, <3>3
      <4>2. QED
        BY <2>2, <3>2, <3>3, <4>1
    <3>5. QED
      BY <3>3, <3>4
  <2>4. Len(<<Precmd>>) = 1 /\ Precmd.what = "precmd" /\ <<Precmd>>[1] = Precmd
    BY Lines DEF Precmd
  <2>5. \A i \in 1..Len(pty') : pty'[i].what # "precmd"
    BY <2>1, <2>2, <2>3, <2>4
  <2>6. pty' # <<Precmd>>
    BY <2>4, <2>5
  <2>7. shell'.status = "running"
    BY <1>18 DEF TakesLine
  <2>8. QED
    BY <2>5, <2>6, <2>7
<1>19. CASE Stops
  BY <1>19 DEF Stops, mc, NewShell
<1>20. CASE Suspended
  BY <1>20 DEF Suspended, mc, NewShell
<1>21. ASSUME NEW d \in Local, Tells(d)
       PROVE  Fresh'
  BY <1>21 DEF Tells, mc, NewShell
<1>22. ASSUME NEW how \in {"exited", "killed"}, Dies(how)
       PROVE  Fresh'
  BY <1>22 DEF Dies, mc, NewShell
<1>23. CASE UNCHANGED vars
  BY <1>23 DEF vars
<1>24. QED
  BY <1>1, <1>2, <1>3, <1>4, <1>5, <1>6, <1>7, <1>8, <1>9, <1>10, <1>11,
     <1>12, <1>13, <1>14, <1>15, <1>16, <1>17, <1>18, <1>19, <1>20, <1>21,
     <1>22, <1>23
     DEF Next, feed_subshell, invoke_subshell, User, Shell

\* Every step keeps Directories.
LEMMA DirectoriesStep ==
    ASSUME TypeOK, Signals, Calls, Fresh, Directories, [Next]_vars
    PROVE  Directories'
<1> USE DEF TypeOK, Signals, Calls, Fresh, Directories, ShellOK, Process, Dead,
            Reads, Feeding
<1>1. CASE Test
  BY <1>1 DEF Test, NewShell
<1>2. CASE ReadPty
  BY <1>2 DEF ReadPty, NewShell
<1>3. CASE ReadPipe
  BY <1>3 DEF ReadPipe, NewShell
<1>4. CASE Synchronized
  BY <1>4 DEF Synchronized, synchronize, Continued, NewShell
<1>5. ASSUME NEW what \in {"text", "typed"},
             Type(what) \/ SwitchKeyBehind(what)
      PROVE  Directories'
  <2>1. pty # <<Precmd>>
    BY <1>5 DEF Type, SwitchKeyBehind, HasKeyboard
  <2>2. QED
    BY <1>5, <2>1 DEF Type, SwitchKeyBehind, HasKeyboard
<1>6. CASE SwitchKey
  BY <1>6 DEF SwitchKey, HasKeyboard, NewShell
<1>7. CASE Timeout
  BY <1>7 DEF Timeout, NewShell
<1>8. CASE InitDone
  BY <1>8 DEF InitDone, NewShell
<1>9. CASE ChdirDone
  BY <1>9 DEF ChdirDone, NewShell
<1>10. CASE Go
  BY <1>10 DEF Go, NewShell
<1>11. CASE RunDone
  BY <1>11 DEF RunDone, do_possible_cd, init_subshell, NewShell
<1>12. CASE Execute
  BY <1>12 DEF Execute, do_subshell_chdir, NewShell
<1>13. CASE Toggle
  BY <1>13 DEF Toggle, do_subshell_chdir, NewShell
<1>14. ASSUME NEW d \in Dirs, DoCd(d)
       PROVE  Directories'
  BY <1>14 DEF DoCd, do_subshell_chdir, NewShell
<1>15. CASE Quit
  BY <1>15 DEF Quit, NewShell
<1>16. CASE sigchld_handler
  BY <1>16 DEF sigchld_handler, Continued, NewShell
<1>17. CASE Starts
  BY <1>17 DEF Starts, mc, NewShell
<1>18. CASE TakesLine
  BY <1>18 DEF TakesLine, mc, NewShell
<1>19. CASE Stops
  BY <1>19 DEF Stops, mc, NewShell
<1>20. CASE Suspended
  BY <1>20 DEF Suspended, mc, NewShell
<1>21. ASSUME NEW d \in Local, Tells(d)
       PROVE  Directories'
  <2>1. /\ shell'.status = "told" /\ shell'.cwd = d
        /\ pipe' = Append(pipe, d) /\ shell.status = "running"
    BY <1>21 DEF Tells
  <2>2. ~unread => pipe' = <<d>>
    <3>1. ~unread => pipe = <<>>
      BY <2>1
    <3>2. Append(<<>>, d) = <<d>>
      OBVIOUS
    <3>3. QED
      BY <2>1, <3>1, <3>2
  <2>3. QED
    BY <1>21, <2>1, <2>2 DEF Tells, mc
<1>22. ASSUME NEW how \in {"exited", "killed"}, Dies(how)
       PROVE  Directories'
  BY <1>22 DEF Dies, mc, NewShell
<1>23. CASE UNCHANGED vars
  BY <1>23 DEF vars
<1>24. QED
  BY <1>1, <1>2, <1>3, <1>4, <1>5, <1>6, <1>7, <1>8, <1>9, <1>10, <1>11,
     <1>12, <1>13, <1>14, <1>15, <1>16, <1>17, <1>18, <1>19, <1>20, <1>21,
     <1>22, <1>23
     DEF Next, feed_subshell, invoke_subshell, User, Shell

\* Every step keeps Commands.
LEMMA CommandsStep ==
    ASSUME TypeOK, Signals, OneLine, Calls, Prompts, Directories, Commands,
           ~mixed', [Next]_vars
    PROVE  Commands'
<1> USE DEF TypeOK, Signals, OneLine, Calls, Prompts, Directories, Commands,
            InItsDir,
            AtPrompt, ShellOK, Process, Dead, Reads
<1>1. CASE Test
  BY <1>1 DEF Test, NewShell
<1>2. CASE ReadPty
  BY <1>2 DEF ReadPty, NewShell
<1>3. CASE ReadPipe
  BY <1>3 DEF ReadPipe, NewShell
<1>4. CASE Synchronized
  BY <1>4 DEF Synchronized, synchronize, Continued, NewShell
<1>5. ASSUME NEW what \in {"text", "typed"},
             Type(what) \/ SwitchKeyBehind(what)
      PROVE  Commands'
  <2>1. /\ Typed(what) \in Line /\ Typed(what).what # "command"
        /\ pty \in Seq(Line) /\ pty' = Append(pty, Typed(what))
    BY <1>5, Lines DEF Type, SwitchKeyBehind, Typed, ChannelsOK
  <2>2. \A i \in 1..Len(pty') : pty'[i].what = "command" =>
                                    i \in 1..Len(pty) /\ pty'[i] = pty[i]
    BY <2>1, NoCommand
  <2>3. QED
    BY <1>5, <2>2 DEF Type, SwitchKeyBehind, HasKeyboard
<1>6. CASE SwitchKey
  BY <1>6 DEF SwitchKey, HasKeyboard, NewShell
<1>7. CASE Timeout
  BY <1>7 DEF Timeout, NewShell
<1>8. CASE InitDone
  BY <1>8 DEF InitDone, NewShell
<1>9. CASE ChdirDone
  BY <1>9 DEF ChdirDone, NewShell
<1>10. CASE Go
  <2>1. CASE goal = "command" /\ ~Dead /\ ~unread
    <3>1. /\ pty = <<>> /\ pty' = Append(pty, Command(cwd))
          /\ Command(cwd) \in Line
          /\ ~warned => shell.cwd = cwd
      BY <1>10, <2>1, Lines DEF Go, ModeOK
    <3>2. Len(pty') = 1 /\ pty'[1] = Command(cwd)
      BY <3>1, Appended
    <3>3. InItsDir(Command(cwd))
      BY <3>1 DEF Command
    <3>4. QED
      BY <1>10, <2>1, <3>2, <3>3 DEF Go
  <2>2. CASE goal # "command" \/ Dead \/ unread
    BY <1>10, <2>2 DEF Go
  <2>3. QED
    BY <2>1, <2>2
<1>11. CASE RunDone
  <2>1. CASE init_subshell
    BY <2>1, Renewed
  <2>2. CASE /\ UNCHANGED <<shell, pty, unread>>
             /\ pc' \in {"over", "idle"}
    BY <2>2
  <2>3. QED
    BY <1>11, <2>1, <2>2 DEF RunDone
<1>12. CASE Execute
  <2>1. CASE /\ cwd \in Local
             /\ subshell_state = "INACTIVE" /\ subshell_cwd # cwd
    <3>1. /\ Cd(cwd) \in Line /\ Cd(cwd).what # "command"
          /\ pty \in Seq(Line) /\ pty' = Append(pty, Cd(cwd))
      BY <1>12, <2>1, Lines DEF Execute, do_subshell_chdir, Cd, ChannelsOK
    <3>2. \A i \in 1..Len(pty') : pty'[i].what = "command" =>
                                    i \in 1..Len(pty) /\ pty'[i] = pty[i]
      BY <3>1, NoCommand
    <3>3. QED
      BY <1>12, <2>1, <3>2 DEF Execute, do_subshell_chdir
  <2>2. CASE ~(/\ cwd \in Local
               /\ subshell_state = "INACTIVE" /\ subshell_cwd # cwd)
    BY <1>12, <2>2 DEF Execute, do_subshell_chdir
  <2>3. QED
    BY <2>1, <2>2
<1>13. CASE Toggle
  <2>1. CASE /\ cwd \in Local
             /\ subshell_state = "INACTIVE" /\ subshell_cwd # cwd
    <3>1. /\ Cd(cwd) \in Line /\ Cd(cwd).what # "command"
          /\ pty \in Seq(Line) /\ pty' = Append(pty, Cd(cwd))
      BY <1>13, <2>1, Lines DEF Toggle, do_subshell_chdir, Cd, ChannelsOK
    <3>2. \A i \in 1..Len(pty') : pty'[i].what = "command" =>
                                    i \in 1..Len(pty) /\ pty'[i] = pty[i]
      BY <3>1, NoCommand
    <3>3. QED
      BY <1>13, <2>1, <3>2 DEF Toggle, do_subshell_chdir
  <2>2. CASE ~(/\ cwd \in Local
               /\ subshell_state = "INACTIVE" /\ subshell_cwd # cwd)
    BY <1>13, <2>2 DEF Toggle, do_subshell_chdir
  <2>3. QED
    BY <2>1, <2>2
<1>14. ASSUME NEW d \in Dirs, DoCd(d)
       PROVE  Commands'
  <2>1. CASE /\ use_subshell /\ d \in Local
             /\ subshell_state = "INACTIVE" /\ subshell_cwd # d
    <3>1. /\ Cd(d) \in Line /\ Cd(d).what # "command"
          /\ pty \in Seq(Line) /\ pty' = Append(pty, Cd(d))
      BY <1>14, <2>1, Lines DEF DoCd, do_subshell_chdir, Cd, ChannelsOK
    <3>2. \A i \in 1..Len(pty') : pty'[i].what = "command" =>
                                    i \in 1..Len(pty) /\ pty'[i] = pty[i]
      BY <3>1, NoCommand
    <3>3. QED
      BY <1>14, <2>1, <3>2 DEF DoCd, do_subshell_chdir
  <2>2. CASE ~(/\ use_subshell /\ d \in Local
               /\ subshell_state = "INACTIVE" /\ subshell_cwd # d)
    BY <1>14, <2>2 DEF DoCd, do_subshell_chdir
  <2>3. QED
    BY <2>1, <2>2
<1>15. CASE Quit
  BY <1>15 DEF Quit, NewShell
<1>16. CASE sigchld_handler
  BY <1>16 DEF sigchld_handler, Continued, NewShell
<1>17. CASE Starts
  BY <1>17 DEF Starts, mc, NewShell
<1>18. CASE TakesLine
  <2>1. /\ pty' = <<>>
        /\ \/ shell' = [shell EXCEPT !.status = "running",
                           !.line = Typed("typed")]
           \/ /\ pty # <<>>
              /\ shell' = [shell EXCEPT !.status = "running",
                             !.line = pty[1]]
    BY <1>18, WholeLine DEF ChannelsOK
  <2>2. Len(pty') = 0 /\ shell'.status = "running" /\ shell'.cwd = shell.cwd
    BY <2>1
  <2>3. ASSUME ~unread, shell'.line.what = "command", shell'.line.sure
        PROVE  shell.cwd = shell'.line.dir
    <3>1. CASE shell' = [shell EXCEPT !.status = "running",
                           !.line = Typed("typed")]
      BY <2>3, <3>1 DEF Typed
    <3>2. CASE /\ pty # <<>>
               /\ shell' = [shell EXCEPT !.status = "running",
                              !.line = pty[1]]
      <4>1. 1 \in 1..Len(pty)
        BY <3>2 DEF ChannelsOK
      <4>2. shell'.line = pty[1]
        BY <3>2
      <4>3. InItsDir(pty[1])
        BY <1>18, <2>3, <4>1 DEF TakesLine
      <4>4. QED
        BY <2>3, <4>2, <4>3
    <3>3. QED
      BY <2>1, <3>1, <3>2
  <2>4. /\ shell.status = "reading"
        /\ UNCHANGED <<flags, run, panel, pipe, unread>>
    BY <1>18 DEF TakesLine, mc
  <2>5. QED
    BY <2>1, <2>2, <2>3, <2>4
<1>19. CASE Stops
  BY <1>19 DEF Stops, mc, NewShell
<1>20. CASE Suspended
  BY <1>20 DEF Suspended, mc, NewShell
<1>21. ASSUME NEW d \in Local, Tells(d)
       PROVE  Commands'
  <2>1. shell'.status = "told" /\ pty' = <<>>
    BY <1>21 DEF Tells
  <2>2. QED
    BY <1>21, <2>1 DEF Tells, mc
<1>22. ASSUME NEW how \in {"exited", "killed"}, Dies(how)
       PROVE  Commands'
  BY <1>22 DEF Dies, mc, NewShell
<1>23. CASE UNCHANGED vars
  BY <1>23 DEF vars
<1>24. QED
  BY <1>1, <1>2, <1>3, <1>4, <1>5, <1>6, <1>7, <1>8, <1>9, <1>10, <1>11,
     <1>12, <1>13, <1>14, <1>15, <1>16, <1>17, <1>18, <1>19, <1>20, <1>21,
     <1>22, <1>23
     DEF Next, feed_subshell, invoke_subshell, User, Shell

-----------------------------------------------------------------------------
(* The theorems.                                                            *)

\* At the start mc knows all there is to know.
LEMMA InitKnown == Init => TypeOK /\ Known
<1> SUFFICES ASSUME Init PROVE TypeOK /\ Known
  OBVIOUS
<1>1. ModeOK
  BY DEF Init, ModeOK
<1>2. PlaceOK /\ ShellOK
  BY Lines DEF Init, NewShell, PlaceOK, ShellOK, Process, Status, Local
<1>3. ChannelsOK
  <2>1. <<Precmd>> \in Seq(Line)
    BY Lines
  <2>2. <<>> \in Seq(Local)
    OBVIOUS
  <2>3. /\ pty = <<Precmd>> /\ pipe = <<>>
        /\ typed = 0 /\ deaths = 0 /\ unread = FALSE /\ mixed = FALSE
    BY DEF Init
  <2>4. pty \in Seq(Line) /\ pipe \in Seq(Local)
    <3>1. pty \in Seq(Line)
      BY <2>1, <2>3
    <3>2. pipe \in Seq(Local)
      BY <2>2, <2>3
    <3>3. QED
      BY <3>1, <3>2
  <2>5. /\ typed \in 0..MaxTyped /\ deaths \in 0..MaxDeaths
        /\ unread \in BOOLEAN /\ mixed \in BOOLEAN
    <3>1. typed = 0 /\ deaths = 0 /\ unread = FALSE /\ mixed = FALSE
      BY <2>3
    <3>2. 0 \in 0..MaxTyped /\ 0 \in 0..MaxDeaths
      OBVIOUS
    <3>3. QED
      BY <3>1, <3>2
  <2>6. QED
    BY <2>4, <2>5 DEF ChannelsOK
<1>4. Signals /\ Calls /\ Prompts
  BY DEF Init, NewShell, Signals, Calls, Prompts, Feeding, Dead
<1>5. OneLine /\ Fresh /\ Directories /\ Commands
  <2>1. /\ pty = <<Precmd>> /\ pipe = <<>> /\ pc = "test"
        /\ shell.status = "starting"
        /\ call = "init" /\ subshell_state = "RUNNING_COMMAND"
    BY DEF Init, NewShell
  <2>2. Len(<<Precmd>>) = 1 /\ <<Precmd>>[1].what = "precmd"
    BY DEF Precmd
  <2>3. OneLine
    BY <2>1, <2>2 DEF OneLine
  <2>4. \A i \in 1..Len(pty) : InItsDir(pty[i])
    BY <2>1, <2>2 DEF InItsDir
  <2>5. QED
    BY <2>1, <2>3, <2>4 DEF Directories, Fresh, Commands, Dead
<1>6. QED
  BY <1>1, <1>2, <1>3, <1>4, <1>5 DEF TypeOK, Known

\* Every variable keeps its type, also when the user types ahead.
THEOREM TypeCorrectness == Spec => []TypeOK
<1>1. Init => TypeOK /\ Calls
  BY InitKnown DEF Known
<1>2. TypeOK /\ Calls /\ [Next]_vars => (TypeOK /\ Calls)'
  BY CallsStep, ModeStep, PlaceStep, ShellStep, ChannelsStep DEF TypeOK
<1>3. QED
  BY <1>1, <1>2, PTL DEF Spec

\* Only a new shell ends what C-o behind other keys has begun.
LEMMA MixedStep ==
    ASSUME mixed, ~mixed', [Next]_vars
    PROVE  init_subshell
  BY DEF Next, feed_subshell, invoke_subshell, User, Shell, Test, ReadPty,
     ReadPipe, Synchronized, Timeout, Type, SwitchKeyBehind, SwitchKey,
     InitDone, ChdirDone, Go, RunDone, Execute, Toggle, Quit, DoCd,
     sigchld_handler, Starts, TakesLine, Stops, Suspended, Tells, Dies, vars

\* All that mc knows stays known.
LEMMA AlwaysKnown == ~TypesAhead => (Spec => [](TypeOK /\ Known))
<1> SUFFICES ASSUME ~TypesAhead PROVE Spec => [](TypeOK /\ Known)
  OBVIOUS
<1>1. Init => TypeOK /\ Known
  BY InitKnown
<1>2. TypeOK /\ Known /\ [Next]_vars => (TypeOK /\ Known)'
  <2> SUFFICES ASSUME TypeOK, Known, [Next]_vars PROVE (TypeOK /\ Known)'
    OBVIOUS
  <2>1. Calls /\ Signals /\ Fresh /\ Directories /\ ModeOK
    BY DEF Known, TypeOK
  <2>2. TypeOK'
    BY <2>1, ModeStep, PlaceStep, ShellStep, ChannelsStep DEF TypeOK
  <2>3. Calls' /\ Signals' /\ Fresh' /\ Directories'
    BY <2>1, CallsStep, SignalsStep, FreshStep, DirectoriesStep
  <2>4. ASSUME ~mixed' PROVE OneLine' /\ Prompts' /\ Commands'
    <3>1. CASE mixed
      BY <2>4, <3>1, MixedStep, Renewed
    <3>2. CASE ~mixed
      BY <2>1, <2>4, <3>2, OneLineStep, PromptsStep, CommandsStep DEF Known
    <3>3. QED
      BY <3>1, <3>2
  <2>5. QED
    BY <2>2, <2>3, <2>4 DEF Known
<1>3. QED
  BY <1>1, <1>2, PTL DEF Spec

\* What mc takes for an idle shell is one at its prompt with nothing typed, or
\* one whose death SIGCHLD has not told yet (main.c:783, subshell.c:754), unless
\* the user has left it with C-o read together with other keys
\* (subshell.c:973-980).
THEOREM InactiveAtPrompt == ~TypesAhead => (Spec => []InactiveMeansPrompt)
<1>1. TypeOK /\ Known => InactiveMeansPrompt
  BY DEF Known, Prompts, InactiveMeansPrompt
<1>2. QED
  BY <1>1, AlwaysKnown, PTL

\* A command of mc's command line is run in the directory of the panel, or
\* after a warning (subshell.c:774-777); the same shells are excepted.
THEOREM RunsInPanelDir == ~TypesAhead => (Spec => []CommandsRunInPanelDir)
<1>1. TypeOK /\ Known => CommandsRunInPanelDir
  BY DEF Known, Commands, InItsDir, CommandsRunInPanelDir
<1>2. QED
  BY <1>1, AlwaysKnown, PTL

\* The types, and: mc knows the directory of an idle shell, however it was left
\* (subshell.c:754).
THEOREM KnowsTheShell == ~TypesAhead => (Spec => []Consistent)
<1>1. TypeOK /\ Known => Consistent
  <2> SUFFICES ASSUME TypeOK, Known PROVE CwdIsKnown
    BY DEF Consistent
  <2>1. <<Precmd>> # <<>>
    OBVIOUS
  <2>2. QED
    BY <2>1 DEF Known, Directories, CwdIsKnown, AtPrompt
<1>2. QED
  BY <1>1, AlwaysKnown, PTL
=============================================================================
