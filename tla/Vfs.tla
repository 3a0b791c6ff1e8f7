-------------------------------- MODULE Vfs --------------------------------
(***************************************************************************)
(* Which archives the virtual file systems keep in memory, and when they   *)
(* are freed: vfs/vfs.c (current directory, stamps, time-outs), with       *)
(* vfs/extfs.c and vfs/tar.c on vfs/direntry.c as the file systems.        *)
(*                                                                         *)
(* An archive that is entered is read and stays loaded.  When it is left,  *)
(* vfs_add_noncurrent_stamps puts it on the list of stamps, unless it is   *)
(* still in use, and vfs_timeout_handler, called for every event, frees    *)
(* what has been on the list for vfs_timeout seconds.  Archives may lie in *)
(* archives: an extfs archive keeps a local copy of its file from the      *)
(* outer one, a tar archive an open handle on it.                          *)
(*                                                                         *)
(* Each entry point (mc_chdir, mc_open, ...) runs to its end without being *)
(* interrupted and is one action; it is put together from the functions of *)
(* the code, each an operator from one state of the vfs layer to the next. *)
(***************************************************************************)
EXTENDS Integers, Sequences, FiniteSets, Functions

CONSTANTS
    Archives,   \* the archives there are on the disk
    Outer,      \* the archive that holds the file of one; Local: the disk
    Tars,       \* the archives of tarfs; the others are of extfs
    Local,      \* the place of what is on the disk
    Writes,     \* whether files in archives are written to
    MaxUses,    \* bound: handles and local copies at one time
    MaxLeaks    \* bound: uses of an archive that are never given back

Places == Archives \cup {Local}
Panels == {"left", "right"}

\* Whatever lies in an archive lies deeper than it.
ASSUME ArchiveAssumption ==
    /\ IsFiniteSet(Archives) /\ Tars \subseteq Archives
    /\ Local \notin Archives /\ Outer \in [Archives -> Places]
    /\ \E depth \in [Places -> 0..Cardinality(Archives)] :
          \A a \in Archives : depth[Outer[a]] < depth[a]
    /\ Writes \in BOOLEAN /\ MaxUses \in Nat /\ MaxLeaks \in Nat

\* An archive and those it lies in, innermost first.
Path[a \in Archives] ==
    IF Outer[a] = Local THEN <<a>> ELSE <<a>> \o Path[Outer[a]]
PathOf(d) == IF d = Local THEN <<>> ELSE Path[d]

VARIABLES
    loaded,     \* the lists first_archive (extfs) and supers (tarfs)
    fd_usage,
    stamps,     \* the list; old: its time is vfs_timeout seconds ago
    current_dir,
    cwd,        \* the directory of each panel
    listing,    \* the panel shows it (view_listing)
    handles,    \* files open in an archive, by the table of handles
    copies,     \* local copies lent to a caller of mc_getlocalcopy
    changed,    \* nested archives whose local copy has been written to
    owed,       \* archives that were handed back a changed copy
    lost,       \* history: archives freed with such a change
    left_behind,    \* history: archives whose loading or entering failed, or
                    \* whose panel was closed
    dangling    \* history: vfs_timeout_handler went on from a freed stamp

memory == <<loaded, fd_usage, stamps, current_dir, owed, lost>>
panels == <<cwd, listing>>
uses == <<handles, copies, changed>>
vars == <<memory, panels, uses, left_behind, dangling>>

TypeOK ==
    /\ loaded \subseteq Archives
    /\ fd_usage \in [Archives -> Int]
    /\ stamps \in Seq([id : Archives, old : BOOLEAN])
    /\ current_dir \in Places
    /\ cwd \in [Panels -> Places]
    /\ listing \in [Panels -> BOOLEAN] /\ \E p \in Panels : listing[p]
    /\ handles \in [Archives -> Nat] /\ copies \in [Archives -> Nat]
    /\ changed \subseteq Archives
    /\ owed \subseteq Archives /\ lost \subseteq Archives
    /\ left_behind \subseteq Archives
    /\ dangling \in BOOLEAN

Init ==
    /\ loaded = {} /\ fd_usage = [a \in Archives |-> 0]
    /\ stamps = <<>>
    /\ current_dir = Local
    /\ cwd = [p \in Panels |-> Local] /\ listing = [p \in Panels |-> TRUE]
    /\ handles = [a \in Archives |-> 0] /\ copies = [a \in Archives |-> 0]
    /\ changed = {} /\ owed = {} /\ lost = {}
    /\ left_behind = {} /\ dangling = FALSE

-----------------------------------------------------------------------------
(* The state of the vfs layer while an entry point runs.                    *)

Now == [loaded |-> loaded, fd |-> fd_usage, stamps |-> stamps,
        current_dir |-> current_dir, cwd |-> cwd, listing |-> listing,
        owed |-> owed, lost |-> lost,
        gone |-> {}]    \* the stamps freed on the way

Becomes(s) ==
    /\ loaded' = s.loaded /\ fd_usage' = s.fd /\ stamps' = s.stamps
    /\ current_dir' = s.current_dir /\ owed' = s.owed /\ lost' = s.lost

Stamped(s, a) == \E i \in 1..Len(s.stamps) : s.stamps[i].id = a

\* a and the archives around it, up to the first that has no stamp: the ones
\* vfs_stamp and vfs_rmstamp get to through the parents of a stamp.
StampedRun(s, a) ==
    {Path[a][i] : i \in {i \in 1..Len(Path[a]) :
                            \A j \in 1..i : Stamped(s, Path[a][j])}}

vfs_stamp(s, a) ==
    [s EXCEPT !.stamps = [i \in DOMAIN @ |->
        IF @[i].id \in StampedRun(s, a) THEN [@[i] EXCEPT !.old = FALSE]
        ELSE @[i]]]

\* What is left of a list of stamps.
Without(list, out) ==
    LET kept[n \in 0..Len(list)] ==
            IF n = 0 THEN <<>>
            ELSE IF list[n].id \in out THEN kept[n - 1]
            ELSE Append(kept[n - 1], list[n])
    IN  kept[Len(list)]

vfs_rmstamp(s, a, removeparents) ==
    LET out == IF removeparents THEN StampedRun(s, a) ELSE {a}
    IN  [s EXCEPT !.stamps = Without(@, out),
                  !.gone = @ \cup {x \in out : Stamped(s, x)}]

vfs_addstamp(s, a) ==
    IF Stamped(s, a)
    THEN [s EXCEPT !.stamps = [i \in DOMAIN @ |->
             IF @[i].id = a THEN [@[i] EXCEPT !.old = FALSE] ELSE @[i]]]
    ELSE [s EXCEPT !.stamps = Append(@, [id |-> a, old |-> FALSE])]

\* The archives that a directory is in, as getid and its list of parents name
\* them: none when the innermost one is not loaded.
Ids(s, d) ==
    IF d \in s.loaded THEN {x \in s.loaded : x \in Range(Path[d])} ELSE {}

\* What may not be stamped: current_dir and the directories of the panels that
\* show one, with the archives around them.
Current(s) ==
    Ids(s, s.current_dir) \cup
    UNION {Ids(s, s.cwd[p]) : p \in {p \in Panels : s.listing[p]}}

Innermost(s) ==
    {s.current_dir} \cup {s.cwd[p] : p \in {p \in Panels : s.listing[p]}}

nothingisopen(s, a) == s.fd[a] <= 0

\* The archives around a that are stamped with it: up to one that is current
\* or open.
StampedParents_EvenOpen(s, a) ==
    LET up == Tail(Path[a])
    IN  SubSeq(up, 1, Cardinality({i \in 1..Len(up) : \A j \in 1..i :
            up[j] \notin Innermost(s)}))

StampedParents(s, a) ==
    LET up == Tail(Path[a])
    IN  SubSeq(up, 1, Cardinality({i \in 1..Len(up) : \A j \in 1..i :
            up[j] \notin Innermost(s) /\ nothingisopen(s, up[j])}))

\* Each of a list of archives gets a stamp.
AddStamps(s, list) ==
    LET added[n \in 0..Len(list)] ==
            IF n = 0 THEN s ELSE vfs_addstamp(added[n - 1], list[n])
    IN  added[Len(list)]

vfs_add_noncurrent_stamps_OneDirectory(s, a) ==
    LET r == IF s.current_dir \in s.loaded
             THEN vfs_rmstamp(s, s.current_dir, TRUE) ELSE s
    IN  IF a \in s.loaded \ Ids(s, s.current_dir) /\ nothingisopen(s, a)
        THEN AddStamps(r, <<a>> \o StampedParents(r, a))
        ELSE r

vfs_add_noncurrent_stamps(s, a) ==
    LET r == IF s.current_dir \in s.loaded
             THEN vfs_rmstamp(s, s.current_dir, TRUE) ELSE s
    IN  IF a \in s.loaded \ Current(s) /\ nothingisopen(s, a)
        THEN AddStamps(r, <<a>> \o StampedParents(r, a))
        ELSE r

Hold_KeepsStamp(s, a) == [s EXCEPT !.fd[a] = @ + 1]

\* extfs_open and vfs_s_open, once the file is found.
Hold(s, a) == [vfs_rmstamp(s, a, TRUE) EXCEPT !.fd[a] = @ + 1]

Release_NoStamp(s, a) == [s EXCEPT !.fd[a] = @ - 1]

\* extfs_close and vfs_s_close.
Release(s, a) ==
    LET r == [s EXCEPT !.fd[a] = @ - 1]
    IN  IF r.fd[a] = 0 THEN vfs_add_noncurrent_stamps(r, a) ELSE r

KeepsCopy(a) == Outer[a] # Local /\ a \notin Tars /\ Outer[a] \notin Tars

\* The file of a nested archive: extfs_getlocalcopy keeps what it opens in
\* use, mc_def_getlocalcopy (for a file in a tar) opens and closes it, and a
\* tar archive is read through a handle that stays open.
Fetch(s, a) ==
    IF Outer[a] = Local THEN s
    ELSE IF KeepsCopy(a) \/ a \in Tars THEN Hold(s, Outer[a])
    ELSE Release(Hold(s, Outer[a]), Outer[a])

extfs_ungetlocalcopy_Twice(s, a, has_changed, opens) ==
    IF opens
    THEN Release([Hold(s, a) EXCEPT !.fd[a] = @ - 2,
                      !.owed = IF has_changed THEN @ \cup {a} ELSE @], a)
    ELSE s

\* extfs_ungetlocalcopy.  It opens the file once more, and returns when that
\* fails; the archive is marked as changed, which nothing reads.
extfs_ungetlocalcopy(s, a, has_changed, opens) ==
    IF opens
    THEN Release([Hold(s, a) EXCEPT !.fd[a] = @ - 1,
                      !.owed = IF has_changed THEN @ \cup {a} ELSE @], a)
    ELSE s

\* extfs_free and vfs_s_free_super: the temporary files go with the entries,
\* then the outer archive gets its file back.
Free(s, a, opens) ==
    LET r == [s EXCEPT !.loaded = @ \ {a}, !.fd[a] = 0, !.owed = @ \ {a},
                       !.lost = IF a \in s.owed THEN @ \cup {a} ELSE @]
    IN  IF KeepsCopy(a)
        THEN extfs_ungetlocalcopy(r, Outer[a], a \in changed, opens)
        ELSE IF a \in Tars /\ Outer[a] # Local THEN Release(r, Outer[a])
        ELSE r

\* What reading an archive may come to.  In the listing of an inconsistent
\* one an entry has no directory.
Fates == {"read", "unreadable", "inconsistent"}

\* Entering one archive of a path, if all went well so far (ok): it is found,
\* or read.  The inode of its root is in the fd_usage of a tar archive.
Enter(fate, r, a) ==
    IF ~r.ok THEN r
    ELSE IF a \in r.s.loaded THEN [r EXCEPT !.s = vfs_stamp(@, a)]
    ELSE LET read == [Fetch(r.s, a) EXCEPT
                         !.loaded = @ \cup {a},
                         !.fd[a] = IF a \in Tars THEN 1 ELSE 0]
         IN  CASE fate[a] = "read" ->
                    [s |-> vfs_add_noncurrent_stamps(read, a), ok |-> TRUE]
               [] fate[a] = "inconsistent" /\ a \notin Tars ->
                    [s |-> read, ok |-> FALSE]
               [] OTHER ->
                    [s |-> IF a \in Tars /\ Outer[a] # Local
                           THEN Release(Hold(r.s, Outer[a]), Outer[a])
                           ELSE r.s,
                     ok |-> FALSE]

\* get_path_mangle of extfs and vfs_s_get_path_mangle: the file of an archive
\* is looked up first, which enters the archives around it.
get_path_mangle(fate, s, d) ==
    LET path == PathOf(d)
        entered[n \in 0..Len(path)] ==
            IF n = 0 THEN [s |-> s, ok |-> TRUE]
            ELSE Enter(fate, entered[n - 1], path[Len(path) + 1 - n])
    IN  entered[Len(path)]

\* mc_chdir: ok when the directory could be entered and is there.
mc_chdir(o, s, d) ==
    LET r == get_path_mangle(o.fate, [s EXCEPT !.current_dir = d], d)
    IN  IF r.ok /\ o.there
        THEN [s |-> vfs_add_noncurrent_stamps(r.s, s.current_dir), ok |-> TRUE]
        ELSE [s |-> [r.s EXCEPT !.current_dir = s.current_dir], ok |-> FALSE]

\* What the path of d leads to: at most one of the archives on it that are not
\* loaded cannot be read, or all can and the file or directory is there or not.
AllRead == [a \in Archives |-> "read"]
Outcomes(d) ==
    {[fate |-> AllRead, there |-> b] : b \in BOOLEAN} \cup
    {[fate |-> [AllRead EXCEPT ![a] = f], there |-> TRUE] :
        a \in Range(PathOf(d)) \ loaded, f \in Fates \ {"read"}}

-----------------------------------------------------------------------------
(* Entry points.                                                            *)

Total(f) == FoldFunction(+, 0, f)

\* The archives inside one that use it.
Nested(a) == {b \in loaded : Outer[b] = a /\ (b \in Tars \/ KeepsCopy(b))}
Needed(a) == handles[a] + copies[a] + Cardinality(Nested(a))

\* Uses that extfs_ungetlocalcopy did not give back.
Leaks == Total([a \in Archives \ Tars |-> fd_usage[a] - Needed(a)])

StampedIds == {stamps'[i].id : i \in 1..Len(stamps')}

\* Archives that were read and then not entered, or whose panel was closed,
\* get no stamp until they are visited again.
Forgets(S) == left_behind' = ((left_behind \cup S) \cap loaded') \ StampedIds

NewlyLoaded == loaded' \ loaded

\* do_cd in a panel.
DoCd(p, d) == \E o \in Outcomes(d) :
    /\ listing[p]
    /\ LET r == mc_chdir(o, Now, d)
           moved == [r.s EXCEPT !.cwd[p] = d]
       IN  IF r.ok
           THEN /\ Becomes(vfs_add_noncurrent_stamps(moved, cwd[p]))
                /\ cwd' = moved.cwd /\ Forgets({})
           ELSE Becomes(r.s) /\ UNCHANGED cwd /\ Forgets(NewlyLoaded)
    /\ UNCHANGED <<listing, uses, dangling>>

\* mc_chdir to the directory of a panel that gets the focus or is reloaded, or
\* to "/" for an operation: no panel changes its directory.
Chdir(d) == \E o \in Outcomes(d) :
    /\ d \in {cwd[p] : p \in {p \in Panels : listing[p]}} \cup {Local}
    /\ LET r == mc_chdir(o, Now, d)
       IN  Becomes(r.s) /\ Forgets(IF r.ok THEN {} ELSE NewlyLoaded)
    /\ UNCHANGED <<panels, uses, dangling>>

\* panel_reload: while the directory cannot be entered, the panel goes up.
PanelReload(p) == \E n \in 1..Len(PathOf(cwd[p])) :
    /\ listing[p]
    /\ LET up == PathOf(cwd[p]) \o <<Local>>
           fails == [fate |-> AllRead, there |-> FALSE]
           tried[i \in 0..n] ==
               IF i = 0 THEN Now ELSE mc_chdir(fails, tried[i - 1], up[i]).s
           moved == [tried[n] EXCEPT !.cwd[p] = up[n + 1]]
       IN  /\ Becomes(mc_chdir([fails EXCEPT !.there = TRUE], moved, up[n + 1]).s)
           /\ cwd' = moved.cwd
           /\ Forgets(NewlyLoaded \cup Range(SubSeq(up, 1, n)))
    /\ UNCHANGED <<listing, uses, dangling>>

\* set_display_type: from the current panel the other one is made to give way
\* to another view (quick_cmd_no_menu), and comes back in the current directory.
ClosePanel(p) ==
    /\ listing[p] /\ \E q \in Panels \ {p} : listing[q] /\ cwd[q] = current_dir
    /\ listing' = [listing EXCEPT ![p] = FALSE]
    /\ cwd' = [cwd EXCEPT ![p] = Local]
    /\ UNCHANGED <<memory, uses, dangling>>
    /\ Forgets(Range(PathOf(cwd[p])))

NewPanel(p) ==
    /\ ~listing[p]
    /\ listing' = [listing EXCEPT ![p] = TRUE]
    /\ cwd' = [cwd EXCEPT ![p] = current_dir]
    /\ UNCHANGED <<memory, uses, left_behind, dangling>>

Uses == {"handle", "copy"}
UsesNow == Total(handles) + Total(copies)

\* mc_open, or mc_getlocalcopy; "stat" for calls that only look a path up.
\* A tar archive lends the copy that it keeps with the inode, and is not in
\* use for it.
Open(a, use) == \E o \in Outcomes(a) :
    /\ use # "stat" => UsesNow < MaxUses
    /\ LET r == get_path_mangle(o.fate, Now, a)
           opened == r.ok /\ o.there /\ use # "stat"
           held == Hold(r.s, a)
       IN  /\ Becomes(IF ~opened THEN r.s
                      ELSE IF use = "copy" /\ a \in Tars THEN Release(held, a)
                      ELSE held)
           /\ handles' = IF opened /\ use = "handle"
                         THEN [handles EXCEPT ![a] = @ + 1] ELSE handles
           /\ copies' = IF opened /\ use = "copy"
                        THEN [copies EXCEPT ![a] = @ + 1] ELSE copies
           /\ Forgets(IF r.ok THEN {} ELSE NewlyLoaded)
    /\ UNCHANGED <<panels, changed, dangling>>

\* mc_close: what was written goes into the archive's file (copyin), which is
\* the local copy if the archive is nested.
Close(a) == \E wrote \in {FALSE, Writes} :
    /\ handles[a] > 0
    /\ wrote => a \notin Tars
    /\ handles' = [handles EXCEPT ![a] = @ - 1]
    /\ changed' = IF wrote /\ Outer[a] # Local THEN changed \cup {a} ELSE changed
    /\ Becomes(Release(Now, a)) /\ Forgets({})
    /\ UNCHANGED <<panels, copies, dangling>>

\* mc_ungetlocalcopy.
Unget(a) == \E has_changed \in {FALSE, Writes}, opens \in BOOLEAN :
    /\ copies[a] > 0
    /\ ~opens => a \notin Tars /\ Leaks < MaxLeaks
    /\ copies' = [copies EXCEPT ![a] = @ - 1]
    /\ IF a \in Tars THEN UNCHANGED memory
       ELSE Becomes(extfs_ungetlocalcopy(Now, a, has_changed, opens))
    /\ Forgets(IF opens THEN {} ELSE {a})
    /\ UNCHANGED <<panels, handles, changed, dangling>>

\* vfs_timeout seconds pass in which nothing is stamped.
TimePasses ==
    /\ \E i \in 1..Len(stamps) : ~stamps[i].old
    /\ stamps' = [i \in DOMAIN stamps |-> [stamps[i] EXCEPT !.old = TRUE]]
    /\ UNCHANGED <<loaded, fd_usage, current_dir, owed, lost, panels, uses,
                   left_behind, dangling>>

Old(s, a) == \E i \in 1..Len(s.stamps) : s.stamps[i] = [id |-> a, old |-> TRUE]

\* One round of the loop over the list: the next stamp is taken before the
\* archive of this one is freed.
SweepOne(opens, r, i) ==
    IF r.dangling \/ ~Old(r.s, stamps[i].id) THEN r
    ELSE LET a == stamps[i].id
             s == vfs_rmstamp(Free([r.s EXCEPT !.gone = {}], a, opens), a, FALSE)
         IN  [s |-> s, dangling |-> i < Len(stamps) /\ stamps[i + 1].id \in s.gone]

vfs_timeout_handler == \E opens \in BOOLEAN :
    /\ ~opens => Leaks < MaxLeaks
    /\ \E i \in 1..Len(stamps) : stamps[i].old
    /\ LET swept[i \in 0..Len(stamps)] ==
               IF i = 0 THEN [s |-> Now, dangling |-> FALSE]
               ELSE SweepOne(opens, swept[i - 1], i)
           r == swept[Len(stamps)]
       IN  /\ Becomes(r.s) /\ dangling' = (dangling \/ r.dangling)
           /\ changed' = changed \cap r.s.loaded
           /\ Forgets(IF opens THEN {} ELSE {Outer[a] : a \in loaded \ loaded'})
    /\ UNCHANGED <<panels, handles, copies>>

-----------------------------------------------------------------------------
User ==
    \/ \E p \in Panels, d \in Places : DoCd(p, d)
    \/ \E d \in Places : Chdir(d)
    \/ \E p \in Panels : PanelReload(p) \/ ClosePanel(p) \/ NewPanel(p)
    \/ \E a \in Archives, use \in Uses \cup {"stat"} : Open(a, use)
    \/ \E a \in Archives : Close(a) \/ Unget(a)

Next == User \/ TimePasses \/ vfs_timeout_handler

Spec == Init /\ [][Next]_vars

\* Time passes.  The handler is called for every event before it is acted on,
\* and every ten seconds while nothing happens, so that no use of an archive
\* can keep coming first.
FairSpec == Spec /\ WF_vars(TimePasses) /\ SF_vars(vfs_timeout_handler)

-----------------------------------------------------------------------------
(* Properties                                                               *)

\* No archive is freed while a file in it is open, a local copy is lent, or an
\* archive inside needs it: the close and the write back would use its memory.
InUseStays == \A a \in Archives : Needed(a) > 0 => a \in loaded

\* fd_usage is never below the number of uses, however gets, ungets, loads
\* and frees are nested and whichever of them fail.
UsageCounted ==
    \A a \in Archives \ Tars : fd_usage[a] >= Needed(a)

\* A stamp is for a loaded archive that has nothing open, and for one only
\* once: the handler frees what it finds there without a look.
StampsIdle ==
    \A i \in 1..Len(stamps) :
        /\ stamps[i].id \in loaded /\ fd_usage[stamps[i].id] <= 0
        /\ \A j \in 1..(i - 1) : stamps[j].id # stamps[i].id

\* The types, the counts of uses and the list of stamps.
Consistent == TypeOK /\ UsageCounted /\ StampsIdle

\* vfs.c: "We do not time out the vfs's which are current in any panel", nor
\* those around them.
CurrentStays ==
    [][\A a \in loaded \ loaded', p \in Panels :
          listing[p] => a \notin Ids(Now, cwd[p])]_vars

\* The loop of the handler never goes on from a stamp that has been freed.
SweepSafe == ~dangling

\* mc.1: the Commander "will cache the information in memory for a limited
\* amount of time, after you hit the timeout, all of the resources associated
\* with the file system will be freed", here for extfs.
LeftIsFreed ==
    \A a \in Archives \ Tars :
        []<>(a \notin loaded \/ Needed(a) > 0 \/ a \in Current(Now)
             \/ a \in left_behind)

\* A changed copy that was handed back to an archive is not thrown away.
ChangesKept == lost = {}
=============================================================================
