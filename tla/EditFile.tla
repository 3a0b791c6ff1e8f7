------------------------------ MODULE EditFile ------------------------------
(***************************************************************************)
(* The editor and its file: opening, loading, saving in the three save     *)
(* modes, saving under another name and quitting (gtkedit/edit.c,          *)
(* gtkedit/editcmd.c).  A save is a sequence of system calls, each of      *)
(* which may fail, and the program may be killed between any two.          *)
(*                                                                         *)
(* A content is a text as a whole; "partial" is what an interrupted write  *)
(* leaves.                                                                 *)
(***************************************************************************)
EXTENDS Naturals

CONSTANTS Files,        \* names that the user gives
          Texts,        \* texts other than the empty one
          Faults        \* calls that may fail: "open", "write", "close", "rename", "read"

Empty == "empty"
None == "none"
Partial == "partial"
NoName == "noname"

ASSUME EditFileAssumption ==
    /\ Texts \cap {Empty, None, Partial} = {}
    /\ NoName \notin Files
    /\ Faults \subseteq {"open", "write", "close", "rename", "read"}

VARIABLES disk,         \* content of each file
          backup,       \* content under its backup name
          temp,         \* content of the temporary file of the save that runs
          buffer,       \* the text in the editor
          filename, modified, delete_file,      \* fields of WEdit
          option_save_mode,                     \* 0 quick, 1 safe, 2 backups
          save,         \* the save that runs: its step, mode, name and caller
          existed,      \* history: files that were there before the editor
          quick,        \* history: files written by a quick save
          spoilt,       \* history: a save of the unmodified text to its own file failed
          discarded     \* history: the user gave up the changes at the end

files == <<disk, backup, temp>>
wedit == <<buffer, filename, modified, delete_file>>
history == <<existed, quick, spoilt, discarded>>
vars == <<files, wedit, option_save_mode, save, history>>

Contents == Texts \cup {Empty}
IsWhole(c) == c \in Contents
MayFail(call) == call \in Faults

(* step: "idle" the user edits; "open", "write", "close", "backup",        *)
(* "rename" the calls of edit_save_file; "name" the dialog of save as;     *)
(* "quit" the editor is closed; "killed" it is gone.                       *)
Idle == [step |-> "idle", mode |-> 0, name |-> NoName, quits |-> FALSE, as |-> FALSE]
IsIdle == save = Idle

-----------------------------------------------------------------------------
(* edit_load_file: a file that is not there is created empty and marked    *)
(* for deletion.  The results of read are not looked at.                   *)
Loads(f, text) ==
    /\ filename = f /\ modified = FALSE
    /\ buffer = text

Init == /\ \E f \in Files, there \in SUBSET Files :
               /\ existed = there
               /\ disk \in [Files -> Contents \cup {None}]
               /\ \A g \in Files : IF g \in there THEN disk[g] \in Texts
                                   ELSE disk[g] = IF g = f THEN Empty ELSE None
               /\ Loads(f, disk[f])
               /\ delete_file = (f \notin there)
        /\ backup = [f \in Files |-> None]
        /\ temp = None
        /\ option_save_mode \in 0..2
        /\ save = Idle
        /\ quick = {} /\ spoilt = FALSE /\ discarded = FALSE

(* edit_modification: any change marks the text, undo too.                 *)
Edit == /\ IsIdle
        /\ \E text \in Contents \ {buffer} : buffer' = text
        /\ modified' = TRUE
        /\ UNCHANGED <<files, filename, delete_file, option_save_mode, save, history>>

(* Faulty variant: the buttons are counted from one.                          *)
menu_save_mode_cmd_FromOne ==
    /\ IsIdle
    /\ option_save_mode' \in 1..3 \ {option_save_mode}
    /\ UNCHANGED <<files, wedit, save, history>>

menu_save_mode_cmd ==
    /\ IsIdle
    /\ option_save_mode' \in 0..2 \ {option_save_mode}
    /\ UNCHANGED <<files, wedit, save, history>>

(* Continue was chosen when the text was modified.                         *)
edit_new_cmd ==
    /\ IsIdle
    /\ buffer' = Empty /\ filename' = NoName
    /\ modified' = FALSE /\ delete_file' = FALSE /\ spoilt' = FALSE
    /\ UNCHANGED <<files, option_save_mode, save, existed, quick, discarded>>

(* A file that can be opened but not loaded (a directory, or one that is   *)
(* too large) leaves an editor without buffers, and the next key ends the  *)
(* program.                                                                *)
edit_load_cmd ==
    /\ IsIdle
    /\ \/ \E f \in Files : /\ IsWhole(disk[f])
                           /\ filename' = f
                           /\ buffer' = disk[f] \/ (MayFail("read") /\ buffer' \in Contents)
          /\ modified' = FALSE /\ delete_file' = FALSE /\ spoilt' = FALSE
          /\ save' = save
       \/ save' = [Idle EXCEPT !.step = "killed"] /\ UNCHANGED <<wedit, spoilt>>
    /\ UNCHANGED <<files, option_save_mode, existed, quick, discarded>>

-----------------------------------------------------------------------------
(* edit_save_file, called by edit_save_cmd, by edit_save_as_cmd and, when  *)
(* the editor is closed, by edit_quit_cmd.                                 *)

StartSave(name, quits, as) ==
    save' = [step |-> "open", mode |-> option_save_mode, name |-> name,
             quits |-> quits, as |-> as]

(* Faulty variants: a failed save closes the editor all the same; a save   *)
(* as keeps the mark for deletion.                                         *)
SaveFails_Quits ==
    /\ temp' = None
    /\ save' = IF save.quits /\ save.as THEN [save EXCEPT !.step = "quit"]
               ELSE IF save.as THEN Idle ELSE [save EXCEPT !.step = "name"]
    /\ spoilt' = (spoilt \/ (~modified /\ save.name = filename))
    /\ UNCHANGED wedit
SaveSucceeds_StillDeleted ==
    /\ filename' = IF save.as THEN save.name ELSE filename
    /\ modified' = FALSE /\ delete_file' = (delete_file /\ save.as)
    /\ save' = IF save.quits THEN [save EXCEPT !.step = "quit"] ELSE Idle
    /\ spoilt' = FALSE
    /\ UNCHANGED buffer

(* What the callers do with the result.  A temporary file that was written *)
(* stays where it is, and is nobody's from now on.                         *)
SaveFails ==
    /\ temp' = None
    /\ save' = IF save.as THEN Idle ELSE [save EXCEPT !.step = "name"]
    /\ spoilt' = (spoilt \/ (~modified /\ save.name = filename))
    /\ UNCHANGED wedit
SaveSucceeds ==
    /\ filename' = IF save.as THEN save.name ELSE filename
    /\ modified' = FALSE /\ delete_file' = FALSE
    /\ save' = IF save.quits THEN [save EXCEPT !.step = "quit"] ELSE Idle
    /\ spoilt' = FALSE
    /\ UNCHANGED buffer

(* A file that is not there, or cannot be written, is not saved safely.    *)
SaveOpen ==
    /\ save.step = "open"
    /\ \E writable \in BOOLEAN, opens \in BOOLEAN :
          LET there == save.name # NoName /\ disk[save.name] # None
              mode == IF there /\ writable THEN save.mode ELSE 0
          IN  /\ ~(writable /\ opens) => MayFail("open") \/ save.name = NoName
              /\ save.name = NoName => ~opens
              /\ mode = 0 /\ opens => writable
              /\ IF ~opens THEN SaveFails /\ UNCHANGED <<disk, quick>>
                 ELSE /\ save' = [save EXCEPT !.step = "write", !.mode = mode]
                      /\ IF mode = 0
                         THEN /\ disk' = [disk EXCEPT ![save.name] = Empty]
                              /\ quick' = quick \cup {save.name}
                              /\ temp' = temp
                         ELSE temp' = Empty /\ UNCHANGED <<disk, quick>>
                      /\ UNCHANGED <<wedit, spoilt>>
    /\ UNCHANGED <<backup, option_save_mode, existed, discarded>>

(* Faulty variant: only backups are written to a temporary file.              *)
Written_InPlace(content) ==
    IF save.mode < 2 THEN disk' = [disk EXCEPT ![save.name] = content] /\ temp' = temp
                     ELSE temp' = content /\ disk' = disk

Written(content) ==
    IF save.mode = 0 THEN disk' = [disk EXCEPT ![save.name] = content] /\ temp' = temp
                     ELSE temp' = content /\ disk' = disk

(* Faulty variant: the count of what was written is not compared.             *)
SaveWrite_AnyCount ==
    /\ save.step = "write"
    /\ \E content \in {buffer} \cup (IF MayFail("write") THEN {Partial} ELSE {}) :
          Written(content)
    /\ save' = [save EXCEPT !.step = "close"]
    /\ UNCHANGED <<backup, wedit, option_save_mode, history>>

(* The two halves of the buffer are written; a short count is seen after   *)
(* the file is closed.                                                     *)
SaveWrite ==
    /\ save.step = "write"
    /\ \E content \in {buffer} \cup (IF MayFail("write") THEN {Partial} ELSE {}) :
          /\ Written(content)
          /\ save' = [save EXCEPT !.step = IF content = buffer THEN "close" ELSE "short"]
    /\ UNCHANGED <<backup, wedit, option_save_mode, history>>

SaveShort ==
    /\ save.step = "short"
    /\ SaveFails
    /\ UNCHANGED <<disk, backup, option_save_mode, existed, quick, discarded>>

Continues(step) ==
    save' = [save EXCEPT !.step = step] /\ UNCHANGED <<wedit, spoilt>>

(* The result of close is not looked at, although the text of a remote     *)
(* file is sent there, and a full disk may be reported there.              *)
SaveClose ==
    /\ save.step = "close"
    /\ UNCHANGED <<disk, temp>> \/ (MayFail("close") /\ Written(Partial))
    /\ CASE save.mode = 0 -> SaveSucceeds
         [] save.mode = 1 -> Continues("rename")
         [] save.mode = 2 -> Continues("backup")
    /\ UNCHANGED <<backup, option_save_mode, existed, quick, discarded>>

SaveBackup ==
    /\ save.step = "backup"
    /\ \/ /\ backup' = [backup EXCEPT ![save.name] = disk[save.name]]
          /\ disk' = [disk EXCEPT ![save.name] = None]
          /\ Continues("rename") /\ UNCHANGED temp
       \/ MayFail("rename") /\ SaveFails /\ UNCHANGED <<disk, backup>>
    /\ UNCHANGED <<option_save_mode, existed, quick, discarded>>

SaveRename ==
    /\ save.step = "rename"
    /\ \/ /\ disk' = [disk EXCEPT ![save.name] = temp]
          /\ SaveSucceeds /\ temp' = None
       \/ MayFail("rename") /\ SaveFails /\ UNCHANGED disk
    /\ UNCHANGED <<backup, option_save_mode, existed, quick, discarded>>

edit_save_cmd ==
    /\ IsIdle
    /\ StartSave(filename, FALSE, FALSE)
    /\ UNCHANGED <<files, wedit, option_save_mode, history>>

(* The dialog: a name, or nothing, as when the file exists and the user    *)
(* does not want to overwrite it.                                          *)
edit_save_as_cmd ==
    /\ IsIdle \/ save.step = "name"
    /\ \/ \E f \in Files : StartSave(f, save.quits, TRUE)
       \/ save' = Idle
    /\ UNCHANGED <<files, wedit, option_save_mode, history>>

-----------------------------------------------------------------------------
(* edit_quit_cmd: a modified text is saved, or given up, or the editor     *)
(* stays; a file that the editor created and did not save is deleted.      *)

Unlink(f) == disk' = [disk EXCEPT ![f] = None]

QuitNow ==
    /\ save' = [Idle EXCEPT !.step = "quit"]
    /\ IF delete_file THEN Unlink(filename) ELSE disk' = disk
    /\ UNCHANGED <<backup, temp, wedit, option_save_mode, existed, quick, spoilt>>

QuitUnmodified == IsIdle /\ ~modified /\ QuitNow /\ UNCHANGED discarded
QuitDiscards == IsIdle /\ modified /\ QuitNow /\ discarded' = TRUE
QuitSaves ==
    /\ IsIdle /\ modified
    /\ StartSave(filename, TRUE, FALSE)
    /\ UNCHANGED <<files, wedit, option_save_mode, history>>

(* The program is killed.                                                  *)
Kill ==
    /\ save.step \notin {"quit", "killed"}
    /\ save' = [Idle EXCEPT !.step = "killed"]
    /\ UNCHANGED <<disk, backup, temp, wedit, option_save_mode, history>>

SaveStep == SaveOpen \/ SaveWrite \/ SaveShort \/ SaveClose \/ SaveBackup \/ SaveRename

Next == \/ Edit \/ menu_save_mode_cmd \/ edit_new_cmd \/ edit_load_cmd
        \/ edit_save_cmd \/ edit_save_as_cmd \/ SaveStep
        \/ QuitUnmodified \/ QuitDiscards \/ QuitSaves
        \/ Kill

Spec == Init /\ [][Next]_vars

-----------------------------------------------------------------------------
(* Properties *)

Save == [step : {"idle", "open", "write", "short", "close", "backup", "rename",
                 "name", "quit", "killed"},
         mode : 0..2, name : Files \cup {NoName}, quits : BOOLEAN, as : BOOLEAN]

(* The fields keep to their values.                                        *)
TypeOK ==
    /\ disk \in [Files -> Contents \cup {None, Partial}]
    /\ backup \in [Files -> Contents \cup {None, Partial}]
    /\ temp \in Contents \cup {None, Partial}
    /\ buffer \in Contents
    /\ filename \in Files \cup {NoName}
    /\ modified \in BOOLEAN /\ delete_file \in BOOLEAN
    /\ option_save_mode \in 0..2
    /\ save \in Save
    /\ existed \subseteq Files /\ quick \subseteq Files
    /\ spoilt \in BOOLEAN /\ discarded \in BOOLEAN

OnDisk == filename # NoName /\ disk[filename] = buffer

(* A text that the editor shows as unmodified, and the text of an editor   *)
(* that has closed without giving it up, is the content of its file,       *)
(* whatever failed before, under this name or another one: a save for      *)
(* quitting that fails, or whose second dialog is cancelled, brings the    *)
(* user back to the text.  Only an empty text may have no file.  The       *)
(* exception is the save of a text that was not modified: when it fails    *)
(* halfway, the text still counts as unmodified.                           *)
TextIsOnDisk ==
    ~spoilt =>
       /\ save.step = "idle" /\ ~modified => OnDisk \/ buffer = Empty
       /\ save.step = "quit" /\ ~discarded => OnDisk \/ (buffer = Empty /\ ~modified)

(* A file that was there, and was never saved quickly, is there whole      *)
(* after every step of every save, under its own name or, while the name   *)
(* is free, under the name of its backup, so also when the program is      *)
(* killed.                                                                 *)
SafeSaveKeeps ==
    \A f \in existed \ quick :
       IsWhole(disk[f]) \/ (disk[f] = None /\ IsWhole(backup[f]))

(* A safe save touches the file only to put the whole new text in its      *)
(* place, a save with backups also to rename it to its backup.             *)
SafeSaveReplaces ==
    [][\A f \in Files :
         /\ save.mode > 0 /\ disk'[f] # disk[f]
         /\ save.step = "open" => save'.mode > 0
         => /\ f = save.name
            /\ \/ disk'[f] = buffer
               \/ save.mode = 2 /\ disk'[f] = None /\ backup'[f] = disk[f]]_vars

(* Closing deletes only what the editor created and never saved: not a     *)
(* file that was there, nor one whose save succeeded.                      *)
DeletesOnlyUnsaved ==
    [][\A f \in Files :
         save'.step = "quit" /\ disk[f] # None /\ disk'[f] = None
         => f \notin existed /\ disk[f] \in {Empty, Partial}]_vars

=============================================================================
