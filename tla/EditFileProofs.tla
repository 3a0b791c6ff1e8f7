--------------------------- MODULE EditFileProofs ---------------------------
(***************************************************************************)
(* The editor's saves, for any files, texts and failing calls: a file that *)
(* is saved safely is always there whole, a text that counts as saved is   *)
(* in its file, and only what was never saved is deleted.                  *)
(***************************************************************************)
EXTENDS EditFile, TLAPS

(* The results of close and of read are not looked at: what follows from   *)
(* them is in the README.                                                  *)
Reliable == Faults \cap {"close", "read"} = {}

Writing == {"write", "short", "close", "backup", "rename"}
Complete == {"close", "backup", "rename"}

(* The save that runs writes a file, its own unless the user named it, in  *)
(* the mode that its steps belong to.                                      *)
Place ==
    /\ save.step \in Writing => save.name \in Files
    /\ save.step \in Writing \cup {"open"} /\ ~save.as => save.name = filename
    /\ save.step = "backup" => save.mode = 2
    /\ save.step = "rename" => save.mode > 0

(* The whole text has been written before anything is renamed.             *)
Prepared ==
    /\ save.step \in Complete /\ save.mode > 0 => temp = buffer
    /\ save.step = "close" /\ save.mode = 0 => disk[save.name] = buffer

(* The file itself is written by quick saves only, and is there until its  *)
(* backup takes its place.                                                 *)
Untouched ==
    /\ save.step \in Writing /\ save.mode = 0 => save.name \in quick
    /\ save.step \in Writing \ {"rename"} /\ save.mode > 0
       => disk[save.name] # None

(* What is marked for deletion is a file that the editor created, with     *)
(* nothing in it that was saved.                                           *)
Created ==
    delete_file =>
        /\ filename \in Files \ existed
        /\ ~modified => buffer = Empty
        /\ \/ save.step = "killed"
           \/ save.step = "close" /\ save.mode = 0
           \/ disk[filename] \in {Empty, Partial, None}

(* An unmodified text is in its file, also while it is saved elsewhere.    *)
Unmodified ==
    /\ ~spoilt /\ ~modified
    /\ \/ save.step \in {"idle", "open", "name"}
       \/ save.step \in Writing /\ save.name # filename
    => OnDisk \/ buffer = Empty

(* Invariant and inductive.                                                *)
Rest == /\ Place /\ Prepared /\ Untouched /\ Created /\ Unmodified
        /\ SafeSaveKeeps /\ TextIsOnDisk

IInv == TypeOK /\ Rest

USE EditFileAssumption DEF files, wedit, history, vars,
                           Empty, None, Partial, NoName

-----------------------------------------------------------------------------
(* Types.                                                                  *)

LEMMA ContentsDiffer ==
    /\ Contents \cap {None, Partial} = {}
    /\ Empty \in Contents
  BY DEF Contents

Steps == {"idle", "open", "write", "short", "close", "backup", "rename",
          "name", "quit", "killed"}

LEMMA IdleType == Idle \in Save
  BY DEF Idle, Save

LEMMA StepType ==
    ASSUME NEW s \in Save, NEW step \in Steps
    PROVE  [s EXCEPT !.step = step] \in Save
  BY DEF Save, Steps

LEMMA OpenType ==
    ASSUME NEW s \in Save, NEW mode \in 0..2
    PROVE  [s EXCEPT !.step = "write", !.mode = mode] \in Save
  BY DEF Save

LEMMA InitTypes == Init => TypeOK
<1> SUFFICES ASSUME Init PROVE TypeOK
  OBVIOUS
<1>1. PICK f \in Files, there \in SUBSET Files :
         /\ existed = there
         /\ disk \in [Files -> Contents \cup {None}]
         /\ disk[f] \in Contents
         /\ Loads(f, disk[f]) /\ delete_file = (f \notin there)
  BY ContentsDiffer DEF Init, Contents
<1>2. /\ backup \in [Files -> Contents \cup {None, Partial}]
      /\ disk \in [Files -> Contents \cup {None, Partial}]
  BY <1>1 DEF Init
<1>3. QED
  BY <1>1, <1>2, IdleType DEF Init, Loads, TypeOK

LEMMA FailingTypes ==
    ASSUME TypeOK, SaveFails
    PROVE  /\ temp' = None /\ save' \in Save /\ spoilt' \in BOOLEAN
           /\ UNCHANGED wedit
  BY IdleType, StepType DEF TypeOK, SaveFails, Steps

LEMMA SuccessTypes ==
    ASSUME TypeOK, SaveSucceeds, save.name \in Files
    PROVE  /\ filename' \in Files \cup {NoName} /\ buffer' = buffer
           /\ modified' \in BOOLEAN /\ delete_file' \in BOOLEAN
           /\ save' \in Save /\ spoilt' \in BOOLEAN
  BY IdleType, StepType DEF TypeOK, SaveSucceeds, Steps

LEMMA WrittenTypes ==
    ASSUME TypeOK, NEW content \in Contents \cup {Partial}, Written(content)
    PROVE  /\ disk' \in [Files -> Contents \cup {None, Partial}]
           /\ temp' \in Contents \cup {None, Partial}
  BY DEF TypeOK, Written

(* What SaveOpen does when the file, or the temporary one, is opened.      *)
Opened ==
    /\ save.name \in Files
    /\ save' \in Save
    /\ save'.step = "write" /\ save'.name = save.name /\ save'.as = save.as
    /\ \/ /\ save'.mode = 0
          /\ disk' = [disk EXCEPT ![save.name] = Empty]
          /\ quick' = quick \cup {save.name} /\ temp' = temp
       \/ /\ save'.mode = save.mode /\ save.mode > 0 /\ disk[save.name] # None
          /\ temp' = Empty /\ UNCHANGED <<disk, quick>>
    /\ UNCHANGED <<wedit, spoilt>>

LEMMA Opening ==
    ASSUME TypeOK, SaveOpen
    PROVE  (SaveFails /\ UNCHANGED <<disk, quick>>) \/ Opened
<1> DEFINE there == save.name # NoName /\ disk[save.name] # None
           mode(writable) == IF there /\ writable THEN save.mode ELSE 0
<1>1. PICK writable \in BOOLEAN, opens \in BOOLEAN :
         /\ save.name = NoName => ~opens
         /\ IF ~opens THEN SaveFails /\ UNCHANGED <<disk, quick>>
            ELSE /\ save' = [save EXCEPT !.step = "write",
                                        !.mode = mode(writable)]
                 /\ IF mode(writable) = 0
                    THEN /\ disk' = [disk EXCEPT ![save.name] = Empty]
                         /\ quick' = quick \cup {save.name}
                         /\ temp' = temp
                    ELSE temp' = Empty /\ UNCHANGED <<disk, quick>>
                 /\ UNCHANGED <<wedit, spoilt>>
  BY DEF SaveOpen
<1>2. CASE ~opens
  BY <1>1, <1>2
<1>3. CASE opens
  <2> DEFINE m == mode(writable)
  <2>1. /\ save \in Save /\ save.name \in Files
        /\ save.mode \in 0..2 /\ m \in 0..2
    BY <1>1, <1>3 DEF TypeOK, Save
  <2>2. save' = [save EXCEPT !.step = "write", !.mode = m]
    BY <1>1, <1>3
  <2>3. save' \in Save
    BY <2>1, <2>2, OpenType
  <2> HIDE DEF m
  <2>4. /\ save'.step = "write" /\ save'.name = save.name /\ save'.as = save.as
        /\ save'.mode = m
    BY <2>1, <2>2 DEF Save
  <2> USE DEF m
  <2>5. m # 0 => m = save.mode /\ save.mode > 0 /\ disk[save.name] # None
    BY <2>1
  <2>6. QED
    BY <1>1, <1>3, <2>1, <2>3, <2>4, <2>5 DEF Opened
<1>4. QED
  BY <1>2, <1>3

LEMMA Closing ==
    ASSUME TypeOK, SaveClose
    PROVE  \/ save.mode = 0 /\ SaveSucceeds
           \/ save.mode = 1 /\ Continues("rename")
           \/ save.mode = 2 /\ Continues("backup")
<1>1. save.mode = 0 \/ save.mode = 1 \/ save.mode = 2
  BY DEF TypeOK, Save
<1>2. QED
  BY <1>1, Zenon DEF SaveClose

LEMMA NextTypes ==
    ASSUME TypeOK, Place, [Next]_vars
    PROVE  TypeOK'
<1>1. CASE Edit
  BY <1>1 DEF Edit, TypeOK
<1>2. CASE menu_save_mode_cmd
  BY <1>2 DEF menu_save_mode_cmd, TypeOK
<1>3. CASE edit_new_cmd
  BY <1>3, ContentsDiffer DEF edit_new_cmd, TypeOK
<1>4. CASE edit_load_cmd
  BY <1>4, IdleType, StepType DEF edit_load_cmd, TypeOK, IsWhole, Steps
<1>5. CASE edit_save_cmd
  BY <1>5 DEF edit_save_cmd, StartSave, TypeOK, Save
<1>6. CASE edit_save_as_cmd
  <2>1. save' \in Save
    <3>1. CASE save' = Idle
      BY <3>1, IdleType
    <3>2. CASE \E f \in Files : StartSave(f, save.quits, TRUE)
      BY <3>2 DEF StartSave, TypeOK, Save
    <3>3. QED
      BY <1>6, <3>1, <3>2 DEF edit_save_as_cmd
  <2>2. QED
    BY <1>6, <2>1 DEF edit_save_as_cmd, TypeOK
<1>7. CASE SaveOpen
  <2>1. UNCHANGED <<backup, option_save_mode, existed, discarded>>
    BY <1>7 DEF SaveOpen
  <2>2. CASE SaveFails /\ UNCHANGED <<disk, quick>>
    BY <2>1, <2>2, FailingTypes DEF TypeOK
  <2>3. CASE Opened
    BY <2>1, <2>3, ContentsDiffer DEF Opened, TypeOK
  <2>4. QED
    BY <1>7, <2>2, <2>3, Opening
<1>8. CASE SaveWrite
  BY <1>8, WrittenTypes DEF SaveWrite, TypeOK, Save
<1>9. CASE SaveShort
  BY <1>9, FailingTypes DEF SaveShort, TypeOK
<1>10. CASE SaveClose
  <2>1. save.name \in Files /\ save.mode \in 0..2
    BY <1>10 DEF SaveClose, Place, Writing, TypeOK, Save
  <2>2. /\ disk' \in [Files -> Contents \cup {None, Partial}]
        /\ temp' \in Contents \cup {None, Partial}
    BY <1>10, WrittenTypes DEF SaveClose, TypeOK
  <2>3. QED
    BY ZenonT(60), <1>10, <2>1, <2>2, Closing, SuccessTypes, StepType
       DEF SaveClose, Continues, TypeOK, Steps
<1>11. CASE SaveBackup
  BY <1>11, FailingTypes DEF SaveBackup, Continues, TypeOK, Save
<1>12. CASE SaveRename
  BY <1>12, FailingTypes, SuccessTypes, ContentsDiffer
     DEF SaveRename, TypeOK, Save, Place, Writing
<1>13. CASE QuitUnmodified \/ QuitDiscards
  BY <1>13, IdleType, StepType
     DEF QuitUnmodified, QuitDiscards, QuitNow, Unlink, TypeOK, Steps
<1>14. CASE QuitSaves
  BY <1>14 DEF QuitSaves, StartSave, TypeOK, Save
<1>15. CASE Kill
  BY <1>15, IdleType, StepType DEF Kill, TypeOK, Steps
<1>16. CASE UNCHANGED vars
  BY <1>16 DEF TypeOK
<1>17. QED
  BY <1>1, <1>2, <1>3, <1>4, <1>5, <1>6, <1>7, <1>8, <1>9, <1>10, <1>11,
     <1>12, <1>13, <1>14, <1>15, <1>16 DEF Next, SaveStep

-----------------------------------------------------------------------------
(* What the steps of a save do, field by field.                            *)

LEMMA Stepped ==
    ASSUME save \in Save, NEW step \in Steps,
           save' = [save EXCEPT !.step = step]
    PROVE  /\ save'.step = step /\ save'.name = save.name
           /\ save'.mode = save.mode /\ save'.as = save.as
  BY DEF Save

LEMMA Continuing ==
    ASSUME TypeOK, NEW step \in Steps, Continues(step)
    PROVE  /\ save'.step = step /\ save'.name = save.name
           /\ save'.mode = save.mode /\ save'.as = save.as
           /\ UNCHANGED <<wedit, spoilt>>
  BY Stepped DEF Continues, TypeOK

LEMMA Idles == Idle.step = "idle" /\ Idle.mode = 0 /\ Idle.name = NoName
  BY DEF Idle

LEMMA Failing ==
    ASSUME TypeOK, SaveFails
    PROVE  /\ save'.step \in {"idle", "name"}
           /\ spoilt' = (spoilt \/ (~modified /\ save.name = filename))
           /\ UNCHANGED wedit
<1>1. save \in Save
  BY DEF TypeOK
<1>2. CASE save' = Idle
  BY <1>2, Idles DEF SaveFails
<1>3. CASE save' = [save EXCEPT !.step = "name"]
  BY <1>1, <1>3, Stepped DEF SaveFails, Steps
<1>4. QED
  BY <1>2, <1>3 DEF SaveFails

LEMMA Succeeding ==
    ASSUME TypeOK, Place, SaveSucceeds, save.step \in Complete
    PROVE  /\ save'.step \in {"idle", "quit"}
           /\ filename' = save.name /\ save.name \in Files /\ buffer' = buffer
           /\ modified' = FALSE /\ delete_file' = FALSE /\ spoilt' = FALSE
<1>1. save \in Save
  BY DEF TypeOK
<1>2. save'.step \in {"idle", "quit"}
  <2>1. CASE save' = Idle
    BY <2>1, Idles
  <2>2. CASE save' = [save EXCEPT !.step = "quit"]
    BY <1>1, <2>2, Stepped DEF Steps
  <2>3. QED
    BY <2>1, <2>2 DEF SaveSucceeds
<1>3. save.name \in Files /\ (~save.as => save.name = filename)
  BY DEF Place, Complete, Writing
<1>4. QED
  BY <1>2, <1>3 DEF SaveSucceeds

-----------------------------------------------------------------------------
(* The invariant is inductive.                                             *)

LEMMA InitRest == Init => Rest
<1> SUFFICES ASSUME Init PROVE Rest
  OBVIOUS
<1>1. PICK f \in Files, there \in SUBSET Files :
         /\ existed = there
         /\ \A g \in Files : IF g \in there THEN disk[g] \in Texts
                             ELSE disk[g] = IF g = f THEN Empty ELSE None
         /\ Loads(f, disk[f]) /\ delete_file = (f \notin there)
  BY DEF Init
<1>2. filename = f /\ buffer = disk[f] /\ ~modified
  BY <1>1 DEF Loads
<1>3. save.step = "idle" /\ save.name = NoName /\ save.mode = 0 /\ ~spoilt
  BY Idles DEF Init
<1>4. Place /\ Prepared /\ Untouched
  BY <1>3 DEF Place, Prepared, Untouched, Writing, Complete, Init, Idle
<1>5. Created
  BY <1>1, <1>2 DEF Created
<1>6. OnDisk
  BY <1>2 DEF OnDisk
<1>7. SafeSaveKeeps
  BY <1>1 DEF SafeSaveKeeps, IsWhole, Contents
<1>8. QED
  BY <1>3, <1>4, <1>5, <1>6, <1>7 DEF Rest, Unmodified, TextIsOnDisk

LEMMA UserSteps ==
    ASSUME Reliable, TypeOK, Rest,
           Edit \/ menu_save_mode_cmd \/ edit_new_cmd \/ edit_load_cmd
           \/ edit_save_cmd \/ edit_save_as_cmd
           \/ QuitUnmodified \/ QuitDiscards \/ QuitSaves \/ Kill
    PROVE  Rest'
<1> USE DEF Rest, IsIdle, Idle, Place, Prepared, Untouched, Created,
            Unmodified, SafeSaveKeeps, TextIsOnDisk, OnDisk, IsWhole, Contents,
            Writing, Complete, TypeOK
<1>1. CASE Edit
  BY <1>1, Idles DEF Edit
<1>2. CASE menu_save_mode_cmd
  BY <1>2, Idles DEF menu_save_mode_cmd
<1>3. CASE edit_new_cmd
  BY <1>3, Idles DEF edit_new_cmd
<1>4. CASE edit_load_cmd
  BY <1>4, Idles DEF edit_load_cmd, MayFail, Reliable
<1>5. CASE edit_save_cmd
  BY <1>5, Idles DEF edit_save_cmd, StartSave
<1>6. CASE edit_save_as_cmd
  BY <1>6, Idles DEF edit_save_as_cmd, StartSave
<1>7. CASE QuitUnmodified
  BY <1>7, Idles DEF QuitUnmodified, QuitNow, Unlink
<1>8. CASE QuitDiscards
  BY <1>8, Idles DEF QuitDiscards, QuitNow, Unlink
<1>9. CASE QuitSaves
  BY <1>9, Idles DEF QuitSaves, StartSave
<1>10. CASE Kill
  BY <1>10, Idles DEF Kill
<1>11. QED
  BY <1>1, <1>2, <1>3, <1>4, <1>5, <1>6, <1>7, <1>8, <1>9, <1>10

LEMMA FailingKeeps ==
    ASSUME TypeOK, Rest, SaveFails,
           save.step \in {"short", "backup", "rename"},
           UNCHANGED <<disk, backup, existed, quick, discarded>>
    PROVE  Rest'
<1>1. save'.step \in {"idle", "name"} /\ UNCHANGED wedit
  BY Failing
<1>2. ~spoilt' => ~spoilt /\ (modified \/ save.name # filename)
  BY Failing
<1>3. Place' /\ Prepared' /\ Untouched'
  BY <1>1 DEF Place, Prepared, Untouched, Writing, Complete
<1>4. Created'
  BY <1>1 DEF Rest, Created
<1>5. Unmodified'
  BY <1>1, <1>2 DEF Rest, Unmodified, Writing, OnDisk
<1>6. SafeSaveKeeps'
  BY DEF Rest, SafeSaveKeeps
<1>7. TextIsOnDisk'
  BY <1>1, <1>2 DEF Rest, Unmodified, Writing, OnDisk, TextIsOnDisk
<1>8. QED
  BY <1>3, <1>4, <1>5, <1>6, <1>7 DEF Rest

LEMMA SaveSteps ==
    ASSUME Reliable, TypeOK, Rest, SaveStep
    PROVE  Rest'
<1> USE DEF Rest, Place, Prepared, Untouched, Created, Unmodified,
            SafeSaveKeeps, TextIsOnDisk, OnDisk, IsWhole, Contents, Writing,
            Complete, TypeOK
<1>1. save \in Save
  BY DEF TypeOK
<1>2. CASE SaveOpen
  <2>1. save.step = "open" /\ UNCHANGED <<backup, existed, discarded>>
    BY <1>2 DEF SaveOpen
  <2>2. CASE SaveFails /\ UNCHANGED <<disk, quick>>
    BY <2>1, <2>2, Failing
  <2>3. CASE Opened
    BY <2>1, <2>3 DEF Opened
  <2>4. QED
    BY <1>2, <2>2, <2>3, Opening
<1>3. CASE SaveWrite
  BY <1>1, <1>3, Stepped DEF SaveWrite, Written, Steps
<1>4. CASE SaveShort
  <2>1. /\ SaveFails /\ save.step = "short"
        /\ UNCHANGED <<disk, backup, existed, quick, discarded>>
    BY <1>4 DEF SaveShort
  <2>2. QED
    BY <2>1, FailingKeeps
<1>5. CASE SaveClose
  <2>1. /\ save.step = "close"
        /\ UNCHANGED <<disk, temp, backup, existed, quick, discarded>>
    BY <1>5 DEF SaveClose, MayFail, Reliable
  <2>2. CASE save.mode = 0 /\ SaveSucceeds
    BY ZenonT(60), <2>1, <2>2, Succeeding
  <2>3. CASE save.mode = 1 /\ Continues("rename")
    BY <2>1, <2>3, Continuing DEF Steps
  <2>4. CASE save.mode = 2 /\ Continues("backup")
    BY <2>1, <2>4, Continuing DEF Steps
  <2>5. QED
    BY <1>5, <2>2, <2>3, <2>4, Closing
<1>6. CASE SaveBackup
  <2>1. /\ save.step = "backup" /\ save.mode = 2
        /\ UNCHANGED <<existed, quick, discarded>>
    BY <1>6 DEF SaveBackup, Place
  <2>2. CASE SaveFails /\ UNCHANGED <<disk, backup>>
    BY <2>1, <2>2, FailingKeeps
  <2>3. CASE /\ backup' = [backup EXCEPT ![save.name] = disk[save.name]]
             /\ disk' = [disk EXCEPT ![save.name] = None]
             /\ Continues("rename") /\ UNCHANGED temp
    BY <2>1, <2>3, Continuing DEF Steps
  <2>4. QED
    BY <1>6, <2>2, <2>3 DEF SaveBackup
<1>7. CASE SaveRename
  <2>1. /\ save.step = "rename" /\ save.mode > 0
        /\ UNCHANGED <<backup, existed, quick, discarded>>
    BY <1>7 DEF SaveRename, Place
  <2>2. CASE SaveFails /\ UNCHANGED disk
    BY <2>1, <2>2, FailingKeeps
  <2>3. CASE SaveSucceeds /\ disk' = [disk EXCEPT ![save.name] = temp]
    <3>1. /\ save'.step \in {"idle", "quit"} /\ filename' = save.name
          /\ buffer' = buffer /\ ~delete_file' /\ save.name \in Files
      BY <2>1, <2>3, Succeeding DEF Complete
    <3>2. disk' = [disk EXCEPT ![save.name] = buffer] /\ buffer \in Contents
      BY <2>1, <2>3 DEF Prepared, Complete, TypeOK
    <3>3. OnDisk'
      BY <3>1, <3>2 DEF OnDisk, TypeOK
    <3>4. SafeSaveKeeps'
      BY <2>1, <3>2 DEF SafeSaveKeeps, IsWhole, TypeOK
    <3>5. QED
      BY <3>1, <3>3, <3>4
         DEF Place, Prepared, Untouched, Created, Unmodified, TextIsOnDisk,
             Writing, Complete
  <2>4. QED
    BY <1>7, <2>2, <2>3 DEF SaveRename
<1>8. QED
  BY <1>2, <1>3, <1>4, <1>5, <1>6, <1>7 DEF SaveStep

LEMMA StutterKeeps ==
    ASSUME Rest, UNCHANGED vars
    PROVE  Rest'
  BY DEF Rest, Place, Prepared, Untouched, Created, Unmodified, SafeSaveKeeps,
         TextIsOnDisk, OnDisk

LEMMA NextKeeps ==
    ASSUME Reliable, IInv, [Next]_vars
    PROVE  IInv'
<1>1. TypeOK'
  BY NextTypes DEF IInv, Rest
<1>2. Rest'
  BY UserSteps, SaveSteps, StutterKeeps DEF IInv, Next
<1>3. QED
  BY <1>1, <1>2 DEF IInv

LEMMA Invariance ==
    ASSUME Reliable
    PROVE  Spec => []IInv
<1>1. Init => IInv
  BY InitTypes, InitRest DEF IInv
<1>2. IInv /\ [Next]_vars => IInv'
  BY NextKeeps
<1>3. QED
  BY <1>1, <1>2, PTL DEF Spec

-----------------------------------------------------------------------------
(* The theorems.                                                           *)

(* Every variable keeps to its values.                                     *)
THEOREM TypeCorrectness ==
    ASSUME Reliable
    PROVE  Spec => []TypeOK
<1>1. IInv => TypeOK
  BY DEF IInv
<1>2. QED
  BY <1>1, Invariance, PTL

(* What the editor shows as unmodified, and what it closes with, is the    *)
(* content of the file, whatever calls failed before.                      *)
THEOREM SavedIsOnDisk ==
    ASSUME Reliable
    PROVE  Spec => []TextIsOnDisk
<1>1. IInv => TextIsOnDisk
  BY DEF IInv, Rest
<1>2. QED
  BY <1>1, Invariance, PTL

(* A file that was never saved quickly is there whole after every step of  *)
(* every save, under its own name or its backup's.                         *)
THEOREM NeverLost ==
    ASSUME Reliable
    PROVE  Spec => []SafeSaveKeeps
<1>1. IInv => SafeSaveKeeps
  BY DEF IInv, Rest
<1>2. QED
  BY <1>1, Invariance, PTL

(* A safe save puts the whole new text in the place of the file at once.   *)
THEOREM ReplacedAtOnce ==
    ASSUME Reliable
    PROVE  Spec => SafeSaveReplaces
<1> DEFINE Replaces ==
      \A f \in Files :
         /\ save.mode > 0 /\ disk'[f] # disk[f]
         /\ save.step = "open" => save'.mode > 0
         => /\ f = save.name
            /\ \/ disk'[f] = buffer
               \/ save.mode = 2 /\ disk'[f] = None /\ backup'[f] = disk[f]
<1>1. ASSUME IInv, [Next]_vars PROVE [Replaces]_vars
  <2>1. CASE UNCHANGED disk
    BY <2>1
  <2>2. CASE SaveOpen
    <3>1. save.step = "open"
      BY <2>2 DEF SaveOpen
    <3>2. UNCHANGED disk \/ save'.mode = 0
      BY <1>1, <2>2, Opening DEF IInv, Opened
    <3>3. QED
      BY <3>1, <3>2
  <2>3. CASE SaveWrite
    BY <2>3 DEF SaveWrite, Written
  <2>4. CASE SaveClose
    BY <2>4 DEF SaveClose, MayFail, Reliable
  <2>5. CASE SaveBackup
    BY <1>1, <2>5 DEF SaveBackup, IInv, Rest, Place, TypeOK
  <2>6. CASE SaveRename
    BY <1>1, <2>6 DEF SaveRename, IInv, Rest, Prepared, Complete, TypeOK
  <2>7. CASE QuitUnmodified \/ QuitDiscards
    BY <2>7, Idles DEF QuitUnmodified, QuitDiscards, IsIdle
  <2>8. QED
    BY <1>1, <2>1, <2>2, <2>3, <2>4, <2>5, <2>6, <2>7
       DEF Next, SaveStep, Edit, menu_save_mode_cmd, edit_new_cmd,
           edit_load_cmd, edit_save_cmd, edit_save_as_cmd, SaveShort,
           QuitSaves, Kill
<1>2. QED
  BY <1>1, Invariance, PTL DEF Spec, SafeSaveReplaces

(* Closing the editor deletes a file only when the editor created it and   *)
(* nothing was saved in it.                                                *)
THEOREM DeletesOnlyItsOwn ==
    ASSUME Reliable
    PROVE  Spec => DeletesOnlyUnsaved
<1> DEFINE Deletes ==
      \A f \in Files :
         save'.step = "quit" /\ disk[f] # None /\ disk'[f] = None
         => f \notin existed /\ disk[f] \in {Empty, Partial}
<1>1. ASSUME IInv, [Next]_vars PROVE [Deletes]_vars
  <2>1. CASE UNCHANGED disk
    BY <2>1
  <2>2. CASE SaveOpen
    BY <1>1, <2>2, Opening DEF IInv, Opened, TypeOK
  <2>3. CASE SaveWrite
    BY <1>1, <2>3, ContentsDiffer
       DEF SaveWrite, Written, IInv, TypeOK
  <2>4. CASE SaveClose
    BY <2>4 DEF SaveClose, MayFail, Reliable
  <2>5. CASE SaveBackup
    BY <1>1, <2>5, Failing, Continuing DEF SaveBackup, IInv, Steps
  <2>6. CASE SaveRename
    BY <1>1, <2>6, ContentsDiffer
       DEF SaveRename, IInv, Rest, Prepared, Place, Complete, TypeOK
  <2>7. CASE QuitUnmodified \/ QuitDiscards
    BY <1>1, <2>7, Idles
       DEF QuitUnmodified, QuitDiscards, QuitNow, Unlink, IsIdle, IInv, Rest,
           Created, TypeOK
  <2>8. QED
    BY <1>1, <2>1, <2>2, <2>3, <2>4, <2>5, <2>6, <2>7
       DEF Next, SaveStep, Edit, menu_save_mode_cmd, edit_new_cmd,
           edit_load_cmd, edit_save_cmd, edit_save_as_cmd, SaveShort,
           QuitSaves, Kill
<1>2. QED
  BY <1>1, Invariance, PTL DEF Spec, DeletesOnlyUnsaved

=============================================================================
