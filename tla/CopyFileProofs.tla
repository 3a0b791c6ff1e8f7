--------------------------- MODULE CopyFileProofs ---------------------------
(***************************************************************************)
(* Moving never loses data, for every number and size of files, every      *)
(* buffer size and every pattern of errors and answers.                    *)
(***************************************************************************)
EXTENDS CopyFile, TLAPS

MovePCs == {"move", "move_stat", "move_rename", "move_copied", "unlink"}
BeforeOpen == {"dst_stat", "src_stat", "copy_query", "by_kind"}
Opening == {"open_src", "reget", "fstat_src", "open_dst"}
SeenPCs == {"copy_query", "by_kind", "open_src", "reget", "fstat_src",
            "open_dst", "fstat_dst", "read", "write", "progress",
            "close_src", "close_dst", "finish"}
Transferring == {"fstat_dst", "read", "write", "progress"}
Tail == {"close_src", "close_dst", "finish", "chown", "chmod", "update"}
InCopy == SeenPCs \cup Tail \cup {"dst_stat", "src_stat"}

\* All of source file f has been put into its target.
Carried(f) ==
    /\ dst[f].there /\ dst[f].from = 0 /\ dst[f].upto = size[f]
    /\ ~ShortWrites => dst[f].good

\* A file is being worked on, and by the operation the place belongs to.
Place ==
    /\ pc # "idle" => op # "none"
    /\ pc \notin {"idle", "next"} => cur \in Files
    /\ pc \in MovePCs => op = "move"
    /\ pc \in SeenPCs \cup {"move_rename"} => present[cur]

\* A target's source bytes are a range.
Ranges == \A f \in Files : dst[f].from <= dst[f].upto

\* While bytes are transferred the target holds what has been read, except
\* for what is still in the buffer.
Transfer ==
    /\ pc \in BeforeOpen \cup Opening => "dst" \notin resources
    /\ pc = "reget" => do_reget > 0
    /\ pc \in Transferring =>
         /\ {"short", "dst"} \subseteq resources
         /\ dst[cur].there
         /\ dst[cur].upto + (IF pc = "write" THEN n_read ELSE 0) = pos
         /\ ~ShortWrites => dst[cur].good
         /\ ~ShortWrites /\ pc = "write" => dst[cur].upto = buf
    /\ op = "move" /\ pc \in InCopy => do_reget = 0
    /\ op = "move" /\ pc \in {"fstat_src", "open_dst"} => pos = 0
    /\ op = "move" /\ pc \in Transferring => dst[cur].from = 0 /\ pos <= size[cur]

\* In a move, success means that the whole source was carried over.
Reported ==
    /\ op = "move" /\ pc \in BeforeOpen => return_status # "cont"
    /\ op = "move" /\ pc \in Tail =>
         \/ return_status \in StopAnswers
         \/ "dst" \in resources /\ "short" \notin resources
    /\ op = "move" /\ pc \in Tail
         /\ "dst" \in resources /\ "short" \notin resources => Carried(cur)
    /\ op = "move" /\ pc \in {"chown", "chmod"} =>
         "dst" \in resources /\ "short" \notin resources
    /\ pc = "move_copied" /\ return_status = "cont" => Carried(cur)
    /\ pc = "unlink" => Carried(cur)

NothingLost == \A f \in Files : ~present[f] => Carried(f)

IInv == TypeOK /\ Place /\ Ranges /\ Transfer /\ Reported /\ NothingLost
USE SizeAssumption DEF fixed, disk, panel, globals, xfer, ghost, Files, Content

-----------------------------------------------------------------------------
(* What the dialogs may do.                                                 *)

\* A Retry uses up one of the MaxRetry answers.
LEMMA AnotherAttempt ==
    ASSUME ControlOK, Again
    PROVE  budget' \in 0..MaxRetry /\ aborted' \in BOOLEAN /\ pc' = pc
<1>1. budget \in 0..MaxRetry /\ aborted \in BOOLEAN
  BY DEF ControlOK
<1>2. budget > 0 /\ budget' = budget - 1 /\ pc' = pc /\ aborted' = aborted
  BY DEF Again
<1>3. QED BY <1>1, <1>2

\* Skip and Abort lead to the label of the error exit.
LEMMA GivingUp ==
    ASSUME ControlOK, NEW label, NEW a, Stop(label, a)
    PROVE  /\ budget' \in 0..MaxRetry /\ aborted' \in BOOLEAN
           /\ pc' = label /\ a \in StopAnswers
  BY DEF ControlOK, Stop

\* file_error: another attempt, or out with Skip or Abort.
LEMMA ErrorDialog ==
    ASSUME ControlOK, NEW label, file_error(label)
    PROVE  /\ budget' \in 0..MaxRetry /\ aborted' \in BOOLEAN
           /\ \/ pc' = pc /\ return_status' = "retry"
              \/ pc' = label /\ return_status' \in StopAnswers
  BY AnotherAttempt, GivingUp DEF file_error

\* The errors after the transfer: another attempt, or on with Skip or Abort.
LEMMA LateErrorDialog ==
    ASSUME ControlOK, NEW label, TempError(label)
    PROVE  /\ budget' \in 0..MaxRetry /\ aborted' \in BOOLEAN
           /\ \/ pc' = pc /\ return_status' = return_status
              \/ pc' = label /\ return_status' \in StopAnswers
  BY AnotherAttempt, GivingUp DEF TempError

\* The progress window: on, or out with Skip or Abort.
LEMMA ProgressWindow ==
    ASSUME ControlOK, NEW go, NEW stop, check_buttons(go, stop)
    PROVE  /\ budget' \in 0..MaxRetry /\ aborted' \in BOOLEAN
           /\ \/ pc' = go /\ return_status' = "cont"
              \/ pc' = stop /\ return_status' \in StopAnswers
  BY DEF ControlOK, check_buttons, NoAnswer, Stop, StopAnswers

\* A progress window that is asked for Abort only.
LEMMA AbortWindow ==
    ASSUME ControlOK, NEW go, NEW stop, NEW s, check_abort(go, stop, s)
    PROVE  /\ budget' \in 0..MaxRetry /\ aborted' \in BOOLEAN
           /\ \/ pc' = go /\ return_status' = s
              \/ pc' = stop /\ return_status' = "abort"
  BY DEF ControlOK, check_abort, NoAnswer, Stop, StopAnswers

\* No dialog at all.
LEMMA NoDialog ==
    ASSUME ControlOK, NEW label, Goto(label)
    PROVE  /\ budget' \in 0..MaxRetry /\ aborted' \in BOOLEAN
           /\ pc' = label /\ return_status' = return_status
  BY DEF ControlOK, Goto, NoAnswer

\* The length of a target is a number.
LEMMA SizeIsNat ==
    ASSUME NEW c \in Content, c.from <= c.upto
    PROVE  SizeOf(c) \in Nat
  BY DEF SizeOf

\* The replace dialog: on with an answer, or out with Skip or Abort.
LEMMA ReplaceDialog ==
    ASSUME TypeOK, Ranges, cur \in Files, NEW go, NEW stop,
           query_replace(go, stop)
    PROVE  /\ budget' \in 0..MaxRetry /\ aborted' \in BOOLEAN
           /\ do_append' \in BOOLEAN /\ do_reget' \in Nat
           /\ replace_result' \in ThisTarget \cup AllTargets
           /\ decided' \in [Files -> {"none", "overwrite", "append", "reget"}]
           /\ \/ pc' = go /\ return_status' = "cont"
              \/ pc' = stop /\ return_status' \in StopAnswers
<1>. DEFINE Asked == IF replace_result \in AllTargets THEN {replace_result}
                                                      ELSE Offered(cur)
<1>1. PICK r \in Asked : \E v \in Verdict(r, cur) :
        /\ replace_result' = r
        /\ do_reget' = IF r = "reget" THEN SizeOf(dst[cur]) ELSE do_reget
        /\ do_append' = (do_append \/ r \in {"append", "reget"})
        /\ return_status' = v
        /\ aborted' = (aborted \/ v = "abort")
        /\ decided' = IF v = "cont" THEN [decided EXCEPT ![cur] = Decision(r)]
                                    ELSE decided
        /\ pc' = IF v = "cont" THEN go ELSE stop
        /\ UNCHANGED budget
  BY Zenon DEF query_replace
<1>2. r \in ThisTarget \cup AllTargets
  BY DEF Offered, ThisTarget, AllTargets
<1>3. Verdict(r, cur) \subseteq {"cont", "skip", "abort"}
  BY <1>2 DEF Verdict, ThisTarget, AllTargets
<1>4. Decision(r) \in {"none", "overwrite", "append", "reget"}
  BY DEF Decision
<1>5. do_reget' \in Nat
  BY <1>1, SizeIsNat DEF TypeOK, FilesOK, ControlOK, Ranges
<1>6. decided' \in [Files -> {"none", "overwrite", "append", "reget"}]
  BY <1>1, <1>4 DEF TypeOK, PanelOK
<1>7. /\ do_append' \in BOOLEAN
      /\ aborted' \in BOOLEAN
      /\ budget' \in 0..MaxRetry
  BY <1>1 DEF TypeOK, ControlOK
<1>8. \/ pc' = go /\ return_status' = "cont"
      \/ pc' = stop /\ return_status' \in StopAnswers
  BY <1>1, <1>3 DEF StopAnswers
<1>9. QED BY <1>1, <1>2, <1>5, <1>6, <1>7, <1>8

\* What is known of the files stays true while they are left alone.
LEMMA FilesFrame ==
    ASSUME IInv, UNCHANGED <<size, kind, obstacle, present, dst, base>>
    PROVE  FilesOK' /\ Ranges' /\ NothingLost'
  BY DEF IInv, TypeOK, FilesOK, Ranges, NothingLost, Carried

\* The same when the target of a source that is still there gets new contents.
LEMMA TargetFrame ==
    ASSUME IInv, cur \in Files, present[cur], NEW c \in Content, c.from <= c.upto,
           dst' = [dst EXCEPT ![cur] = c],
           UNCHANGED <<size, kind, obstacle, present, base>>
    PROVE  FilesOK' /\ Ranges' /\ NothingLost' /\ dst'[cur] = c
<1>1. FilesOK'
  BY DEF IInv, TypeOK, FilesOK
<1>2. \A f \in Files : dst'[f] = IF f = cur THEN c ELSE dst[f]
  BY DEF IInv, TypeOK, FilesOK
<1>3. Ranges'
  BY <1>2 DEF IInv, Ranges
<1>4. NothingLost'
  BY <1>2 DEF IInv, NothingLost, Carried
<1>5. QED BY <1>1, <1>2, <1>3, <1>4

\* Contents that the transfer puts into a target.
LEMMA EmptyTarget ==
    NoFile \in Content /\ NoFile.from <= NoFile.upto
  BY DEF NoFile

\* A target from before the operation.
LEMMA OldTarget ==
    ASSUME NEW n \in Nat
    PROVE  /\ OldFile(n) \in Content
           /\ OldFile(n).from = 0 /\ OldFile(n).upto = 0
  BY DEF OldFile

\* What a rename puts at the target's name.
LEMMA WholeSource ==
    ASSUME FilesOK, NEW f \in Files
    PROVE  /\ Source(f) \in Content
           /\ Source(f).there /\ Source(f).good
           /\ Source(f).from = 0 /\ Source(f).upto = size[f]
           /\ Source(f).from <= Source(f).upto
  BY DEF FilesOK, Source

\* What a write leaves in the target.
LEMMA StoredBytes ==
    ASSUME NEW c \in Content, NEW k \in Nat
    PROVE  /\ Stored(c, k) \in Content
           /\ Stored(c, k).from = c.from
           /\ Stored(c, k).upto = c.upto + k
           /\ Stored(c, k).there = c.there
           /\ c.upto = buf => Stored(c, k).good = c.good
<1>. DEFINE d == [c EXCEPT !.upto = @ + k]
<1>1. d \in Content
  OBVIOUS
<1>2. CASE c.upto = buf
  BY <1>1, <1>2, Stored(c, k) = d DEF Stored
<1>3. CASE c.upto # buf
  <2>1. [d EXCEPT !.good = FALSE] \in Content
    BY <1>1
  <2>2. Stored(c, k) = [d EXCEPT !.good = FALSE]
    BY <1>3 DEF Stored
  <2>3. QED BY <1>3, <2>1, <2>2
<1>4. QED BY <1>2, <1>3

-----------------------------------------------------------------------------
(* One lemma for each action: it keeps the inductive invariant.             *)
(* First panel_operate.                                                     *)

\* StartOperation keeps the inductive invariant.
LEMMA StartOperationStep == ASSUME IInv, StartOperation PROVE IInv'
<1>1. \A f \in Files :
         /\ SizeOf(dst[f]) \in Nat
         /\ OldFile(SizeOf(dst[f])) \in Content
         /\ OldFile(SizeOf(dst[f])).from = 0 /\ OldFile(SizeOf(dst[f])).upto = 0
  BY SizeIsNat, OldTarget DEF IInv, TypeOK, FilesOK, Ranges
<1>2. \A f \in Files :
         dst'[f] = IF marked[f] /\ present[f] /\ dst[f].there
                   THEN OldFile(SizeOf(dst[f])) ELSE dst[f]
  BY DEF StartOperation
<1>3. dst' \in [Files -> Content]
  BY <1>1 DEF StartOperation, IInv, TypeOK, FilesOK
<1>4. base' \in [Files -> Nat]
  BY SizeIsNat DEF StartOperation, IInv, TypeOK, FilesOK, Ranges
<1>5. FilesOK'
  BY <1>3, <1>4 DEF StartOperation, IInv, TypeOK, FilesOK
<1>6. Ranges'
  BY <1>1, <1>2 DEF IInv, Ranges
<1>7. NothingLost'
  BY <1>2 DEF StartOperation, IInv, NothingLost, Carried
<1>8. PanelOK'
  <2>1. ops' \in 0..MaxOps
    BY DEF StartOperation, IInv, TypeOK, PanelOK
  <2>2. op' \in {"copy", "move", "none"}
    BY DEF StartOperation
  <2>3. decided' \in [Files -> {"none", "overwrite", "append", "reget"}]
    BY DEF StartOperation
  <2>4. QED BY <2>1, <2>2, <2>3 DEF StartOperation, IInv, TypeOK, PanelOK
<1>9. ControlOK' /\ TransferOK'
  <2>1. budget' \in 0..MaxRetry
    BY DEF StartOperation
  <2>2. QED BY <2>1 DEF StartOperation, IInv, TypeOK, ControlOK, TransferOK, PCs
<1>10. Place'
  BY DEF StartOperation, Place, MovePCs, SeenPCs
<1>11. Transfer' /\ Reported'
  BY DEF StartOperation, Transfer, Reported, MovePCs, SeenPCs, Transferring,
     Tail, InCopy, BeforeOpen, Opening
<1>12. QED BY <1>5, <1>6, <1>7, <1>8, <1>9, <1>10, <1>11 DEF IInv, TypeOK

\* Idle keeps the inductive invariant.
LEMMA IdleStep == ASSUME IInv, Idle PROVE IInv'
<1>1. FilesOK' /\ Ranges' /\ NothingLost'
  BY FilesFrame DEF Idle, vars
<1>2. PanelOK' /\ ControlOK' /\ TransferOK'
  BY DEF IInv, TypeOK, PanelOK, ControlOK, TransferOK, Place, PCs, Status,
         StopAnswers, Idle, vars
<1>3. Place' /\ Transfer' /\ Reported'
  BY DEF IInv, TypeOK, PanelOK, Place, Transfer, Reported, Carried, MovePCs,
         SeenPCs, Transferring, Tail, InCopy, BeforeOpen, Opening, Idle, vars
<1>4. QED BY <1>1, <1>2, <1>3 DEF IInv, TypeOK

\* NextFile keeps the inductive invariant.
LEMMA NextFileStep == ASSUME IInv, NextFile PROVE IInv'
<1>1. FilesOK' /\ Ranges' /\ NothingLost'
  BY FilesFrame DEF NextFile
<1>2. cur' \in Files
  BY DEF NextFile, Later
<1>3. PanelOK'
  BY <1>2 DEF NextFile, IInv, TypeOK, PanelOK
<1>4. ControlOK' /\ TransferOK'
  BY NoDialog DEF NextFile, IInv, TypeOK, ControlOK, TransferOK, PCs
<1>5. op # "none"
  BY DEF NextFile, IInv, Place
<1>6. Place'
  BY <1>2, <1>5 DEF NextFile, Goto, IInv, TypeOK, PanelOK, Place, MovePCs,
     SeenPCs
<1>7. Transfer'
  BY DEF NextFile, Goto, Transfer, SeenPCs, Transferring, Tail, InCopy,
     BeforeOpen, Opening
<1>8. Reported'
  BY DEF NextFile, Goto, Reported, Tail, BeforeOpen
<1>9. QED BY <1>1, <1>3, <1>4, <1>6, <1>7, <1>8 DEF IInv, TypeOK

\* LastFile keeps the inductive invariant.
LEMMA LastFileStep == ASSUME IInv, LastFile PROVE IInv'
<1>1. FilesOK' /\ Ranges' /\ NothingLost'
  BY FilesFrame DEF LastFile, EndOperation, Later
<1>2. PanelOK' /\ ControlOK' /\ TransferOK'
  BY DEF IInv, TypeOK, PanelOK, ControlOK, TransferOK, Place, PCs, Status,
         StopAnswers, LastFile, EndOperation, Later
<1>3. Place' /\ Transfer' /\ Reported'
  BY DEF IInv, TypeOK, PanelOK, Place, Transfer, Reported, Carried, MovePCs,
         SeenPCs, Transferring, Tail, InCopy, BeforeOpen, Opening, LastFile,
         EndOperation, Later
<1>4. QED BY <1>1, <1>2, <1>3 DEF IInv, TypeOK

\* FileDone keeps the inductive invariant.
LEMMA FileDoneStep == ASSUME IInv, FileDone PROVE IInv'
<1>1. FilesOK' /\ Ranges' /\ NothingLost'
  BY FilesFrame DEF FileDone, EndOperation
<1>2. PanelOK'
  <2>1. marked' \in [Files -> BOOLEAN]
    BY DEF FileDone, IInv, TypeOK, PanelOK
  <2>2. op' \in {"copy", "move", "none"} /\ cur' \in 0..NFiles
    BY DEF FileDone, EndOperation, IInv, TypeOK, PanelOK
  <2>3. QED BY <2>1, <2>2 DEF FileDone, EndOperation, IInv, TypeOK, PanelOK
<1>3. ControlOK' /\ TransferOK'
  BY DEF FileDone, EndOperation, IInv, TypeOK, ControlOK, TransferOK, PCs
<1>4. Place'
  BY DEF FileDone, EndOperation, IInv, Place, MovePCs, SeenPCs
<1>5. Transfer' /\ Reported'
  BY DEF FileDone, EndOperation, Transfer, Reported, SeenPCs, Transferring,
         Tail, InCopy, BeforeOpen, Opening
<1>6. QED BY <1>1, <1>2, <1>3, <1>4, <1>5 DEF IInv, TypeOK

\* Aborted keeps the inductive invariant.
LEMMA AbortedStep == ASSUME IInv, Aborted PROVE IInv'
<1>1. FilesOK' /\ Ranges' /\ NothingLost'
  BY FilesFrame DEF Aborted, EndOperation
<1>2. PanelOK' /\ ControlOK' /\ TransferOK'
  BY DEF IInv, TypeOK, PanelOK, ControlOK, TransferOK, Place, PCs, Status,
         StopAnswers, Aborted, EndOperation
<1>3. Place' /\ Transfer' /\ Reported'
  BY DEF IInv, TypeOK, PanelOK, Place, Transfer, Reported, Carried, MovePCs,
         SeenPCs, Transferring, Tail, InCopy, BeforeOpen, Opening, Aborted,
         EndOperation
<1>4. QED BY <1>1, <1>2, <1>3 DEF IInv, TypeOK

-----------------------------------------------------------------------------
(* move_file_file.                                                          *)

\* MoveShow keeps the inductive invariant.
LEMMA MoveShowStep == ASSUME IInv, MoveShow PROVE IInv'
<1>1. FilesOK' /\ Ranges' /\ NothingLost'
  BY FilesFrame DEF MoveShow
<1>2. PanelOK' /\ ControlOK' /\ TransferOK'
  BY AbortWindow DEF IInv, TypeOK, PanelOK, ControlOK, TransferOK, Place, PCs,
         Status, StopAnswers, MoveShow
<1>3. Place' /\ Transfer' /\ Reported'
  BY DEF IInv, TypeOK, PanelOK, Place, Transfer, Reported, Carried, MovePCs,
         SeenPCs, Transferring, Tail, InCopy, BeforeOpen, Opening, MoveShow,
         check_abort, Stop, StopAnswers, NoAnswer
<1>4. QED BY <1>1, <1>2, <1>3 DEF IInv, TypeOK

\* MoveStatFails keeps the inductive invariant.
LEMMA MoveStatFailsStep == ASSUME IInv, MoveStatFails PROVE IInv'
<1>1. FilesOK' /\ Ranges' /\ NothingLost'
  BY FilesFrame DEF MoveStatFails
<1>2. PanelOK' /\ ControlOK' /\ TransferOK'
  BY ErrorDialog DEF IInv, TypeOK, PanelOK, ControlOK, TransferOK, Place, PCs,
         Status, StopAnswers, MoveStatFails
<1>3. Place' /\ Transfer' /\ Reported'
  BY DEF IInv, TypeOK, PanelOK, Place, Transfer, Reported, Carried, MovePCs,
         SeenPCs, Transferring, Tail, InCopy, BeforeOpen, Opening,
         MoveStatFails, file_error, Stop, StopAnswers, Again
<1>4. QED BY <1>1, <1>2, <1>3 DEF IInv, TypeOK

\* MoveStat keeps the inductive invariant.
LEMMA MoveStatStep == ASSUME IInv, MoveStat PROVE IInv'
<1>1. FilesOK' /\ Ranges' /\ NothingLost'
  BY FilesFrame DEF MoveStat
<1>2. cur \in Files /\ op # "none" /\ op = "move" /\ present'[cur] /\ cur' = cur
      /\ op' = op
  BY DEF MoveStat, IInv, Place, MovePCs
<1>3. CASE obstacle[cur] # "none"
  <2>1. Return("skip") /\ UNCHANGED <<globals, decided>>
    BY <1>3 DEF MoveStat
  <2>2. PanelOK' /\ ControlOK' /\ TransferOK'
    BY <2>1 DEF MoveStat, Return, NoAnswer, IInv, TypeOK, PanelOK, ControlOK,
                TransferOK, PCs, Status
  <2>3. Place' /\ Transfer' /\ Reported'
    BY <1>2, <2>1 DEF Return, Place, Transfer, Reported, MovePCs, SeenPCs,
                Transferring, Tail, InCopy, BeforeOpen, Opening
  <2>4. QED BY <1>1, <2>2, <2>3 DEF IInv, TypeOK
<1>4. CASE obstacle[cur] = "none" /\ dst[cur].there /\ ConfirmOverwrite
  <2>1. query_replace("move_rename", "returned")
    BY <1>4 DEF MoveStat
  <2>2. /\ budget' \in 0..MaxRetry /\ aborted' \in BOOLEAN
        /\ do_append' \in BOOLEAN /\ do_reget' \in Nat
        /\ replace_result' \in ThisTarget \cup AllTargets
        /\ decided' \in [Files -> {"none", "overwrite", "append", "reget"}]
        /\ \/ pc' = "move_rename" /\ return_status' = "cont"
           \/ pc' = "returned" /\ return_status' \in StopAnswers
    BY <1>2, <2>1, ReplaceDialog DEF IInv
  <2>3. PanelOK' /\ ControlOK' /\ TransferOK'
    BY <2>2 DEF MoveStat, IInv, TypeOK, PanelOK, ControlOK, TransferOK, PCs,
                Status, StopAnswers
  <2>4. Place' /\ Transfer' /\ Reported'
    BY <1>2, <2>2 DEF Place, Transfer, Reported, MovePCs, SeenPCs,
                Transferring, Tail, InCopy, BeforeOpen, Opening
  <2>5. QED BY <1>1, <2>3, <2>4 DEF IInv, TypeOK
<1>5. CASE obstacle[cur] = "none" /\ ~(dst[cur].there /\ ConfirmOverwrite)
  <2>1. /\ Goto("move_rename")
        /\ decided' = [decided EXCEPT ![cur] =
                         IF dst[cur].there THEN "overwrite" ELSE @]
        /\ UNCHANGED globals
    BY <1>5 DEF MoveStat
  <2>2. decided' \in [Files -> {"none", "overwrite", "append", "reget"}]
    BY <2>1 DEF IInv, TypeOK, PanelOK
  <2>3. PanelOK' /\ ControlOK' /\ TransferOK'
    BY <2>1, <2>2 DEF MoveStat, Goto, NoAnswer, IInv, TypeOK, PanelOK,
                ControlOK, TransferOK, PCs
  <2>4. Place' /\ Transfer' /\ Reported'
    BY <1>2, <2>1 DEF Goto, Place, Transfer, Reported, MovePCs, SeenPCs,
                Transferring, Tail, InCopy, BeforeOpen, Opening
  <2>5. QED BY <1>1, <2>3, <2>4 DEF IInv, TypeOK
<1>6. QED BY <1>3, <1>4, <1>5

\* MoveRename keeps the inductive invariant.
LEMMA MoveRenameStep == ASSUME IInv, MoveRename PROVE IInv'
<1>1. cur \in Files
  BY DEF MoveRename, IInv, Place
<1>2. FilesOK'
  BY <1>1, WholeSource DEF MoveRename, IInv, TypeOK, FilesOK
<1>3. \A f \in Files : dst'[f] = IF f = cur THEN Source(cur) ELSE dst[f]
  BY <1>1 DEF MoveRename, IInv, TypeOK, FilesOK
<1>4. \A f \in Files : f # cur => present'[f] = present[f]
  BY DEF MoveRename, IInv, TypeOK, FilesOK
<1>5. Ranges'
  <2>1. dst'[cur].from <= dst'[cur].upto
    BY <1>1, <1>3, WholeSource DEF IInv, TypeOK, FilesOK
  <2>2. QED BY <1>3, <2>1 DEF IInv, Ranges
<1>6. NothingLost'
  BY <1>1, <1>3, <1>4, WholeSource DEF MoveRename, IInv, TypeOK, NothingLost,
     Carried
<1>7. PanelOK' /\ ControlOK' /\ TransferOK'
  BY DEF MoveRename, Return, NoAnswer, IInv, TypeOK, PanelOK, ControlOK,
         TransferOK, PCs, Status
<1>8. Place'
  BY DEF MoveRename, Return, IInv, Place, MovePCs, SeenPCs
<1>9. Transfer' /\ Reported'
  BY DEF MoveRename, Return, Transfer, Reported, SeenPCs, Transferring, Tail,
         InCopy, BeforeOpen, Opening
<1>10. QED BY <1>2, <1>5, <1>6, <1>7, <1>8, <1>9 DEF IInv, TypeOK

\* MoveStableSymlink keeps the inductive invariant.
LEMMA MoveStableSymlinkStep == ASSUME IInv, MoveStableSymlink PROVE IInv'
<1>1. cur \in Files /\ op = "move" /\ present[cur] /\ pc = "move_rename"
  BY DEF MoveStableSymlink, IInv, Place, MovePCs
<1>2. CASE /\ dst' = [dst EXCEPT ![cur] = Source(cur)]
           /\ pc' = "unlink" /\ return_status' = "cont" /\ NoAnswer
  <2>1. FilesOK' /\ Ranges' /\ NothingLost' /\ dst'[cur] = Source(cur)
    <3>1. Source(cur) \in Content /\ Source(cur).from <= Source(cur).upto
      BY <1>1, WholeSource DEF IInv, TypeOK
    <3>2. QED BY <1>1, <1>2, <3>1, TargetFrame DEF MoveStableSymlink
  <2>2. PanelOK' /\ ControlOK' /\ TransferOK'
    BY <1>2 DEF MoveStableSymlink, NoAnswer, IInv, TypeOK, PanelOK, ControlOK,
                TransferOK, PCs, Status
  <2>3. Place' /\ Transfer'
    BY <1>1, <1>2 DEF MoveStableSymlink, IInv, Place, Transfer, MovePCs,
       SeenPCs,
                Transferring, Tail, InCopy, BeforeOpen, Opening
  <2>4. Carried(cur)'
    BY <1>1, <2>1, WholeSource DEF MoveStableSymlink, Carried, IInv, TypeOK
  <2>5. Reported'
    BY <1>2, <2>4 DEF Reported, MoveStableSymlink, Tail, BeforeOpen, Carried
  <2>6. QED BY <2>1, <2>2, <2>3, <2>5 DEF IInv, TypeOK
<1>3. CASE file_error("returned") /\ dst' \in {dst, [dst EXCEPT ![cur] = NoFile]}
  <2>1. FilesOK' /\ Ranges' /\ NothingLost'
    <3>1. CASE dst' = dst
      BY <3>1, FilesFrame DEF MoveStableSymlink
    <3>2. CASE dst' = [dst EXCEPT ![cur] = NoFile]
      BY <1>1, <3>2, EmptyTarget, TargetFrame DEF MoveStableSymlink
    <3>3. QED BY <1>3, <3>1, <3>2
  <2>2. /\ budget' \in 0..MaxRetry /\ aborted' \in BOOLEAN
        /\ \/ pc' = pc /\ return_status' = "retry"
           \/ pc' = "returned" /\ return_status' \in StopAnswers
    BY <1>3, ErrorDialog DEF IInv, TypeOK
  <2>3. PanelOK' /\ ControlOK' /\ TransferOK'
    BY <2>2 DEF MoveStableSymlink, IInv, TypeOK, PanelOK, ControlOK, TransferOK,
                PCs, Status, StopAnswers
  <2>4. Place' /\ Transfer' /\ Reported'
    BY <1>1, <2>2 DEF MoveStableSymlink, Place, Transfer, Reported, MovePCs,
                SeenPCs, Transferring, Tail, InCopy, BeforeOpen, Opening
  <2>5. QED BY <2>1, <2>3, <2>4 DEF IInv, TypeOK
<1>4. QED BY <1>2, <1>3 DEF MoveStableSymlink

\* MoveByCopy keeps the inductive invariant.
LEMMA MoveByCopyStep == ASSUME IInv, MoveByCopy PROVE IInv'
<1>1. FilesOK' /\ Ranges' /\ NothingLost'
  BY FilesFrame DEF MoveByCopy
<1>2. PanelOK' /\ ControlOK' /\ TransferOK'
  BY NoDialog DEF IInv, TypeOK, PanelOK, ControlOK, TransferOK, Place, PCs,
         Status, StopAnswers, MoveByCopy
<1>3. Place' /\ Transfer' /\ Reported'
  BY DEF IInv, TypeOK, PanelOK, Place, Transfer, Reported, Carried, MovePCs,
         SeenPCs, Transferring, Tail, InCopy, BeforeOpen, Opening, MoveByCopy,
         Goto, NoAnswer
<1>4. QED BY <1>1, <1>2, <1>3 DEF IInv, TypeOK

\* MoveCopied keeps the inductive invariant.
LEMMA MoveCopiedStep == ASSUME IInv, MoveCopied PROVE IInv'
<1>1. FilesOK' /\ Ranges' /\ NothingLost'
  BY FilesFrame DEF MoveCopied
<1>2. PanelOK' /\ ControlOK' /\ TransferOK'
  BY ProgressWindow, NoDialog DEF IInv, TypeOK, PanelOK, ControlOK, TransferOK,
         Place, PCs, Status, StopAnswers, MoveCopied
<1>3. Place' /\ Transfer' /\ Reported'
  BY DEF IInv, TypeOK, PanelOK, Place, Transfer, Reported, Carried, MovePCs,
         SeenPCs, Transferring, Tail, InCopy, BeforeOpen, Opening, MoveCopied,
         Goto, NoAnswer, check_buttons, Stop, StopAnswers
<1>4. QED BY <1>1, <1>2, <1>3 DEF IInv, TypeOK

\* UnlinkFails keeps the inductive invariant.
LEMMA UnlinkFailsStep == ASSUME IInv, UnlinkFails PROVE IInv'
<1>1. FilesOK' /\ Ranges' /\ NothingLost'
  BY FilesFrame DEF UnlinkFails
<1>2. PanelOK' /\ ControlOK' /\ TransferOK'
  BY ErrorDialog DEF IInv, TypeOK, PanelOK, ControlOK, TransferOK, Place, PCs,
         Status, StopAnswers, UnlinkFails
<1>3. Place' /\ Transfer' /\ Reported'
  BY DEF IInv, TypeOK, PanelOK, Place, Transfer, Reported, Carried, MovePCs,
         SeenPCs, Transferring, Tail, InCopy, BeforeOpen, Opening,
         UnlinkFails, file_error, Stop, StopAnswers, Again
<1>4. QED BY <1>1, <1>2, <1>3 DEF IInv, TypeOK

\* Unlink keeps the inductive invariant.
LEMMA UnlinkStep == ASSUME IInv, Unlink PROVE IInv'
<1>1. FilesOK'
  BY DEF IInv, TypeOK, FilesOK, PanelOK, Place, Unlink, Goto, NoAnswer,
         check_buttons, Stop, StopAnswers
<1>2. Ranges' /\ NothingLost'
  BY DEF IInv, TypeOK, FilesOK, Ranges, Reported, NothingLost, Carried, Unlink,
         Goto, NoAnswer, check_buttons, Stop, StopAnswers
<1>3. PanelOK' /\ ControlOK' /\ TransferOK'
  BY ProgressWindow, NoDialog DEF IInv, TypeOK, PanelOK, ControlOK, TransferOK,
         Place, PCs, Status, StopAnswers, Unlink
<1>4. Place' /\ Transfer' /\ Reported'
  BY DEF IInv, TypeOK, PanelOK, Place, Transfer, Reported, Carried, MovePCs,
         SeenPCs, Transferring, Tail, InCopy, BeforeOpen, Opening, Unlink,
         Goto, NoAnswer, check_buttons, Stop, StopAnswers
<1>5. QED BY <1>1, <1>2, <1>3, <1>4 DEF IInv, TypeOK

-----------------------------------------------------------------------------
(* copy_file_file.                                                          *)

\* CopyShow keeps the inductive invariant.
LEMMA CopyShowStep == ASSUME IInv, CopyShow PROVE IInv'
<1>1. FilesOK' /\ Ranges' /\ NothingLost'
  BY FilesFrame DEF CopyShow, Caller
<1>2. PanelOK' /\ ControlOK' /\ TransferOK'
  BY AbortWindow DEF IInv, TypeOK, PanelOK, ControlOK, TransferOK, Place, PCs,
         Status, StopAnswers, CopyShow, Caller
<1>3. Place' /\ Transfer' /\ Reported'
  BY DEF IInv, TypeOK, PanelOK, Place, Transfer, Reported, Carried, MovePCs,
         SeenPCs, Transferring, Tail, InCopy, BeforeOpen, Opening, CopyShow,
         Caller, check_abort, Stop, StopAnswers, NoAnswer
<1>4. QED BY <1>1, <1>2, <1>3 DEF IInv, TypeOK

\* DstStat keeps the inductive invariant.
LEMMA DstStatStep == ASSUME IInv, DstStat PROVE IInv'
<1>1. FilesOK' /\ Ranges' /\ NothingLost'
  BY FilesFrame DEF DstStat, Caller
<1>2. PanelOK' /\ ControlOK' /\ TransferOK'
  BY ErrorDialog, NoDialog DEF IInv, TypeOK, PanelOK, ControlOK, TransferOK,
         Place, PCs, Status, StopAnswers, DstStat, Caller
<1>3. Place' /\ Transfer' /\ Reported'
  BY DEF IInv, TypeOK, PanelOK, Place, Transfer, Reported, Carried, MovePCs,
         SeenPCs, Transferring, Tail, InCopy, BeforeOpen, Opening, DstStat,
         Goto, NoAnswer, Caller, file_error, Stop, StopAnswers, Again
<1>4. QED BY <1>1, <1>2, <1>3 DEF IInv, TypeOK

\* SrcStatFails keeps the inductive invariant.
LEMMA SrcStatFailsStep == ASSUME IInv, SrcStatFails PROVE IInv'
<1>1. FilesOK' /\ Ranges' /\ NothingLost'
  BY FilesFrame DEF SrcStatFails, Caller
<1>2. PanelOK' /\ ControlOK' /\ TransferOK'
  BY ErrorDialog DEF IInv, TypeOK, PanelOK, ControlOK, TransferOK, Place, PCs,
         Status, StopAnswers, SrcStatFails, Caller
<1>3. Place' /\ Transfer' /\ Reported'
  BY DEF IInv, TypeOK, PanelOK, Place, Transfer, Reported, Carried, MovePCs,
         SeenPCs, Transferring, Tail, InCopy, BeforeOpen, Opening,
         SrcStatFails, Caller, file_error, Stop, StopAnswers, Again
<1>4. QED BY <1>1, <1>2, <1>3 DEF IInv, TypeOK

\* SrcStat keeps the inductive invariant.
LEMMA SrcStatStep == ASSUME IInv, SrcStat PROVE IInv'
<1>1. FilesOK' /\ Ranges' /\ NothingLost'
  BY FilesFrame DEF SrcStat
<1>2. PanelOK' /\ ControlOK' /\ TransferOK'
  BY NoDialog DEF IInv, TypeOK, PanelOK, ControlOK, TransferOK, Place, PCs,
         Status, StopAnswers, SrcStat
<1>3. Place' /\ Transfer' /\ Reported'
  BY DEF IInv, TypeOK, PanelOK, Place, Transfer, Reported, Carried, MovePCs,
         SeenPCs, Transferring, Tail, InCopy, BeforeOpen, Opening, SrcStat,
         Goto, NoAnswer
<1>4. QED BY <1>1, <1>2, <1>3 DEF IInv, TypeOK

\* CopyQuery keeps the inductive invariant.
LEMMA CopyQueryStep == ASSUME IInv, CopyQuery PROVE IInv'
<1>1. FilesOK' /\ Ranges' /\ NothingLost'
  BY FilesFrame DEF CopyQuery
<1>2. cur \in Files /\ op # "none" /\ present'[cur] /\ cur' = cur /\ op' = op
  BY DEF CopyQuery, IInv, Place, SeenPCs
<1>3. TransferOK'
  BY DEF CopyQuery, IInv, TypeOK, TransferOK
<1>4. Caller \in {"returned", "move_copied"} /\ (op = "copy" => Caller = "returned")
      /\ (op # "copy" => Caller = "move_copied" /\ op = "move")
  BY DEF Caller, CopyQuery, IInv, TypeOK, PanelOK, Place
<1>5. CASE obstacle[cur] = "same"
  <2>1. pc' = Caller /\ return_status' = "skip" /\ NoAnswer /\ UNCHANGED <<globals, decided>>
    BY <1>5 DEF CopyQuery
  <2>2. PanelOK' /\ ControlOK'
    BY <1>4, <2>1 DEF CopyQuery, NoAnswer, IInv, TypeOK, PanelOK, ControlOK,
                PCs, Status
  <2>3. Place' /\ Transfer' /\ Reported'
    BY <1>2, <1>4, <2>1 DEF Place, Transfer, Reported, MovePCs, SeenPCs,
                Transferring, Tail, InCopy, BeforeOpen, Opening
  <2>4. QED BY <1>1, <1>3, <2>2, <2>3 DEF IInv, TypeOK
<1>6. CASE obstacle[cur] # "same" /\ op = "copy"
  <2>1. query_replace("by_kind", Caller)
    BY <1>6 DEF CopyQuery
  <2>2. /\ budget' \in 0..MaxRetry /\ aborted' \in BOOLEAN
        /\ do_append' \in BOOLEAN /\ do_reget' \in Nat
        /\ replace_result' \in ThisTarget \cup AllTargets
        /\ decided' \in [Files -> {"none", "overwrite", "append", "reget"}]
        /\ \/ pc' = "by_kind" /\ return_status' = "cont"
           \/ pc' = Caller /\ return_status' \in StopAnswers
    BY <1>2, <2>1, ReplaceDialog DEF IInv
  <2>3. PanelOK' /\ ControlOK'
    BY <1>4, <2>2 DEF CopyQuery, IInv, TypeOK, PanelOK, ControlOK, PCs, Status,
                StopAnswers
  <2>4. Place' /\ Transfer' /\ Reported'
    BY <1>2, <1>4, <1>6, <2>2 DEF CopyQuery, IInv, Place, Transfer, Reported,
       MovePCs, SeenPCs,
                Transferring, Tail, InCopy, BeforeOpen, Opening
  <2>5. QED BY <1>1, <1>3, <2>3, <2>4 DEF IInv, TypeOK
<1>7. CASE obstacle[cur] # "same" /\ op # "copy"
  <2>1. Goto("by_kind") /\ UNCHANGED <<globals, decided>>
    BY <1>7 DEF CopyQuery
  <2>2. PanelOK' /\ ControlOK'
    BY <2>1 DEF CopyQuery, Goto, NoAnswer, IInv, TypeOK, PanelOK, ControlOK, PCs
  <2>3. Place' /\ Transfer' /\ Reported'
    BY <1>2, <2>1 DEF CopyQuery, Goto, IInv, Place, Transfer, Reported, MovePCs,
                SeenPCs, Transferring, Tail, InCopy, BeforeOpen, Opening
  <2>4. QED BY <1>1, <1>3, <2>2, <2>3 DEF IInv, TypeOK
<1>8. QED BY <1>5, <1>6, <1>7

\* Hardlinked keeps the inductive invariant.
LEMMA HardlinkedStep == ASSUME IInv, Hardlinked PROVE IInv'
<1>1. cur \in Files /\ op # "none" /\ present[cur]
  BY DEF Hardlinked, IInv, Place, SeenPCs
<1>2. PICK g \in Files : dst' = [dst EXCEPT ![cur] = dst[g]]
  BY DEF Hardlinked
<1>3. FilesOK' /\ Ranges' /\ NothingLost'
  <2>1. dst[g] \in Content /\ dst[g].from <= dst[g].upto
    BY DEF IInv, TypeOK, FilesOK, Ranges
  <2>2. QED BY <1>1, <1>2, <2>1, TargetFrame DEF Hardlinked
<1>4. Caller \in {"returned", "move_copied"} /\ (op # "move" => Caller = "returned")
  BY DEF Caller, Hardlinked, IInv, TypeOK, PanelOK, Place
<1>5. PanelOK' /\ ControlOK' /\ TransferOK'
  BY <1>4 DEF Hardlinked, Goto, NoAnswer, IInv, TypeOK, PanelOK, ControlOK,
         TransferOK, PCs
<1>6. Place'
  BY <1>1, <1>4 DEF Hardlinked, Goto, IInv, TypeOK, PanelOK, Place, MovePCs,
     SeenPCs
<1>7. Transfer'
  BY <1>4 DEF Hardlinked, Goto, Transfer, SeenPCs, Transferring, Tail, InCopy,
     BeforeOpen, Opening
<1>8. op = "move" => return_status # "cont"
  BY DEF Hardlinked, IInv, Reported, BeforeOpen
<1>9. Reported'
  BY <1>4, <1>8 DEF Hardlinked, Caller, Goto, Reported, BeforeOpen, Tail
<1>10. QED BY <1>3, <1>5, <1>6, <1>7, <1>9 DEF IInv, TypeOK

\* MakeSpecial keeps the inductive invariant.
LEMMA MakeSpecialStep == ASSUME IInv, MakeSpecial PROVE IInv'
<1>1. cur \in Files /\ op # "none" /\ present[cur] /\ pc = "by_kind"
  BY DEF MakeSpecial, IInv, Place, SeenPCs
<1>2. /\ Caller \in {"returned", "move_copied"}
      /\ op # "move" => Caller = "returned"
      /\ Caller' = Caller
  BY DEF Caller, MakeSpecial, IInv, TypeOK, PanelOK, Place
<1>3. CASE dst' = [dst EXCEPT ![cur] = Source(cur)] /\ pc' = Caller /\ NoAnswer
           /\ return_status' = "cont"
  <2>1. FilesOK' /\ Ranges' /\ NothingLost' /\ dst'[cur] = Source(cur)
    BY <1>1, <1>3, WholeSource, TargetFrame DEF MakeSpecial, IInv, TypeOK
  <2>2. PanelOK' /\ ControlOK' /\ TransferOK'
    BY <1>2, <1>3 DEF MakeSpecial, NoAnswer, IInv, TypeOK, PanelOK, ControlOK,
                TransferOK, PCs, Status
  <2>3. Place' /\ Transfer'
    BY <1>1, <1>2, <1>3 DEF MakeSpecial, IInv, TypeOK, PanelOK, Place, Transfer,
                MovePCs, SeenPCs, Transferring, Tail, InCopy, BeforeOpen, Opening
  <2>4. Carried(cur)'
    BY <1>1, <2>1, WholeSource DEF MakeSpecial, Carried, IInv, TypeOK
  <2>5. Reported'
    BY <1>2, <1>3, <2>4 DEF Reported, MakeSpecial, Tail, BeforeOpen, Carried
  <2>6. QED BY <2>1, <2>2, <2>3, <2>5 DEF IInv, TypeOK
<1>4. CASE /\ \/ file_error(Caller)
              \/ \E a \in StopAnswers : Stop(Caller, a) /\ return_status' = a
           /\ \/ dst' = dst
              \/ dst' = [dst EXCEPT ![cur] = NoFile]
              \/ dst' = [dst EXCEPT ![cur] = Source(cur)]
  <2>1. FilesOK' /\ Ranges' /\ NothingLost'
    <3>1. CASE dst' = dst
      BY <3>1, FilesFrame DEF MakeSpecial
    <3>2. CASE dst' = [dst EXCEPT ![cur] = NoFile]
      BY <1>1, <3>2, EmptyTarget, TargetFrame DEF MakeSpecial
    <3>3. CASE dst' = [dst EXCEPT ![cur] = Source(cur)]
      BY <1>1, <3>3, WholeSource, TargetFrame DEF MakeSpecial, IInv, TypeOK
    <3>4. QED BY <1>4, <3>1, <3>2, <3>3
  <2>2. /\ budget' \in 0..MaxRetry /\ aborted' \in BOOLEAN
        /\ \/ pc' = pc /\ return_status' = "retry"
           \/ pc' = Caller /\ return_status' \in StopAnswers
    BY <1>4, ErrorDialog, GivingUp DEF IInv, TypeOK
  <2>3. PanelOK' /\ ControlOK' /\ TransferOK'
    BY <1>2, <2>2 DEF MakeSpecial, IInv, TypeOK, PanelOK, ControlOK, TransferOK,
                PCs, Status, StopAnswers
  <2>4. Place' /\ Transfer' /\ Reported'
    BY <1>1, <1>2, <2>2 DEF MakeSpecial, IInv, TypeOK, PanelOK, Place, Transfer,
                Reported, MovePCs, SeenPCs, Transferring, Tail, InCopy,
                BeforeOpen, StopAnswers, Opening
  <2>5. QED BY <2>1, <2>3, <2>4 DEF IInv, TypeOK
<1>5. QED BY <1>3, <1>4 DEF MakeSpecial

\* Regular keeps the inductive invariant.
LEMMA RegularStep == ASSUME IInv, Regular PROVE IInv'
<1>1. FilesOK' /\ Ranges' /\ NothingLost'
  BY FilesFrame DEF Regular
<1>2. PanelOK' /\ ControlOK' /\ TransferOK'
  BY NoDialog DEF IInv, TypeOK, PanelOK, ControlOK, TransferOK, Place, PCs,
         Status, StopAnswers, Regular
<1>3. Place' /\ Transfer' /\ Reported'
  BY DEF IInv, TypeOK, PanelOK, Place, Transfer, Reported, Carried, MovePCs,
         SeenPCs, Transferring, Tail, InCopy, BeforeOpen, Opening, Regular,
         Goto, NoAnswer
<1>4. QED BY <1>1, <1>2, <1>3 DEF IInv, TypeOK

\* OpenSrc keeps the inductive invariant.
LEMMA OpenSrcStep == ASSUME IInv, OpenSrc PROVE IInv'
<1>1. FilesOK' /\ Ranges' /\ NothingLost'
  BY FilesFrame DEF OpenSrc
<1>2. PanelOK' /\ ControlOK' /\ TransferOK'
  BY NoDialog DEF IInv, TypeOK, PanelOK, ControlOK, TransferOK, Place, PCs,
         Status, StopAnswers, OpenSrc
<1>3. Place' /\ Transfer' /\ Reported'
  BY DEF IInv, TypeOK, PanelOK, Place, Transfer, Reported, Carried, MovePCs,
         SeenPCs, Transferring, Tail, InCopy, BeforeOpen, Opening, OpenSrc,
         Goto, NoAnswer
<1>4. QED BY <1>1, <1>2, <1>3 DEF IInv, TypeOK

\* OpenSrcFails keeps the inductive invariant.
LEMMA OpenSrcFailsStep == ASSUME IInv, OpenSrcFails PROVE IInv'
<1>1. FilesOK' /\ Ranges' /\ NothingLost'
  BY FilesFrame DEF OpenSrcFails, StopAppending, Caller
<1>2. PanelOK' /\ ControlOK' /\ TransferOK'
  BY ErrorDialog DEF IInv, TypeOK, PanelOK, ControlOK, TransferOK, Place, PCs,
         Status, StopAnswers, OpenSrcFails, StopAppending, Caller
<1>3. Place' /\ Transfer' /\ Reported'
  BY DEF IInv, TypeOK, PanelOK, Place, Transfer, Reported, Carried, MovePCs,
         SeenPCs, Transferring, Tail, InCopy, BeforeOpen, Opening,
         OpenSrcFails, StopAppending, Caller, file_error, Stop, StopAnswers,
         Again
<1>4. QED BY <1>1, <1>2, <1>3 DEF IInv, TypeOK

\* Reget keeps the inductive invariant.
LEMMA RegetStep == ASSUME IInv, Reget PROVE IInv'
<1>1. FilesOK' /\ Ranges' /\ NothingLost'
  BY FilesFrame DEF Reget
<1>2. PanelOK' /\ ControlOK' /\ TransferOK'
  BY NoDialog DEF IInv, TypeOK, PanelOK, ControlOK, TransferOK, Place, PCs,
         Status, StopAnswers, Reget
<1>3. Place' /\ Transfer' /\ Reported'
  BY DEF IInv, TypeOK, PanelOK, Place, Transfer, Reported, Carried, MovePCs,
         SeenPCs, Transferring, Tail, InCopy, BeforeOpen, Opening, Reget,
         Goto, NoAnswer
<1>4. QED BY <1>1, <1>2, <1>3 DEF IInv, TypeOK

\* RegetFails keeps the inductive invariant.
LEMMA RegetFailsStep == ASSUME IInv, RegetFails PROVE IInv'
<1>1. FilesOK' /\ Ranges' /\ NothingLost'
  BY FilesFrame DEF RegetFails
<1>2. cur \in Files /\ op # "none" /\ op # "move" /\ present[cur]
  <2>1. cur \in Files /\ op # "none" /\ present[cur]
    BY DEF RegetFails, IInv, Place, SeenPCs
  <2>2. op # "move"
    BY DEF RegetFails, IInv, Transfer, InCopy, SeenPCs, BeforeOpen, Opening
  <2>3. QED BY <2>1, <2>2
<1>3. PanelOK' /\ ControlOK' /\ TransferOK'
  BY DEF RegetFails, Goto, NoAnswer, IInv, TypeOK, PanelOK, ControlOK,
         TransferOK, PCs
<1>4. Place' /\ Transfer' /\ Reported'
  BY <1>2 DEF RegetFails, Goto, IInv, Place, Transfer, Reported, MovePCs,
     SeenPCs,
         Transferring, Tail, InCopy, BeforeOpen, Opening
<1>5. QED BY <1>1, <1>3, <1>4 DEF IInv, TypeOK

\* FstatSrc keeps the inductive invariant.
LEMMA FstatSrcStep == ASSUME IInv, FstatSrc PROVE IInv'
<1>1. FilesOK' /\ Ranges' /\ NothingLost'
  BY FilesFrame DEF FstatSrc
<1>2. cur \in Files /\ op # "none" /\ present[cur] /\ pc = "fstat_src"
  BY DEF FstatSrc, IInv, Place, SeenPCs
<1>3. /\ budget' \in 0..MaxRetry /\ aborted' \in BOOLEAN
      /\ \/ pc' = "open_dst" /\ return_status' = return_status
         \/ pc' = pc /\ return_status' = "retry"
         \/ pc' = "close_src" /\ return_status' \in StopAnswers
  BY NoDialog, ErrorDialog DEF FstatSrc, IInv, TypeOK
<1>4. do_append' \in BOOLEAN
  BY DEF FstatSrc, StopAppending, IInv, TypeOK, ControlOK
<1>5. PanelOK' /\ ControlOK' /\ TransferOK'
  BY <1>3, <1>4 DEF FstatSrc, IInv, TypeOK, PanelOK, ControlOK, TransferOK, PCs,
         Status, StopAnswers
<1>6. Place'
  BY <1>2, <1>3 DEF FstatSrc, Place, MovePCs, SeenPCs
<1>7. Transfer'
  BY <1>2, <1>3 DEF FstatSrc, IInv, Transfer, SeenPCs, Transferring, Tail,
     InCopy, BeforeOpen, Opening
<1>8. "dst" \notin resources'
  BY <1>2 DEF FstatSrc, IInv, Transfer, BeforeOpen, Opening
<1>9. Reported'
  BY <1>2, <1>3, <1>8 DEF Reported, Tail, BeforeOpen
<1>10. QED BY <1>1, <1>5, <1>6, <1>7, <1>9 DEF IInv, TypeOK

\* OpenDst keeps the inductive invariant.
LEMMA OpenDstStep == ASSUME IInv, OpenDst PROVE IInv'
<1>1. cur \in Files /\ op # "none" /\ present[cur]
  BY DEF OpenDst, IInv, Place, SeenPCs
<1>. DEFINE c == [old |-> IF do_append THEN SizeOf(dst[cur]) ELSE 0,
                  from |-> pos, upto |-> pos, good |-> TRUE, there |-> TRUE]
<1>2. c \in Content /\ c.from = pos /\ c.upto = pos /\ c.good /\ c.there
  <2>1. SizeOf(dst[cur]) \in Nat /\ pos \in Nat
    BY <1>1, SizeIsNat DEF IInv, TypeOK, FilesOK, TransferOK, Ranges
  <2>2. (IF do_append THEN SizeOf(dst[cur]) ELSE 0) \in Nat
    BY <2>1
  <2>3. QED BY <2>1, <2>2
<1>3. dst' = [dst EXCEPT ![cur] = c]
  BY DEF OpenDst
<1>4. FilesOK' /\ Ranges' /\ NothingLost' /\ dst'[cur] = c
  <2>. HIDE DEF c
  <2>1. c.from <= c.upto
    BY <1>2 DEF IInv, TypeOK, TransferOK
  <2>2. QED BY <1>1, <1>2, <1>3, <2>1, TargetFrame DEF OpenDst
<1>5. PanelOK' /\ ControlOK' /\ TransferOK'
  BY DEF OpenDst, Goto, NoAnswer, IInv, TypeOK, PanelOK, ControlOK, TransferOK,
         PCs
<1>6. Place'
  BY <1>1 DEF OpenDst, Goto, Place, MovePCs, SeenPCs
<1>7. Transfer'
  <2>. HIDE DEF c
  <2>1. op = "move" => do_reget = 0 /\ pos = 0
    BY DEF OpenDst, IInv, Transfer, InCopy, SeenPCs
  <2>2. size[cur] \in Nat /\ pos \in Nat
    BY <1>1 DEF IInv, TypeOK, FilesOK, TransferOK
  <2>3. QED BY <1>2, <1>4, <2>1, <2>2 DEF OpenDst, Goto, Transfer, Transferring,
               Opening, BeforeOpen, InCopy
<1>8. Reported'
  BY DEF OpenDst, Goto, Reported, Tail, BeforeOpen
<1>9. QED BY <1>4, <1>5, <1>6, <1>7, <1>8 DEF IInv, TypeOK

\* OpenDstFails keeps the inductive invariant.
LEMMA OpenDstFailsStep == ASSUME IInv, OpenDstFails PROVE IInv'
<1>1. FilesOK' /\ Ranges' /\ NothingLost'
  BY FilesFrame DEF OpenDstFails
<1>2. /\ cur \in Files /\ op # "none" /\ present[cur] /\ pc = "open_dst"
      /\ "dst" \notin resources'
  BY DEF OpenDstFails, IInv, Place, SeenPCs, Transfer, Opening, BeforeOpen
<1>3. /\ budget' \in 0..MaxRetry /\ aborted' \in BOOLEAN
      /\ \/ pc' = pc /\ return_status' = "retry"
         \/ pc' = "close_src" /\ return_status' \in StopAnswers
  BY ErrorDialog DEF OpenDstFails, IInv, TypeOK
<1>4. do_append' \in BOOLEAN
  BY DEF OpenDstFails, StopAppending, IInv, TypeOK, ControlOK
<1>5. PanelOK' /\ ControlOK' /\ TransferOK'
  BY <1>3, <1>4 DEF OpenDstFails, IInv, TypeOK, PanelOK, ControlOK, TransferOK,
     PCs,
         Status, StopAnswers
<1>6. Place'
  BY <1>2, <1>3 DEF OpenDstFails, Place, MovePCs, SeenPCs
<1>7. Transfer'
  BY <1>2, <1>3 DEF OpenDstFails, IInv, Transfer, SeenPCs, Transferring, Tail,
     InCopy,
         Opening, BeforeOpen
<1>8. Reported'
  BY <1>2, <1>3 DEF Reported, Tail, BeforeOpen
<1>9. QED BY <1>1, <1>5, <1>6, <1>7, <1>8 DEF IInv, TypeOK

\* FstatDst keeps the inductive invariant.
LEMMA FstatDstStep == ASSUME IInv, FstatDst PROVE IInv'
<1>1. FilesOK' /\ Ranges' /\ NothingLost'
  BY FilesFrame DEF FstatDst
<1>2. PanelOK' /\ ControlOK' /\ TransferOK'
  BY ErrorDialog, ProgressWindow DEF IInv, TypeOK, PanelOK, ControlOK,
         TransferOK, Place, PCs, Status, StopAnswers, FstatDst
<1>3. Place' /\ Transfer' /\ Reported'
  BY DEF IInv, TypeOK, PanelOK, Place, Transfer, Reported, Carried, MovePCs,
         SeenPCs, Transferring, Tail, InCopy, BeforeOpen, Opening, FstatDst,
         file_error, Stop, StopAnswers, Again, check_buttons, NoAnswer
<1>4. QED BY <1>1, <1>2, <1>3 DEF IInv, TypeOK

\* ReadNotReady keeps the inductive invariant.
LEMMA ReadNotReadyStep == ASSUME IInv, ReadNotReady PROVE IInv'
<1>1. FilesOK' /\ Ranges' /\ NothingLost'
  BY FilesFrame DEF ReadNotReady
<1>2. PanelOK' /\ ControlOK' /\ TransferOK'
  BY DEF IInv, TypeOK, PanelOK, ControlOK, TransferOK, Place, PCs, Status,
         StopAnswers, ReadNotReady
<1>3. Place' /\ Transfer' /\ Reported'
  BY DEF IInv, TypeOK, PanelOK, Place, Transfer, Reported, Carried, MovePCs,
         SeenPCs, Transferring, Tail, InCopy, BeforeOpen, Opening,
         ReadNotReady
<1>4. QED BY <1>1, <1>2, <1>3 DEF IInv, TypeOK

\* ReadFails keeps the inductive invariant.
LEMMA ReadFailsStep == ASSUME IInv, ReadFails PROVE IInv'
<1>1. FilesOK' /\ Ranges' /\ NothingLost'
  BY FilesFrame DEF ReadFails
<1>2. PanelOK' /\ ControlOK' /\ TransferOK'
  BY ErrorDialog DEF IInv, TypeOK, PanelOK, ControlOK, TransferOK, Place, PCs,
         Status, StopAnswers, ReadFails
<1>3. Place' /\ Transfer' /\ Reported'
  BY DEF IInv, TypeOK, PanelOK, Place, Transfer, Reported, Carried, MovePCs,
         SeenPCs, Transferring, Tail, InCopy, BeforeOpen, Opening, ReadFails,
         file_error, Stop, StopAnswers, Again
<1>4. QED BY <1>1, <1>2, <1>3 DEF IInv, TypeOK

\* Read keeps the inductive invariant.
LEMMA ReadStep == ASSUME IInv, Read PROVE IInv'
<1>1. FilesOK' /\ Ranges' /\ NothingLost'
  BY FilesFrame DEF Read
<1>2. PICK k \in 1..BufSize : pos + k <= size[cur] /\ pos' = pos + k /\ n_read' = k
  BY DEF Read
<1>3. /\ cur \in Files /\ op # "none" /\ present[cur] /\ pc = "read"
      /\ pos \in Nat /\ k \in Nat
  BY DEF Read, IInv, Place, SeenPCs, TypeOK, TransferOK
<1>4. TransferOK'
  BY <1>2, <1>3 DEF Read, IInv, TypeOK, TransferOK
<1>5. PanelOK' /\ ControlOK'
  BY DEF Read, Goto, NoAnswer, IInv, TypeOK, PanelOK, ControlOK, PCs
<1>6. Place'
  BY <1>3 DEF Read, Goto, Place, MovePCs, SeenPCs
<1>7. Transfer'
  <2>1. dst[cur].there /\ (~ShortWrites => dst[cur].good)
    BY <1>3, Zenon DEF IInv, Transfer, Transferring
  <2>2. /\ {"short", "dst"} \subseteq resources
        /\ dst[cur].upto = pos
        /\ op = "move" => do_reget = 0 /\ dst[cur].from = 0
    <3>1. dst[cur].upto \in Nat
      BY <1>3 DEF IInv, TypeOK, FilesOK
    <3>2. QED BY <1>3, <3>1 DEF IInv, Transfer, Transferring, InCopy, SeenPCs
  <2>3. QED BY <1>2, <1>3, <2>1, <2>2 DEF Read, Goto, Transfer, Transferring,
               Opening,
               BeforeOpen, InCopy
<1>8. Reported'
  BY DEF Read, Goto, Reported, Tail, BeforeOpen
<1>9. QED BY <1>1, <1>4, <1>5, <1>6, <1>7, <1>8 DEF IInv, TypeOK

\* ReadEof keeps the inductive invariant.
LEMMA ReadEofStep == ASSUME IInv, ReadEof PROVE IInv'
<1>1. FilesOK' /\ Ranges' /\ NothingLost'
  BY FilesFrame DEF ReadEof
<1>2. cur \in Files /\ op # "none" /\ present[cur] /\ pc = "read" /\ pos >= size[cur]
  BY DEF ReadEof, IInv, Place, SeenPCs
<1>3. PanelOK' /\ ControlOK' /\ TransferOK'
  BY DEF ReadEof, Goto, NoAnswer, IInv, TypeOK, PanelOK, ControlOK, TransferOK,
         PCs
<1>4. Place'
  BY <1>2 DEF ReadEof, Goto, Place, MovePCs, SeenPCs
<1>5. Transfer'
  BY <1>2 DEF ReadEof, Goto, IInv, Transfer, Transferring, Opening, BeforeOpen,
         InCopy, SeenPCs
<1>6. Reported'
  <2>1. "dst" \in resources' /\ "short" \notin resources'
    BY <1>2 DEF ReadEof, IInv, Transfer, Transferring
  <2>2. op = "move" => Carried(cur)
    <3>1. dst[cur].there /\ (~ShortWrites => dst[cur].good)
      BY <1>2, Zenon DEF IInv, Transfer, Transferring
    <3>2. pos \in Nat /\ size[cur] \in Nat /\ dst[cur].upto \in Nat
      BY <1>2 DEF IInv, TypeOK, FilesOK, TransferOK
    <3>3. /\ dst[cur].upto = pos
          /\ op = "move" => dst[cur].from = 0 /\ pos <= size[cur]
      BY <1>2, <3>2 DEF IInv, Transfer, Transferring
    <3>4. QED BY <1>2, <3>1, <3>2, <3>3 DEF Carried
  <2>3. op = "move" => Carried(cur)'
    BY <2>2 DEF ReadEof, Carried
  <2>4. QED BY <2>1, <2>3 DEF ReadEof, Goto, Reported, Tail, BeforeOpen, Carried
<1>7. QED BY <1>1, <1>3, <1>4, <1>5, <1>6 DEF IInv, TypeOK

\* Write keeps the inductive invariant.
LEMMA WriteStep == ASSUME IInv, Write PROVE IInv'
<1>1. /\ cur \in Files /\ op # "none" /\ present[cur] /\ pc = "write"
      /\ n_read \in Nat /\ pos \in Nat /\ dst[cur] \in Content
  BY DEF Write, IInv, Place, SeenPCs, TypeOK, FilesOK, TransferOK
<1>2. /\ {"short", "dst"} \subseteq resources
      /\ dst[cur].upto + n_read = pos
      /\ op = "move" => do_reget = 0 /\ dst[cur].from = 0 /\ pos <= size[cur]
  BY <1>1 DEF IInv, Transfer, Transferring, InCopy, SeenPCs
<1>3. dst[cur].there /\ (~ShortWrites => dst[cur].good /\ dst[cur].upto = buf)
  BY <1>1, Zenon DEF IInv, Transfer, Transferring
<1>. DEFINE c == Stored(dst[cur], n_read)
<1>4. /\ c \in Content
      /\ c.from = dst[cur].from
      /\ c.upto = dst[cur].upto + n_read
      /\ c.there
      /\ ~ShortWrites => c.good
  BY ZenonT(60), <1>1, <1>3, StoredBytes
<1>5. dst' = [dst EXCEPT ![cur] = c]
  BY DEF Write
<1>. HIDE DEF c
<1>6. FilesOK' /\ Ranges' /\ NothingLost' /\ dst'[cur] = c
  <2>1. c.from <= c.upto
    BY <1>1, <1>4 DEF IInv, Ranges
  <2>2. QED BY <1>1, <1>4, <1>5, <2>1, TargetFrame DEF Write
<1>7. PanelOK' /\ ControlOK' /\ TransferOK'
  BY DEF Write, Goto, NoAnswer, IInv, TypeOK, PanelOK, ControlOK, TransferOK,
     PCs
<1>8. Place'
  BY <1>1 DEF Write, Goto, Place, MovePCs, SeenPCs
<1>9. Transfer'
  BY <1>1, <1>2, <1>4, <1>6 DEF Write, Goto, Transfer, Transferring, Opening,
     BeforeOpen, InCopy
<1>10. Reported'
  BY DEF Write, Goto, Reported, Tail, BeforeOpen
<1>11. QED BY <1>6, <1>7, <1>8, <1>9, <1>10 DEF IInv, TypeOK

\* WriteShort keeps the inductive invariant.
LEMMA WriteShortStep == ASSUME IInv, WriteShort PROVE IInv'
<1>1. /\ cur \in Files /\ op # "none" /\ present[cur] /\ pc = "write" /\ ShortWrites
      /\ n_read \in Nat /\ pos \in Nat /\ dst[cur] \in Content
  BY DEF WriteShort, IInv, Place, SeenPCs, TypeOK, FilesOK, TransferOK
<1>2. /\ {"short", "dst"} \subseteq resources
      /\ dst[cur].upto + n_read = pos
      /\ op = "move" => do_reget = 0 /\ dst[cur].from = 0 /\ pos <= size[cur]
  BY <1>1 DEF IInv, Transfer, Transferring, InCopy, SeenPCs
<1>3. dst[cur].there
  BY <1>1, Zenon DEF IInv, Transfer, Transferring
<1>4. PICK k \in 1..(n_read - 1) :
         dst' = [dst EXCEPT ![cur] = Stored(dst[cur], k)] /\ n_read' = n_read - k
  BY DEF WriteShort
<1>5. k \in Nat /\ n_read - k \in Nat
  BY <1>1, <1>4
<1>. DEFINE c == Stored(dst[cur], k)
<1>6. c \in Content /\ c.from = dst[cur].from /\ c.upto = dst[cur].upto + k /\ c.there
  BY <1>1, <1>3, <1>5, StoredBytes
<1>7. dst' = [dst EXCEPT ![cur] = c]
  BY <1>4
<1>. HIDE DEF c
<1>8. FilesOK' /\ Ranges' /\ NothingLost' /\ dst'[cur] = c
  <2>1. c.from <= c.upto
    BY <1>1, <1>5, <1>6 DEF IInv, Ranges
  <2>2. QED BY <1>1, <1>6, <1>7, <2>1, TargetFrame DEF WriteShort
<1>9. TransferOK'
  BY <1>4, <1>5 DEF WriteShort, IInv, TypeOK, TransferOK
<1>10. PanelOK' /\ ControlOK'
  BY DEF WriteShort, IInv, TypeOK, PanelOK, ControlOK
<1>11. Place'
  BY <1>1 DEF WriteShort, Place, MovePCs, SeenPCs
<1>12. c.upto + n_read' = pos
  BY <1>1, <1>2, <1>4, <1>5, <1>6
<1>13. Transfer'
  BY <1>1, <1>2, <1>6, <1>8, <1>12 DEF WriteShort, Transfer, Transferring,
     Opening,
     BeforeOpen, InCopy
<1>14. Reported'
  BY <1>1 DEF WriteShort, Reported, Tail, BeforeOpen
<1>15. QED BY <1>8, <1>9, <1>10, <1>11, <1>13, <1>14 DEF IInv, TypeOK

\* WriteFails keeps the inductive invariant.
LEMMA WriteFailsStep == ASSUME IInv, WriteFails PROVE IInv'
<1>1. FilesOK' /\ Ranges' /\ NothingLost'
  BY FilesFrame DEF WriteFails
<1>2. PanelOK' /\ ControlOK' /\ TransferOK'
  BY ErrorDialog DEF IInv, TypeOK, PanelOK, ControlOK, TransferOK, Place, PCs,
         Status, StopAnswers, WriteFails
<1>3. Place' /\ Transfer' /\ Reported'
  BY DEF IInv, TypeOK, PanelOK, Place, Transfer, Reported, Carried, MovePCs,
         SeenPCs, Transferring, Tail, InCopy, BeforeOpen, Opening, WriteFails,
         file_error, Stop, StopAnswers, Again
<1>4. QED BY <1>1, <1>2, <1>3 DEF IInv, TypeOK

\* Progress keeps the inductive invariant.
LEMMA ProgressStep == ASSUME IInv, Progress PROVE IInv'
<1>1. FilesOK' /\ Ranges' /\ NothingLost'
  BY FilesFrame DEF Progress
<1>2. PanelOK' /\ ControlOK' /\ TransferOK'
  BY ProgressWindow DEF IInv, TypeOK, PanelOK, ControlOK, TransferOK, Place,
         PCs, Status, StopAnswers, Progress
<1>3. Place' /\ Transfer' /\ Reported'
  BY DEF IInv, TypeOK, PanelOK, Place, Transfer, Reported, Carried, MovePCs,
         SeenPCs, Transferring, Tail, InCopy, BeforeOpen, Opening, Progress,
         check_buttons, Stop, StopAnswers, NoAnswer
<1>4. QED BY <1>1, <1>2, <1>3 DEF IInv, TypeOK

\* CloseSrc keeps the inductive invariant.
LEMMA CloseSrcStep == ASSUME IInv, CloseSrc PROVE IInv'
<1>1. FilesOK' /\ Ranges' /\ NothingLost'
  BY FilesFrame DEF CloseSrc
<1>2. cur \in Files /\ op # "none" /\ present[cur] /\ pc = "close_src"
  BY DEF CloseSrc, IInv, Place, SeenPCs
<1>3. /\ budget' \in 0..MaxRetry /\ aborted' \in BOOLEAN
      /\ pc' = pc \/ pc' = "close_dst"
      /\ return_status' = return_status \/ return_status' = "abort"
  BY NoDialog, AnotherAttempt, GivingUp DEF CloseSrc, IInv, TypeOK
<1>4. PanelOK' /\ ControlOK' /\ TransferOK'
  BY <1>3 DEF CloseSrc, IInv, TypeOK, PanelOK, ControlOK, TransferOK, PCs,
     Status
<1>5. Place'
  BY <1>2, <1>3 DEF CloseSrc, Place, MovePCs, SeenPCs
<1>6. Transfer'
  BY <1>2, <1>3 DEF CloseSrc, IInv, Transfer, Transferring, Tail, InCopy,
     SeenPCs,
         Opening, BeforeOpen
<1>7. Reported'
  BY <1>2, <1>3 DEF CloseSrc, IInv, Reported, Tail, BeforeOpen, StopAnswers,
     Carried
<1>8. QED BY <1>1, <1>4, <1>5, <1>6, <1>7 DEF IInv, TypeOK

\* CloseDst keeps the inductive invariant.
LEMMA CloseDstStep == ASSUME IInv, CloseDst PROVE IInv'
<1>1. FilesOK' /\ Ranges' /\ NothingLost'
  BY FilesFrame DEF CloseDst
<1>2. cur \in Files /\ op # "none" /\ present[cur] /\ pc = "close_dst"
  BY DEF CloseDst, IInv, Place, SeenPCs
<1>3. /\ budget' \in 0..MaxRetry /\ aborted' \in BOOLEAN
      /\ \/ return_status' = return_status /\ pc' \in {"close_dst", "finish"}
         \/ return_status' \in StopAnswers /\ pc' = "finish"
  BY <1>2, NoDialog, LateErrorDialog DEF CloseDst, IInv, TypeOK
<1>4. PanelOK' /\ ControlOK' /\ TransferOK'
  BY <1>3 DEF CloseDst, IInv, TypeOK, PanelOK, ControlOK, TransferOK, PCs,
     Status,
         StopAnswers
<1>5. Place'
  BY <1>2, <1>3 DEF CloseDst, Place, MovePCs, SeenPCs
<1>6. Transfer'
  BY <1>2, <1>3 DEF CloseDst, IInv, Transfer, Transferring, Tail, InCopy,
     SeenPCs,
         Opening, BeforeOpen
<1>7. Reported'
  BY <1>2, <1>3 DEF CloseDst, IInv, Reported, Tail, BeforeOpen, StopAnswers,
     Carried
<1>8. QED BY <1>1, <1>4, <1>5, <1>6, <1>7 DEF IInv, TypeOK

\* RemoveShortFile keeps the inductive invariant.
LEMMA RemoveShortFileStep == ASSUME IInv, RemoveShortFile PROVE IInv'
<1>1. cur \in Files /\ present[cur]
  BY DEF RemoveShortFile, IInv, Place, SeenPCs
<1>2. FilesOK' /\ Ranges' /\ NothingLost'
  <2>1. CASE dst' = dst
    BY <2>1, FilesFrame DEF RemoveShortFile
  <2>2. CASE dst' = [dst EXCEPT ![cur] = NoFile]
    BY <1>1, <2>2, EmptyTarget, TargetFrame DEF RemoveShortFile
  <2>3. QED BY <2>1, <2>2 DEF RemoveShortFile
<1>3. PanelOK' /\ ControlOK' /\ TransferOK'
  BY DEF RemoveShortFile, Goto, NoAnswer, IInv, TypeOK, PanelOK, ControlOK,
         TransferOK, PCs
<1>4. Place'
  BY <1>1 DEF RemoveShortFile, Goto, IInv, Place, MovePCs, SeenPCs
<1>5. Transfer' /\ Reported'
  BY DEF RemoveShortFile, Goto, IInv, Transfer, Reported, SeenPCs, Transferring,
         Tail, InCopy, BeforeOpen, Opening
<1>6. QED BY <1>2, <1>3, <1>4, <1>5 DEF IInv, TypeOK

\* Finish keeps the inductive invariant.
LEMMA FinishStep == ASSUME IInv, Finish PROVE IInv'
<1>1. FilesOK' /\ Ranges' /\ NothingLost'
  BY FilesFrame DEF Finish
<1>2. PanelOK' /\ ControlOK' /\ TransferOK'
  BY NoDialog DEF IInv, TypeOK, PanelOK, ControlOK, TransferOK, Place, PCs,
         Status, StopAnswers, Finish
<1>3. Place' /\ Transfer' /\ Reported'
  BY DEF IInv, TypeOK, PanelOK, Place, Transfer, Reported, Carried, MovePCs,
         SeenPCs, Transferring, Tail, InCopy, BeforeOpen, Opening, Finish,
         Goto, NoAnswer
<1>4. QED BY <1>1, <1>2, <1>3 DEF IInv, TypeOK

\* Chown keeps the inductive invariant.
LEMMA ChownStep == ASSUME IInv, Chown PROVE IInv'
<1>1. FilesOK' /\ Ranges' /\ NothingLost'
  BY FilesFrame DEF Chown
<1>2. PanelOK' /\ ControlOK' /\ TransferOK'
  BY LateErrorDialog, NoDialog DEF IInv, TypeOK, PanelOK, ControlOK,
         TransferOK, Place, PCs, Status, StopAnswers, Chown
<1>3. Place' /\ Transfer' /\ Reported'
  BY DEF IInv, TypeOK, PanelOK, Place, Transfer, Reported, Carried, MovePCs,
         SeenPCs, Transferring, Tail, InCopy, BeforeOpen, Opening, Chown,
         TempError, Stop, StopAnswers, Again, Goto, NoAnswer
<1>4. QED BY <1>1, <1>2, <1>3 DEF IInv, TypeOK

\* Chmod keeps the inductive invariant.
LEMMA ChmodStep == ASSUME IInv, Chmod PROVE IInv'
<1>1. FilesOK' /\ Ranges' /\ NothingLost'
  BY FilesFrame DEF Chmod
<1>2. PanelOK' /\ ControlOK' /\ TransferOK'
  BY LateErrorDialog, NoDialog DEF IInv, TypeOK, PanelOK, ControlOK,
         TransferOK, Place, PCs, Status, StopAnswers, Chmod
<1>3. Place' /\ Transfer' /\ Reported'
  BY DEF IInv, TypeOK, PanelOK, Place, Transfer, Reported, Carried, MovePCs,
         SeenPCs, Transferring, Tail, InCopy, BeforeOpen, Opening, Chmod,
         TempError, Stop, StopAnswers, Again, Goto, NoAnswer
<1>4. QED BY <1>1, <1>2, <1>3 DEF IInv, TypeOK

\* UpdateOne keeps the inductive invariant.
LEMMA UpdateOneStep == ASSUME IInv, UpdateOne PROVE IInv'
<1>1. FilesOK' /\ Ranges' /\ NothingLost'
  BY FilesFrame DEF UpdateOne
<1>2. cur \in Files /\ op # "none" /\ pc = "update"
  BY DEF UpdateOne, IInv, Place
<1>3. /\ Caller \in {"returned", "move_copied"}
      /\ op = "copy" => Caller = "returned"
      /\ op # "copy" => op = "move"
  BY <1>2 DEF Caller, IInv, TypeOK, PanelOK
<1>4. /\ budget' \in 0..MaxRetry /\ aborted' \in BOOLEAN
      /\ pc' = Caller
      /\ \/ return_status' = return_status
         \/ return_status' \in StopAnswers
  BY NoDialog, ProgressWindow DEF UpdateOne, IInv, TypeOK
<1>5. PanelOK' /\ ControlOK' /\ TransferOK'
  BY <1>3, <1>4 DEF UpdateOne, IInv, TypeOK, PanelOK, ControlOK, TransferOK,
     PCs,
         Status, StopAnswers
<1>6. Place'
  BY <1>2, <1>3, <1>4 DEF UpdateOne, Place, MovePCs, SeenPCs
<1>7. Transfer'
  BY <1>3, <1>4 DEF UpdateOne, Transfer, Transferring, Tail, InCopy, SeenPCs,
         Opening, BeforeOpen
<1>8. op = "move" /\ return_status = "cont" => Carried(cur)
  BY <1>2 DEF IInv, Reported, Tail, StopAnswers
<1>9. Reported'
  BY <1>2, <1>3, <1>4, <1>8 DEF UpdateOne, Reported, Tail, BeforeOpen,
     StopAnswers,
         Carried
<1>10. QED BY <1>1, <1>5, <1>6, <1>7, <1>9 DEF IInv, TypeOK

-----------------------------------------------------------------------------
(* The theorems.                                                            *)

\* The inductive invariant holds when the session starts.
LEMMA InitInv == ASSUME Init PROVE IInv
<1>1. \A c \in {NoFile} \cup {OldFile(n) : n \in OldSizes} :
         c \in Content /\ c.from <= c.upto
  BY EmptyTarget, OldTarget
<1>2. dst \in [Files -> {NoFile} \cup {OldFile(n) : n \in OldSizes}]
  BY DEF Init
<1>3. FilesOK
  <2>1. dst \in [Files -> Content]
    BY <1>1, <1>2
  <2>2. size \in [Files -> Nat] /\ kind \in [Files -> AllKinds]
        /\ obstacle \in [Files -> Obstacles]
    BY DEF Init
  <2>3. QED BY <2>1, <2>2 DEF Init, FilesOK
<1>4. PanelOK
  BY DEF Init, PanelOK
<1>5. ControlOK
  <2>1. budget \in 0..MaxRetry
    BY DEF Init
  <2>2. QED BY <2>1 DEF Init, ControlOK, PCs, Status
<1>6. TransferOK
  BY DEF Init, TransferOK
<1>7. Place /\ Transfer /\ Reported
  BY DEF Init, Place, Transfer, Reported, MovePCs, SeenPCs, Transferring, Tail,
         InCopy, BeforeOpen, Opening
<1>8. Ranges
  BY <1>1, <1>2 DEF Ranges
<1>9. NothingLost
  BY DEF Init, NothingLost
<1>10. QED BY <1>3, <1>4, <1>5, <1>6, <1>7, <1>8, <1>9 DEF IInv, TypeOK

\* No step of panel_operate disturbs the inductive invariant.
LEMMA panel_operate_Step == ASSUME IInv, panel_operate PROVE IInv'
  BY NextFileStep, LastFileStep, FileDoneStep, AbortedStep DEF panel_operate

\* No step of move_file_file does.
LEMMA move_file_file_Step == ASSUME IInv, move_file_file PROVE IInv'
  BY  MoveShowStep, MoveStatFailsStep, MoveStatStep, MoveRenameStep,
     MoveStableSymlinkStep, MoveByCopyStep, MoveCopiedStep,
     UnlinkFailsStep, UnlinkStep
     DEF move_file_file

\* No step of copy_file_file does.
LEMMA copy_file_file_Step == ASSUME IInv, copy_file_file PROVE IInv'
  BY  CopyShowStep, DstStatStep, SrcStatFailsStep, SrcStatStep,
     CopyQueryStep, HardlinkedStep, MakeSpecialStep, RegularStep,
     OpenSrcStep, OpenSrcFailsStep, RegetStep, RegetFailsStep,
     FstatSrcStep, OpenDstStep, OpenDstFailsStep, FstatDstStep,
     ReadNotReadyStep, ReadFailsStep, ReadStep, ReadEofStep,
     WriteStep, WriteShortStep, WriteFailsStep, ProgressStep,
     CloseSrcStep, CloseDstStep, RemoveShortFileStep, FinishStep,
     ChownStep, ChmodStep, UpdateOneStep
     DEF copy_file_file

\* Every step of the specification keeps the inductive invariant.
LEMMA NextInv == IInv /\ [Next]_vars => IInv'
<1>. SUFFICES ASSUME IInv, [Next]_vars PROVE IInv'
  OBVIOUS
<1>1. CASE Next
  BY <1>1, StartOperationStep, IdleStep, panel_operate_Step,
     move_file_file_Step,
     copy_file_file_Step DEF Next
<1>2. CASE UNCHANGED vars
  <2>1. FilesOK' /\ Ranges' /\ NothingLost'
    BY <1>2, FilesFrame DEF vars
  <2>2. PanelOK' /\ ControlOK' /\ TransferOK'
    BY <1>2 DEF vars, IInv, TypeOK, PanelOK, ControlOK, TransferOK
  <2>3. Place' /\ Transfer' /\ Reported'
    BY <1>2 DEF vars, IInv, Place, Transfer, Reported, Carried
  <2>4. QED BY <2>1, <2>2, <2>3 DEF IInv, TypeOK
<1>3. QED BY <1>1, <1>2

\* The inductive invariant is an invariant.
THEOREM Invariance == Spec => []IInv
  BY InitInv, NextInv, PTL DEF Spec

\* The variables keep their types whatever the number and the sizes of the
\* files, the buffer size and the faults that occur.
THEOREM TypeCorrectness == Spec => []TypeOK
<1>1. IInv => TypeOK
  BY DEF IInv
<1>2. QED BY <1>1, Invariance, PTL

\* move_file_file removes a source only when its target has received as many
\* bytes as the source has, whichever system calls fail and whatever the user
\* answers.
THEOREM MoveCounts == Spec => []MoveCountsAll
<1>1. IInv => MoveCountsAll
  BY DEF IInv, NothingLost, Carried, MoveCountsAll
<1>2. QED BY <1>1, Invariance, PTL

\* If no write is short, those bytes are the bytes of the source, each once
\* and in order: moving never loses data.
THEOREM MoveSafety == ~ShortWrites => (Spec => []MoveNeverLoses)
<1>. SUFFICES ASSUME ~ShortWrites PROVE Spec => []MoveNeverLoses
  OBVIOUS
<1>1. IInv => MoveNeverLoses
  BY Zenon DEF IInv, NothingLost, Carried, MoveNeverLoses, Whole
<1>2. QED BY <1>1, Invariance, PTL

-----------------------------------------------------------------------------
(***************************************************************************)
(* What a transfer reports and leaves behind is what was decided about the *)
(* file: the answers of the replace dialog, the tags and Abort, for every  *)
(* number and size of files, every buffer and every pattern of errors and  *)
(* answers.                                                                *)
(***************************************************************************)

Looking == {"copy", "dst_stat", "src_stat", "copy_query"}

\* What to do with the target has not been decided yet.
Unasked == \/ pc \in {"move", "move_stat"}
           \/ op = "copy" /\ pc \in Looking

\* It has been decided, and the target is as it was.
Agreed == \/ pc \in {"move_rename", "by_kind"} \cup Opening
          \/ op = "move" /\ pc \in Looking

\* A target that is as the operation found it.
Fresh(f) ==
    dst[f].there => dst[f].from = 0 /\ dst[f].upto = 0 /\ dst[f].old = base[f]

\* The files that are still to come, and the one whose turn it is.
Queue ==
    /\ pc = "idle" => cur = 0
    /\ op # "none" => op \in Ops /\ ops > 0
    /\ pc \notin {"idle", "next"} => marked[cur]
    /\ pc # "idle" => \A f \in Files : f > cur =>
          decided[f] = "none" /\ (marked[f] /\ present[f] => Fresh(f))
    /\ Unasked => decided[cur] = "none" /\ (present[cur] => Fresh(cur))

\* do_append carries the decision from the dialog to the open.
Agreement ==
    /\ Agreed /\ do_append => Fresh(cur)
    /\ Agreed /\ decided[cur] \in {"append", "reget"} => do_append

\* The loop has seen the end of the source.
Received == "dst" \in resources /\ "short" \notin resources

Arrived(f) ==
    /\ dst[f].there /\ dst[f].upto >= size[f]
    /\ ~ShortWrites => dst[f].good

\* Success is reported of what has arrived.
Finished ==
    /\ op = "copy" /\ pc \in {"dst_stat", "src_stat", "copy_query"}
          => return_status # "cont"
    /\ pc = "by_kind" /\ return_status = "cont" => dst[cur].there
    /\ pc = "copy_query" => dst[cur].there \/ obstacle[cur] = "same"
    /\ pc \in Tail => return_status \in StopAnswers \/ Received
    /\ pc \in Tail /\ Received => Arrived(cur)
    /\ pc \in {"chown", "chmod"} => Received
    /\ Succeeded => Arrived(cur) /\ (op = "move" => ~present[cur])

\* While no later error can take its place, Abort is handed on to
\* panel_operate.
AbortStands ==
    ~LateErrors /\ aborted /\ pc # "idle" =>
        /\ return_status = "abort"
        /\ pc \in Tail \cup {"move_copied", "returned"}

\* copy_file_file does not return early between the answer Append to the
\* dialog of a move and the open: nothing happens to the source meanwhile,
\* and no operation follows one that was aborted there.
Undisturbed == "move" \in Ops => ~StatRaces /\ MaxOps <= 1

\* No earlier answer is left in do_append.
Appending ==
    /\ do_append =>
         \/ Agreed /\ decided[cur] \in {"append", "reget"}
         \/ /\ op = "move" /\ return_status = "abort"
            /\ pc \in {"move_copied", "returned"}
         \/ pc = "idle" /\ ops = MaxOps
    /\ op = "move" /\ Agreed => obstacle[cur] = "none" /\ present[cur]

\* The source is read from where the decision says.
Resuming ==
    /\ op = "copy" /\ pc \in {"dst_stat", "src_stat", "copy_query"}
          => do_reget = 0
    /\ op = "copy" /\ pc \in {"by_kind", "open_src", "reget"} =>
          do_reget = IF decided[cur] = "reget" THEN base[cur] ELSE 0
    /\ pc = "reget" => pos = 0
    /\ op = "copy" /\ pc \in {"fstat_src", "open_dst"} =>
          pos = IF decided[cur] = "reget" THEN base[cur] ELSE 0

AsDecided(f) ==
    /\ decided[f] \in {"none", "overwrite"}
          => dst[f].old = 0 /\ dst[f].from = 0
    /\ decided[f] = "append" => dst[f].old = base[f] /\ dst[f].from = 0
    /\ decided[f] = "reget" /\ op = "copy"
          => dst[f].old = base[f] /\ dst[f].from = base[f]

\* The target of the file that is being transferred, or was with success.
Kept ==
    \/ pc \in Transferring
    \/ pc \in Tail /\ Received
    \/ pc \in {"move_copied", "unlink", "returned"} /\ return_status = "cont"
    => AsDecided(cur)

Answered ==
    /\ Queue /\ Agreement /\ AppendKeepsOld /\ Finished /\ AbortStands
    /\ Undisturbed => Appending /\ Resuming /\ Kept

USE SizeAssumption DEF fixed, disk, panel, globals, xfer, ghost, Files, Content

-----------------------------------------------------------------------------
(* What a step within one file leaves alone.                                *)

\* A step within the turn of a file leaves alone the tags, the place in the
\* list, and all other files.
Within ==
    /\ UNCHANGED <<size, kind, obstacle, marked, op, cur, ops, base>>
    /\ pc \notin {"idle", "next"} /\ pc' \notin {"idle", "next"}
    /\ cur \in Files
    /\ \A f \in Files : f # cur => /\ dst'[f] = dst[f]
                                   /\ present'[f] = present[f]
                                   /\ decided'[f] = decided[f]

LEMMA OneFile ==
    ASSUME IInv, move_file_file \/ copy_file_file
    PROVE  Within
<1> USE DEF Within, IInv, TypeOK, FilesOK, PanelOK, Place, PCs, MovePCs,
            SeenPCs, Goto, Return, NoAnswer, check_abort, check_buttons,
            file_error, TempError, Stop, StopAnswers, Again, Caller,
            query_replace
<1>1. CASE MoveShow
  BY <1>1 DEF MoveShow
<1>2. CASE MoveStatFails
  BY <1>2 DEF MoveStatFails
<1>3. CASE MoveStat
  BY <1>3 DEF MoveStat
<1>4. CASE MoveRename
  BY <1>4 DEF MoveRename
<1>5. CASE MoveStableSymlink
  BY <1>5 DEF MoveStableSymlink
<1>6. CASE MoveByCopy
  BY <1>6 DEF MoveByCopy
<1>7. CASE MoveCopied
  BY <1>7 DEF MoveCopied
<1>8. CASE UnlinkFails
  BY <1>8 DEF UnlinkFails
<1>9. CASE Unlink
  BY <1>9 DEF Unlink
<1>10. CASE CopyShow
  BY <1>10 DEF CopyShow
<1>11. CASE DstStat
  BY <1>11 DEF DstStat
<1>12. CASE SrcStatFails
  BY <1>12 DEF SrcStatFails
<1>13. CASE SrcStat
  BY <1>13 DEF SrcStat
<1>14. CASE CopyQuery
  BY <1>14 DEF CopyQuery
<1>15. CASE Hardlinked
  BY <1>15 DEF Hardlinked
<1>16. CASE MakeSpecial
  BY <1>16 DEF MakeSpecial
<1>17. CASE Regular
  BY <1>17 DEF Regular
<1>18. CASE OpenSrc
  BY <1>18 DEF OpenSrc
<1>19. CASE OpenSrcFails
  BY <1>19 DEF OpenSrcFails
<1>20. CASE Reget
  BY <1>20 DEF Reget
<1>21. CASE RegetFails
  BY <1>21 DEF RegetFails
<1>22. CASE FstatSrc
  BY <1>22 DEF FstatSrc
<1>23. CASE OpenDst
  BY <1>23 DEF OpenDst
<1>24. CASE OpenDstFails
  BY <1>24 DEF OpenDstFails
<1>25. CASE FstatDst
  BY <1>25 DEF FstatDst
<1>26. CASE ReadNotReady
  BY <1>26 DEF ReadNotReady
<1>27. CASE ReadFails
  BY <1>27 DEF ReadFails
<1>28. CASE Read
  BY <1>28 DEF Read
<1>29. CASE ReadEof
  BY <1>29 DEF ReadEof
<1>30. CASE Write
  BY <1>30 DEF Write
<1>31. CASE WriteShort
  BY <1>31 DEF WriteShort
<1>32. CASE WriteFails
  BY <1>32 DEF WriteFails
<1>33. CASE Progress
  BY <1>33 DEF Progress
<1>34. CASE CloseSrc
  BY <1>34 DEF CloseSrc
<1>35. CASE CloseDst
  BY <1>35 DEF CloseDst
<1>36. CASE RemoveShortFile
  BY <1>36 DEF RemoveShortFile
<1>37. CASE Finish
  BY <1>37 DEF Finish
<1>38. CASE Chown
  BY <1>38 DEF Chown
<1>39. CASE Chmod
  BY <1>39 DEF Chmod
<1>40. CASE UpdateOne
  BY <1>40 DEF UpdateOne
<1>41. QED
  BY <1>1, <1>2, <1>3, <1>4, <1>5, <1>6, <1>7, <1>8, <1>9, <1>10, <1>11,
     <1>12, <1>13, <1>14, <1>15, <1>16, <1>17, <1>18, <1>19, <1>20, <1>21,
     <1>22, <1>23, <1>24, <1>25, <1>26, <1>27, <1>28, <1>29, <1>30, <1>31,
     <1>32, <1>33, <1>34, <1>35, <1>36, <1>37, <1>38, <1>39, <1>40
     DEF move_file_file, copy_file_file

\* An answer of the replace dialog that lets the transfer go on decides about
\* the file; any other changes nothing but the status.
LEMMA Deciding ==
    ASSUME IInv, cur \in Files, NEW go, NEW stop, query_replace(go, stop)
    PROVE  \/ /\ pc' = go /\ return_status' = "cont" /\ (aborted' => aborted)
              /\ decided'[cur] \in {"overwrite", "append", "reget"}
              /\ do_append' <=> do_append \/ decided'[cur] # "overwrite"
              /\ do_reget' = IF decided'[cur] = "reget" THEN SizeOf(dst[cur])
                                                        ELSE do_reget
           \/ /\ pc' = stop /\ return_status' \in StopAnswers
              /\ aborted' => aborted \/ return_status' = "abort"
              /\ UNCHANGED <<decided, do_append, do_reget>>
<1>. DEFINE Asked == IF replace_result \in AllTargets THEN {replace_result}
                                                      ELSE Offered(cur)
<1>1. PICK r \in Asked : \E v \in Verdict(r, cur) :
        /\ do_reget' = IF r = "reget" THEN SizeOf(dst[cur]) ELSE do_reget
        /\ do_append' = (do_append \/ r \in {"append", "reget"})
        /\ return_status' = v
        /\ aborted' = (aborted \/ v = "abort")
        /\ decided' = IF v = "cont" THEN [decided EXCEPT ![cur] = Decision(r)]
                                    ELSE decided
        /\ pc' = IF v = "cont" THEN go ELSE stop
  BY Zenon DEF query_replace
<1>2. PICK v \in Verdict(r, cur) :
        /\ do_reget' = IF r = "reget" THEN SizeOf(dst[cur]) ELSE do_reget
        /\ do_append' = (do_append \/ r \in {"append", "reget"})
        /\ return_status' = v
        /\ aborted' = (aborted \/ v = "abort")
        /\ decided' = IF v = "cont" THEN [decided EXCEPT ![cur] = Decision(r)]
                                    ELSE decided
        /\ pc' = IF v = "cont" THEN go ELSE stop
  BY <1>1
<1>3. r \in ThisTarget \cup AllTargets
  BY DEF Offered, ThisTarget, AllTargets
<1>4. /\ v \in {"cont", "skip", "abort"}
      /\ r \in {"append", "reget"} => v = "cont"
  BY <1>2, <1>3 DEF Verdict, ThisTarget, AllTargets
<1>5. CASE v = "cont"
  <2>1. decided'[cur] = Decision(r)
    BY <1>2, <1>5 DEF IInv, TypeOK, PanelOK
  <2>2. /\ r = "append" <=> Decision(r) = "append"
        /\ r = "reget" <=> Decision(r) = "reget"
        /\ Decision(r) \in {"overwrite", "append", "reget"}
    BY DEF Decision
  <2>3. QED
    BY <1>2, <1>5, <2>1, <2>2
<1>6. CASE v # "cont"
  BY <1>2, <1>4, <1>6 DEF StopAnswers, IInv, TypeOK, ControlOK
<1>7. QED
  BY <1>5, <1>6

\* The length of a target that is as the operation found it.
LEMMA FreshSize ==
    ASSUME IInv, NEW f \in Files, Fresh(f), dst[f].there
    PROVE  SizeOf(dst[f]) = base[f]
  BY DEF IInv, TypeOK, FilesOK, Fresh, SizeOf

\* What is known of a target that has been made a copy of its source at once.
CopyOf(c, f) ==
    c.there /\ c.good /\ c.from = 0 /\ c.upto = size[f] /\ c.old = 0

LEMMA WholeCopy ==
    ASSUME FilesOK, NEW f \in Files, dst' = [dst EXCEPT ![f] = Source(f)]
    PROVE  CopyOf(dst'[f], f)
  BY DEF FilesOK, Source, CopyOf

\* The other files keep their place in the queue, and the old contents of
\* their targets.
LEMMA QueueFrame ==
    ASSUME IInv, Queue, ~Unasked', Within
    PROVE  Queue'
<1> USE DEF Within
<1>1. ASSUME NEW f \in Files, f > cur
      PROVE  decided'[f] = "none" /\ (marked'[f] /\ present'[f] => Fresh(f)')
  <2>1. /\ f # cur /\ decided[f] = "none"
        /\ marked[f] /\ present[f] => Fresh(f)
    BY <1>1 DEF Queue
  <2>2. /\ dst'[f] = dst[f] /\ present'[f] = present[f]
        /\ decided'[f] = decided[f]
    BY <2>1
  <2>3. QED
    BY <2>1, <2>2 DEF Fresh
<1>2. QED
  BY <1>1 DEF Queue

LEMMA OldFrame ==
    ASSUME AppendKeepsOld, Within,
           decided'[cur] \in {"append", "reget"} /\ dst'[cur].there
              => dst'[cur].old + dst'[cur].from >= base[cur]
    PROVE  AppendKeepsOld'
  BY DEF AppendKeepsOld, Within

LEMMA MoveShow_Answered ==
    ASSUME IInv, Answered, MoveShow
    PROVE  Answered'
<1> USE DEF Within, IInv, TypeOK, FilesOK, PanelOK, Place, MovePCs, SeenPCs,
            MoveShow, check_abort, Stop, StopAnswers, NoAnswer
<1>1. Within
  BY OneFile DEF move_file_file
<1>2. Queue'
  BY <1>1 DEF Answered, Queue, Unasked, Looking, Fresh
<1>3. Agreement'
  BY <1>1 DEF Answered, Queue, Agreement, Agreed, Unasked, Looking, Opening,
     Fresh
<1>4. AppendKeepsOld'
  BY <1>1 DEF Answered, Agreement, Agreed, AppendKeepsOld, Fresh, Looking,
     Opening
<1>5. Finished'
  BY <1>1 DEF Answered, Finished, Succeeded, Arrived, Received, Tail,
     Transfer, Reported, Transferring, BeforeOpen, Opening, Carried
<1>6. AbortStands'
  BY <1>1 DEF Answered, AbortStands, Tail
<1>7. Undisturbed => Appending'
  BY <1>1 DEF Answered, Queue, Appending, Agreed, Looking, Opening,
     Undisturbed
<1>8. Undisturbed => Resuming'
  BY <1>1 DEF Answered, Queue, Unasked, Looking, Resuming, Transfer,
     Undisturbed
<1>9. Undisturbed => Kept'
  BY <1>1 DEF Answered, Kept, AsDecided, Received, Transferring, Tail,
     Transfer, Reported, Appending, Resuming, Agreed, Opening, Looking
<1>10. QED
  BY <1>2, <1>3, <1>4, <1>5, <1>6, <1>7, <1>8, <1>9 DEF Answered

LEMMA MoveStatFails_Answered ==
    ASSUME IInv, Answered, MoveStatFails
    PROVE  Answered'
<1> USE DEF Within, IInv, TypeOK, FilesOK, PanelOK, Place, MovePCs, SeenPCs,
            MoveStatFails, file_error, Stop, StopAnswers, Again
<1>1. Within
  BY OneFile DEF move_file_file
<1>2. Queue'
  BY <1>1 DEF Answered, Queue, Unasked, Looking, Fresh
<1>3. Agreement'
  BY <1>1 DEF Answered, Queue, Agreement, Agreed, Unasked, Looking, Opening,
     Fresh
<1>4. AppendKeepsOld'
  BY <1>1 DEF Answered, Agreement, Agreed, AppendKeepsOld, Fresh, Looking,
     Opening
<1>5. Finished'
  BY <1>1 DEF Answered, Finished, Succeeded, Arrived, Received, Tail,
     Transfer, Reported, Transferring, BeforeOpen, Opening, Carried
<1>6. AbortStands'
  BY <1>1 DEF Answered, AbortStands, Tail
<1>7. Undisturbed => Appending'
  BY <1>1 DEF Answered, Queue, Appending, Agreed, Looking, Opening,
     Undisturbed
<1>8. Undisturbed => Resuming'
  BY <1>1 DEF Answered, Queue, Unasked, Looking, Resuming, Transfer,
     Undisturbed
<1>9. Undisturbed => Kept'
  BY <1>1 DEF Answered, Kept, AsDecided, Received, Transferring, Tail,
     Transfer, Reported, Appending, Resuming, Agreed, Opening, Looking
<1>10. QED
  BY <1>2, <1>3, <1>4, <1>5, <1>6, <1>7, <1>8, <1>9 DEF Answered

LEMMA MoveStat_Answered ==
    ASSUME IInv, Answered, MoveStat
    PROVE  Answered'
<1> USE DEF Within, IInv, TypeOK, FilesOK, PanelOK, Place, MovePCs, SeenPCs,
            StopAnswers
<1>1. Within
  BY OneFile DEF move_file_file
<1>2. /\ pc = "move_stat" /\ op = "move" /\ present[cur]
      /\ UNCHANGED <<present, dst, resources, pos>>
  BY DEF MoveStat
<1>3. \/ /\ pc' = "returned" /\ return_status' \in StopAnswers
         /\ aborted' => aborted \/ return_status' = "abort"
         /\ UNCHANGED <<decided, do_append, do_reget>>
      \/ /\ pc' = "move_rename" /\ obstacle[cur] = "none"
         /\ aborted' => aborted
         /\ do_append' <=> do_append \/ decided'[cur] \in {"append", "reget"}
  <2>1. CASE obstacle[cur] # "none"
    BY <2>1 DEF MoveStat, Return, NoAnswer
  <2>2. CASE obstacle[cur] = "none" /\ dst[cur].there /\ ConfirmOverwrite
    <3>1. query_replace("move_rename", "returned")
      BY <2>2 DEF MoveStat
    <3>2. QED
      BY <1>1, <2>2, <3>1, Deciding
  <2>3. CASE /\ obstacle[cur] = "none"
             /\ ~(dst[cur].there /\ ConfirmOverwrite)
    <3>1. /\ Goto("move_rename") /\ UNCHANGED <<do_append, do_reget>>
          /\ decided'[cur] \in {"none", "overwrite"}
      BY <1>1, <2>3 DEF MoveStat, Answered, Queue, Unasked
    <3>2. QED
      BY <2>3, <3>1 DEF Goto, NoAnswer
  <2>4. QED
    BY <2>1, <2>2, <2>3
<1>4. Queue'
  <2>1. ~Unasked'
    BY <1>1, <1>2, <1>3 DEF Unasked, Looking
  <2>2. QED
    BY <1>1, <2>1, QueueFrame DEF Answered
<1>5. Agreement'
  BY <1>1, <1>2, <1>3 DEF Answered, Queue, Agreement, Agreed, Unasked,
     Looking, Opening, Fresh
<1>6. AppendKeepsOld'
  <2>1. decided'[cur] \in {"append", "reget"} /\ dst'[cur].there
           => dst'[cur].old + dst'[cur].from >= base[cur]
    BY SMTT(30), <1>1, <1>2, <1>3 DEF Answered, Agreement, Agreed, AppendKeepsOld,
       Queue, Unasked, Looking, Fresh
  <2>2. QED
    BY <1>1, <2>1, OldFrame DEF Answered
<1>7. Finished'
  BY <1>1, <1>2, <1>3 DEF Answered, Finished, Succeeded, Arrived, Received,
     Tail, Transfer, Reported, Transferring, BeforeOpen, Opening, Carried
<1>8. AbortStands'
  BY <1>1, <1>2, <1>3 DEF Answered, AbortStands, Tail
<1>9. Undisturbed => Appending'
  BY <1>1, <1>2, <1>3 DEF Answered, Queue, Appending, Agreed, Looking,
     Opening, Undisturbed
<1>10. Undisturbed => Resuming'
  BY <1>1, <1>2, <1>3 DEF Answered, Queue, Unasked, Looking, Resuming,
     Transfer, Undisturbed
<1>11. Undisturbed => Kept'
  BY <1>1, <1>2, <1>3 DEF Answered, Kept, AsDecided, Received, Transferring,
     Tail, Transfer, Reported, Appending, Resuming, Agreed, Opening, Looking
<1>12. QED
  BY <1>4, <1>5, <1>6, <1>7, <1>8, <1>9, <1>10, <1>11 DEF Answered

LEMMA MoveRename_Answered ==
    ASSUME IInv, Answered, MoveRename
    PROVE  Answered'
<1> USE DEF Within, IInv, TypeOK, FilesOK, PanelOK, Place, MovePCs, SeenPCs,
            MoveRename, Return, NoAnswer
<1>1. Within
  BY OneFile DEF move_file_file
<1>2. CopyOf(dst'[cur], cur) /\ ~present'[cur]
  BY <1>1, WholeCopy
<1>3. Queue'
  <2>1. ~Unasked'
    BY <1>1, <1>2 DEF Unasked, Looking
  <2>2. QED
    BY <1>1, <2>1, QueueFrame DEF Answered
<1>4. Agreement'
  BY <1>1, <1>2 DEF Answered, Queue, Agreement, Agreed, Unasked, Looking,
     Opening, Fresh
<1>5. AppendKeepsOld'
  <2>1. decided'[cur] \in {"append", "reget"} /\ dst'[cur].there
           => dst'[cur].old + dst'[cur].from >= base[cur]
    BY <1>1, <1>2 DEF Answered, Agreement, Agreed, AppendKeepsOld
  <2>2. QED
    BY <1>1, <2>1, OldFrame DEF Answered
<1>6. Finished'
  BY SMTT(30), <1>1, <1>2 DEF Answered, Finished, Succeeded, Arrived, CopyOf, Received,
     Tail, Transferring, BeforeOpen, Opening
<1>7. AbortStands'
  BY <1>1, <1>2 DEF Answered, AbortStands, Tail
<1>8. Undisturbed => Appending'
  BY <1>1, <1>2 DEF Answered, Queue, Appending, Agreed, Looking, Opening,
     Undisturbed
<1>9. Undisturbed => Resuming'
  BY <1>1, <1>2 DEF Answered, Queue, Unasked, Looking, Resuming, Transfer,
     Undisturbed
<1>10. Undisturbed => Kept'
  BY <1>1, <1>2 DEF Answered, Agreement, Agreed, Kept, AsDecided,
     Transferring, Tail, CopyOf
<1>11. QED
  BY <1>3, <1>4, <1>5, <1>6, <1>7, <1>8, <1>9, <1>10 DEF Answered

LEMMA MoveStableSymlink_Answered ==
    ASSUME IInv, Answered, MoveStableSymlink
    PROVE  Answered'
<1> USE DEF Within, IInv, TypeOK, FilesOK, PanelOK, Place, MovePCs, SeenPCs,
            StopAnswers
<1>1. Within
  BY OneFile DEF move_file_file
<1>2. /\ pc = "move_rename" /\ op = "move" /\ ~do_append
      /\ UNCHANGED <<present, decided, do_append, do_reget, resources, pos>>
  BY DEF MoveStableSymlink
<1>3. \/ /\ pc' = "unlink" /\ return_status' = "cont" /\ aborted' = aborted
         /\ CopyOf(dst'[cur], cur)
      \/ pc' = "move_rename" /\ return_status' = "retry" /\ aborted' = aborted
      \/ /\ pc' = "returned" /\ return_status' \in StopAnswers
         /\ aborted' => aborted \/ return_status' = "abort"
  <2>1. CASE pc' = "unlink" /\ return_status' = "cont" /\ NoAnswer
             /\ dst' = [dst EXCEPT ![cur] = Source(cur)]
    BY <1>1, <2>1, WholeCopy DEF NoAnswer
  <2>2. CASE file_error("returned")
    BY <1>2, <2>2 DEF file_error, Stop, Again
  <2>3. QED
    BY <2>1, <2>2 DEF MoveStableSymlink
<1>4. Queue'
  <2>1. ~Unasked'
    BY <1>1, <1>2, <1>3 DEF Unasked, Looking
  <2>2. QED
    BY <1>1, <2>1, QueueFrame DEF Answered
<1>5. Agreement'
  BY <1>1, <1>2, <1>3 DEF Answered, Queue, Agreement, Agreed, Unasked,
     Looking, Opening, Fresh
<1>6. AppendKeepsOld'
  <2>1. decided'[cur] \in {"append", "reget"} /\ dst'[cur].there
           => dst'[cur].old + dst'[cur].from >= base[cur]
    BY <1>1, <1>2, <1>3 DEF Answered, Agreement, Agreed, AppendKeepsOld
  <2>2. QED
    BY <1>1, <2>1, OldFrame DEF Answered
<1>7. Finished'
  BY <1>1, <1>2, <1>3 DEF Answered, Finished, Succeeded, Arrived, CopyOf,
     Received, Tail, Transferring, BeforeOpen, Opening
<1>8. AbortStands'
  BY <1>1, <1>2, <1>3 DEF Answered, AbortStands, Tail
<1>9. Undisturbed => Appending'
  BY <1>1, <1>2, <1>3 DEF Answered, Queue, Appending, Agreed, Looking,
     Opening, Undisturbed
<1>10. Undisturbed => Resuming'
  BY <1>1, <1>2, <1>3 DEF Answered, Queue, Unasked, Looking, Resuming,
     Transfer, Undisturbed
<1>11. Undisturbed => Kept'
  BY <1>1, <1>2, <1>3 DEF Answered, Agreement, Agreed, Kept, AsDecided,
     Transferring, Tail, CopyOf
<1>12. QED
  BY <1>4, <1>5, <1>6, <1>7, <1>8, <1>9, <1>10, <1>11 DEF Answered

LEMMA MoveByCopy_Answered ==
    ASSUME IInv, Answered, MoveByCopy
    PROVE  Answered'
<1> USE DEF Within, IInv, TypeOK, FilesOK, PanelOK, Place, MovePCs, SeenPCs,
            MoveByCopy, Goto, NoAnswer
<1>1. Within
  BY OneFile DEF move_file_file
<1>2. Queue'
  BY <1>1 DEF Answered, Queue, Unasked, Looking, Fresh
<1>3. Agreement'
  BY <1>1 DEF Answered, Queue, Agreement, Agreed, Unasked, Looking, Opening,
     Fresh
<1>4. AppendKeepsOld'
  BY <1>1 DEF Answered, Agreement, Agreed, AppendKeepsOld, Fresh, Looking,
     Opening
<1>5. Finished'
  BY <1>1 DEF Answered, Finished, Succeeded, Arrived, Received, StopAnswers,
     Tail, Transfer, Reported, Transferring, BeforeOpen, Opening, Carried
<1>6. AbortStands'
  BY <1>1 DEF Answered, AbortStands, Tail
<1>7. Undisturbed => Appending'
  BY <1>1 DEF Answered, Queue, Appending, Agreed, Looking, Opening,
     Undisturbed
<1>8. Undisturbed => Resuming'
  BY <1>1 DEF Answered, Queue, Unasked, Looking, Resuming, Transfer,
     Undisturbed
<1>9. Undisturbed => Kept'
  BY <1>1 DEF Answered, Kept, AsDecided, Received, StopAnswers, Transferring,
     Tail, Transfer, Reported, Appending, Resuming, Agreed, Opening, Looking
<1>10. QED
  BY <1>2, <1>3, <1>4, <1>5, <1>6, <1>7, <1>8, <1>9 DEF Answered

LEMMA MoveCopied_Answered ==
    ASSUME IInv, Answered, MoveCopied
    PROVE  Answered'
<1> USE DEF Within, IInv, TypeOK, FilesOK, PanelOK, Place, MovePCs, SeenPCs,
            MoveCopied, Goto, check_buttons, Stop, StopAnswers, NoAnswer
<1>1. Within
  BY OneFile DEF move_file_file
<1>2. Queue'
  BY SMTT(30), <1>1 DEF Answered, Queue, Unasked, Looking, Fresh
<1>3. Agreement'
  BY <1>1 DEF Answered, Queue, Agreement, Agreed, Unasked, Looking, Opening,
     Fresh
<1>4. AppendKeepsOld'
  BY <1>1 DEF Answered, Agreement, Agreed, AppendKeepsOld, Fresh, Looking,
     Opening
<1>5. Finished'
  BY <1>1 DEF Answered, Finished, Succeeded, Arrived, Received, Tail,
     Transfer, Reported, Transferring, BeforeOpen, Opening, Carried
<1>6. AbortStands'
  BY <1>1 DEF Answered, AbortStands, Tail
<1>7. Undisturbed => Appending'
  BY <1>1 DEF Answered, Queue, Appending, Agreed, Looking, Opening,
     Undisturbed
<1>8. Undisturbed => Resuming'
  BY <1>1 DEF Answered, Queue, Unasked, Looking, Resuming, Transfer,
     Undisturbed
<1>9. Undisturbed => Kept'
  BY <1>1 DEF Answered, Kept, AsDecided, Received, Transferring, Tail,
     Transfer, Reported, Appending, Resuming, Agreed, Opening, Looking
<1>10. QED
  BY <1>2, <1>3, <1>4, <1>5, <1>6, <1>7, <1>8, <1>9 DEF Answered

LEMMA UnlinkFails_Answered ==
    ASSUME IInv, Answered, UnlinkFails
    PROVE  Answered'
<1> USE DEF Within, IInv, TypeOK, FilesOK, PanelOK, Place, MovePCs, SeenPCs,
            UnlinkFails, file_error, Stop, StopAnswers, Again
<1>1. Within
  BY OneFile DEF move_file_file
<1>2. Queue'
  BY SMTT(30), <1>1 DEF Answered, Queue, Unasked, Looking, Fresh
<1>3. Agreement'
  BY <1>1 DEF Answered, Queue, Agreement, Agreed, Unasked, Looking, Opening,
     Fresh
<1>4. AppendKeepsOld'
  BY <1>1 DEF Answered, Agreement, Agreed, AppendKeepsOld, Fresh, Looking,
     Opening
<1>5. Finished'
  BY <1>1 DEF Answered, Finished, Succeeded, Arrived, Received, Tail,
     Transfer, Reported, Transferring, BeforeOpen, Opening, Carried
<1>6. AbortStands'
  BY <1>1 DEF Answered, AbortStands, Tail
<1>7. Undisturbed => Appending'
  BY <1>1 DEF Answered, Queue, Appending, Agreed, Looking, Opening,
     Undisturbed
<1>8. Undisturbed => Resuming'
  BY <1>1 DEF Answered, Queue, Unasked, Looking, Resuming, Transfer,
     Undisturbed
<1>9. Undisturbed => Kept'
  BY <1>1 DEF Answered, Kept, AsDecided, Received, Transferring, Tail,
     Transfer, Reported, Appending, Resuming, Agreed, Opening, Looking
<1>10. QED
  BY <1>2, <1>3, <1>4, <1>5, <1>6, <1>7, <1>8, <1>9 DEF Answered

LEMMA Unlink_Answered ==
    ASSUME IInv, Answered, Unlink
    PROVE  Answered'
<1> USE DEF Within, IInv, TypeOK, FilesOK, PanelOK, Place, MovePCs, SeenPCs,
            Unlink, Goto, check_buttons, Stop, StopAnswers, NoAnswer
<1>1. Within
  BY OneFile DEF move_file_file
<1>2. Queue'
  BY SMTT(30), <1>1 DEF Answered, Queue, Unasked, Looking, Fresh
<1>3. Agreement'
  BY <1>1 DEF Answered, Queue, Agreement, Agreed, Unasked, Looking, Opening,
     Fresh
<1>4. AppendKeepsOld'
  BY <1>1 DEF Answered, Agreement, Agreed, AppendKeepsOld, Fresh, Looking,
     Opening
<1>5. Finished'
  BY SMTT(30), <1>1 DEF Answered, Finished, Succeeded, Arrived, Received, Tail,
     Transfer, Reported, Transferring, BeforeOpen, Opening, Carried
<1>6. AbortStands'
  BY <1>1 DEF Answered, AbortStands, Tail
<1>7. Undisturbed => Appending'
  BY <1>1 DEF Answered, Queue, Appending, Agreed, Looking, Opening,
     Undisturbed
<1>8. Undisturbed => Resuming'
  BY <1>1 DEF Answered, Queue, Unasked, Looking, Resuming, Transfer,
     Undisturbed
<1>9. Undisturbed => Kept'
  BY <1>1 DEF Answered, Kept, AsDecided, Received, Transferring, Tail,
     Transfer, Reported, Appending, Resuming, Agreed, Opening, Looking
<1>10. QED
  BY <1>2, <1>3, <1>4, <1>5, <1>6, <1>7, <1>8, <1>9 DEF Answered

LEMMA CopyShow_Answered ==
    ASSUME IInv, Answered, CopyShow
    PROVE  Answered'
<1> USE DEF Within, IInv, TypeOK, FilesOK, PanelOK, Place, MovePCs, SeenPCs,
            CopyShow, check_abort, Caller, Stop, StopAnswers, NoAnswer
<1>1. Within
  BY OneFile DEF copy_file_file
<1>2. Queue'
  BY SMTT(30), <1>1 DEF Answered, Queue, Unasked, Looking, Fresh
<1>3. Agreement'
  BY <1>1 DEF Answered, Queue, Agreement, Agreed, Unasked, Looking, Opening,
     Fresh
<1>4. AppendKeepsOld'
  BY <1>1 DEF Answered, Agreement, Agreed, AppendKeepsOld, Fresh, Looking,
     Opening
<1>5. Finished'
  BY <1>1 DEF Answered, Finished, Succeeded, Arrived, Received, Tail,
     Transfer, Reported, Transferring, BeforeOpen, Opening, Carried
<1>6. AbortStands'
  BY <1>1 DEF Answered, AbortStands, Tail
<1>7. Undisturbed => Appending'
  BY <1>1 DEF Answered, Queue, Appending, Agreed, Looking, Opening,
     Undisturbed
<1>8. Undisturbed => Resuming'
  BY <1>1 DEF Answered, Queue, Unasked, Looking, Resuming, Transfer,
     Undisturbed
<1>9. Undisturbed => Kept'
  BY <1>1 DEF Answered, Kept, AsDecided, Received, Transferring, Tail,
     Transfer, Reported, Appending, Resuming, Agreed, Opening, Looking
<1>10. QED
  BY <1>2, <1>3, <1>4, <1>5, <1>6, <1>7, <1>8, <1>9 DEF Answered

LEMMA DstStat_Answered ==
    ASSUME IInv, Answered, DstStat
    PROVE  Answered'
<1> USE DEF Within, IInv, TypeOK, FilesOK, PanelOK, Place, MovePCs, SeenPCs,
            DstStat, Goto, file_error, Caller, Stop, StopAnswers, Again,
            NoAnswer
<1>1. Within
  BY OneFile DEF copy_file_file
<1>2. Queue'
  BY SMTT(30), <1>1 DEF Answered, Queue, Unasked, Looking, Fresh
<1>3. Agreement'
  BY <1>1 DEF Answered, Queue, Agreement, Agreed, Unasked, Looking, Opening,
     Fresh
<1>4. AppendKeepsOld'
  BY <1>1 DEF Answered, Agreement, Agreed, AppendKeepsOld, Fresh, Looking,
     Opening
<1>5. Finished'
  BY <1>1 DEF Answered, Finished, Succeeded, Arrived, Received, Tail,
     Transfer, Reported, Transferring, BeforeOpen, Opening, Carried
<1>6. AbortStands'
  BY <1>1 DEF Answered, AbortStands, Tail
<1>7. Undisturbed => Appending'
  BY <1>1 DEF Answered, Queue, Appending, Agreed, Looking, Opening,
     Undisturbed
<1>8. Undisturbed => Resuming'
  BY <1>1 DEF Answered, Queue, Unasked, Looking, Resuming, Transfer,
     Undisturbed
<1>9. Undisturbed => Kept'
  BY <1>1 DEF Answered, Kept, AsDecided, Received, Transferring, Tail,
     Transfer, Reported, Appending, Resuming, Agreed, Opening, Looking
<1>10. QED
  BY <1>2, <1>3, <1>4, <1>5, <1>6, <1>7, <1>8, <1>9 DEF Answered

LEMMA SrcStatFails_Answered ==
    ASSUME IInv, Answered, SrcStatFails
    PROVE  Answered'
<1> USE DEF Within, IInv, TypeOK, FilesOK, PanelOK, Place, MovePCs, SeenPCs,
            SrcStatFails, file_error, Caller, Stop, StopAnswers, Again
<1>1. Within
  BY OneFile DEF copy_file_file
<1>2. Queue'
  BY SMTT(30), <1>1 DEF Answered, Queue, Unasked, Looking, Fresh
<1>3. Agreement'
  BY <1>1 DEF Answered, Queue, Agreement, Agreed, Unasked, Looking, Opening,
     Fresh
<1>4. AppendKeepsOld'
  BY <1>1 DEF Answered, Agreement, Agreed, AppendKeepsOld, Fresh, Looking,
     Opening
<1>5. Finished'
  BY <1>1 DEF Answered, Finished, Succeeded, Arrived, Received, Tail,
     Transfer, Reported, Transferring, BeforeOpen, Opening, Carried
<1>6. AbortStands'
  BY <1>1 DEF Answered, AbortStands, Tail
<1>7. Undisturbed => Appending'
  BY <1>1 DEF Answered, Queue, Appending, Agreed, Looking, Opening,
     Undisturbed
<1>8. Undisturbed => Resuming'
  BY <1>1 DEF Answered, Queue, Unasked, Looking, Resuming, Transfer,
     Undisturbed
<1>9. Undisturbed => Kept'
  BY <1>1 DEF Answered, Kept, AsDecided, Received, Transferring, Tail,
     Transfer, Reported, Appending, Resuming, Agreed, Opening, Looking
<1>10. QED
  BY <1>2, <1>3, <1>4, <1>5, <1>6, <1>7, <1>8, <1>9 DEF Answered

LEMMA SrcStat_Answered ==
    ASSUME IInv, Answered, SrcStat
    PROVE  Answered'
<1> USE DEF Within, IInv, TypeOK, FilesOK, PanelOK, Place, MovePCs, SeenPCs,
            SrcStat, Goto, NoAnswer
<1>1. Within
  BY OneFile DEF copy_file_file
<1>2. Queue'
  BY <1>1 DEF Answered, Queue, Unasked, Looking, Fresh
<1>3. Agreement'
  BY <1>1 DEF Answered, Queue, Agreement, Agreed, Unasked, Looking, Opening,
     Fresh
<1>4. AppendKeepsOld'
  BY <1>1 DEF Answered, Agreement, Agreed, AppendKeepsOld, Fresh, Looking,
     Opening
<1>5. Finished'
  BY <1>1 DEF Answered, Finished, Succeeded, Arrived, Received, StopAnswers,
     Tail, Transfer, Reported, Transferring, BeforeOpen, Opening, Carried
<1>6. AbortStands'
  BY <1>1 DEF Answered, AbortStands, Tail
<1>7. Undisturbed => Appending'
  BY <1>1 DEF Answered, Queue, Appending, Agreed, Looking, Opening,
     Undisturbed
<1>8. Undisturbed => Resuming'
  BY <1>1 DEF Answered, Queue, Unasked, Looking, Resuming, Transfer,
     Undisturbed
<1>9. Undisturbed => Kept'
  BY <1>1 DEF Answered, Kept, AsDecided, Received, StopAnswers, Transferring,
     Tail, Transfer, Reported, Appending, Resuming, Agreed, Opening, Looking
<1>10. QED
  BY <1>2, <1>3, <1>4, <1>5, <1>6, <1>7, <1>8, <1>9 DEF Answered

LEMMA CopyQuery_Answered ==
    ASSUME IInv, Answered, CopyQuery
    PROVE  Answered'
<1> USE DEF Within, IInv, TypeOK, FilesOK, PanelOK, Place, MovePCs, SeenPCs,
            StopAnswers, Caller
<1>1. Within
  BY OneFile DEF copy_file_file
<1>2. /\ pc = "copy_query" /\ present[cur] /\ op \in {"copy", "move"}
      /\ UNCHANGED <<present, dst, resources, pos>>
  BY DEF CopyQuery
<1>3. \/ /\ pc' = Caller /\ return_status' \in StopAnswers
         /\ aborted' => aborted \/ return_status' = "abort"
         /\ obstacle[cur] = "same" \/ op = "copy"
         /\ UNCHANGED <<decided, do_append, do_reget>>
      \/ /\ op = "copy" /\ pc' = "by_kind" /\ return_status' = "cont"
         /\ obstacle[cur] # "same" /\ (aborted' => aborted)
         /\ decided'[cur] \in {"overwrite", "append", "reget"}
         /\ do_append' <=> do_append \/ decided'[cur] # "overwrite"
         /\ do_reget' = IF decided'[cur] = "reget" THEN SizeOf(dst[cur])
                                                   ELSE do_reget
      \/ /\ op = "move" /\ pc' = "by_kind"
         /\ UNCHANGED <<return_status, aborted, decided, do_append, do_reget>>
  <2>1. CASE obstacle[cur] = "same"
    BY <2>1 DEF CopyQuery, NoAnswer
  <2>2. CASE obstacle[cur] # "same" /\ op = "copy"
    <3>1. query_replace("by_kind", Caller)
      BY <2>2 DEF CopyQuery
    <3>2. QED
      BY <1>1, <2>2, <3>1, Deciding
  <2>3. CASE obstacle[cur] # "same" /\ op = "move"
    BY <2>3 DEF CopyQuery, Goto, NoAnswer
  <2>4. QED
    BY <1>2, <2>1, <2>2, <2>3
<1>4. /\ op = "copy" /\ pc' = "by_kind" =>
            Fresh(cur) /\ dst[cur].there /\ SizeOf(dst[cur]) = base[cur]
      /\ op = "copy" => decided[cur] = "none" /\ do_append \in BOOLEAN
  <2>1. op = "copy" => decided[cur] = "none" /\ Fresh(cur)
    BY <1>2 DEF Answered, Queue, Unasked, Looking
  <2>2. op = "copy" /\ pc' = "by_kind" => dst[cur].there
    BY <1>2, <1>3 DEF Answered, Finished
  <2>3. QED
    BY <1>1, <2>1, <2>2, FreshSize DEF ControlOK
<1>5. Queue'
  <2>1. ~Unasked'
    BY <1>1, <1>2, <1>3, <1>4 DEF Unasked, Looking
  <2>2. QED
    BY <1>1, <2>1, QueueFrame DEF Answered
<1>6. Agreement'
  <2>1. op = "copy" => Agreement'
    BY <1>1, <1>2, <1>3, <1>4 DEF Agreement, Agreed, Looking, Opening, Fresh
  <2>2. op = "move" => Agreement'
    BY <1>1, <1>2, <1>3, <1>4 DEF Answered, Agreement, Agreed, Looking,
       Opening, Fresh
  <2>3. QED
    BY <1>2, <2>1, <2>2
<1>7. AppendKeepsOld'
  <2>1. decided'[cur] \in {"append", "reget"} /\ dst'[cur].there
           => dst'[cur].old + dst'[cur].from >= base[cur]
    BY SMTT(30), <1>1, <1>2, <1>3, <1>4 DEF Answered, Agreement, Agreed, AppendKeepsOld,
       Queue, Unasked, Looking, Fresh
  <2>2. QED
    BY <1>1, <2>1, OldFrame DEF Answered
<1>8. Finished'
  BY <1>1, <1>2, <1>3, <1>4 DEF Answered, Finished, Succeeded, Arrived,
     Received, Tail, Transfer, Reported, Transferring, BeforeOpen, Opening,
     Carried
<1>9. AbortStands'
  BY <1>1, <1>2, <1>3, <1>4 DEF Answered, AbortStands, Tail
<1>10. Undisturbed => Appending'
  BY <1>1, <1>2, <1>3, <1>4 DEF Answered, Queue, Appending, Agreed, Looking,
     Opening, Undisturbed
<1>11. Undisturbed => Resuming'
  BY <1>1, <1>2, <1>3, <1>4 DEF Answered, Queue, Unasked, Looking, Resuming,
     Transfer, Undisturbed
<1>12. Undisturbed => Kept'
  BY <1>1, <1>2, <1>3, <1>4 DEF Answered, Kept, AsDecided, Received,
     Transferring, Tail, Transfer, Reported, Appending, Resuming, Agreed,
     Opening, Looking
<1>13. QED
  BY <1>5, <1>6, <1>7, <1>8, <1>9, <1>10, <1>11, <1>12 DEF Answered

LEMMA Hardlinked_Answered ==
    ASSUME IInv, Answered, Hardlinked
    PROVE  Answered'
<1> USE DEF Within, IInv, TypeOK, FilesOK, PanelOK, Place, MovePCs, SeenPCs,
            Caller
<1>1. Within
  BY OneFile DEF copy_file_file
<1>2. /\ pc = "by_kind" /\ ~do_append /\ ~dst[cur].there /\ pc' = Caller
      /\ UNCHANGED <<present, decided, do_append, do_reget, resources, pos,
                     return_status, aborted>>
  BY DEF Hardlinked, Goto, NoAnswer
<1>3. return_status # "cont"
  BY <1>2 DEF Answered, Finished
<1>4. Queue'
  <2>1. ~Unasked'
    BY <1>1, <1>2, <1>3 DEF Unasked, Looking
  <2>2. QED
    BY <1>1, <2>1, QueueFrame DEF Answered
<1>5. Agreement'
  BY <1>1, <1>2, <1>3 DEF Answered, Queue, Agreement, Agreed, Unasked,
     Looking, Opening, Fresh
<1>6. AppendKeepsOld'
  <2>1. decided'[cur] \in {"append", "reget"} /\ dst'[cur].there
           => dst'[cur].old + dst'[cur].from >= base[cur]
    BY <1>1, <1>2, <1>3 DEF Answered, Agreement, Agreed, AppendKeepsOld
  <2>2. QED
    BY <1>1, <2>1, OldFrame DEF Answered
<1>7. Finished'
  BY <1>1, <1>2, <1>3 DEF Answered, Finished, Succeeded, Arrived, Received,
     StopAnswers, Tail, Transfer, Reported, Transferring, BeforeOpen, Opening,
     Carried
<1>8. AbortStands'
  BY <1>1, <1>2, <1>3 DEF Answered, AbortStands, Tail
<1>9. Undisturbed => Appending'
  BY <1>1, <1>2, <1>3 DEF Answered, Queue, Appending, Agreed, Looking,
     Opening, Undisturbed
<1>10. Undisturbed => Resuming'
  BY <1>1, <1>2, <1>3 DEF Answered, Queue, Unasked, Looking, Resuming,
     Transfer, Undisturbed
<1>11. Undisturbed => Kept'
  BY <1>1, <1>2, <1>3 DEF Answered, Agreement, Agreed, Kept, AsDecided,
     Transferring, Tail
<1>12. QED
  BY <1>4, <1>5, <1>6, <1>7, <1>8, <1>9, <1>10, <1>11 DEF Answered

LEMMA MakeSpecial_Answered ==
    ASSUME IInv, Answered, MakeSpecial
    PROVE  Answered'
<1> USE DEF Within, IInv, TypeOK, FilesOK, PanelOK, Place, MovePCs, SeenPCs,
            StopAnswers, Caller
<1>1. Within
  BY OneFile DEF copy_file_file
<1>2. /\ pc = "by_kind" /\ ~do_append
      /\ UNCHANGED <<present, decided, do_append, do_reget, resources, pos>>
  BY DEF MakeSpecial
<1>3. \/ /\ pc' = Caller /\ return_status' = "cont" /\ aborted' = aborted
         /\ CopyOf(dst'[cur], cur)
      \/ pc' = "by_kind" /\ return_status' = "retry" /\ aborted' = aborted
      \/ /\ pc' = Caller /\ return_status' \in StopAnswers
         /\ aborted' => aborted \/ return_status' = "abort"
  <2>1. CASE pc' = Caller /\ return_status' = "cont" /\ NoAnswer
             /\ dst' = [dst EXCEPT ![cur] = Source(cur)]
    BY <1>1, <2>1, WholeCopy DEF NoAnswer
  <2>2. CASE file_error(Caller)
    BY <1>2, <2>2 DEF file_error, Stop, Again
  <2>3. CASE \E a \in StopAnswers : Stop(Caller, a) /\ return_status' = a
    BY <2>3 DEF Stop
  <2>4. QED
    BY <2>1, <2>2, <2>3 DEF MakeSpecial
<1>4. Queue'
  <2>1. ~Unasked'
    BY <1>1, <1>2, <1>3 DEF Unasked, Looking
  <2>2. QED
    BY <1>1, <2>1, QueueFrame DEF Answered
<1>5. Agreement'
  BY <1>1, <1>2, <1>3 DEF Answered, Queue, Agreement, Agreed, Unasked,
     Looking, Opening, Fresh
<1>6. AppendKeepsOld'
  <2>1. decided'[cur] \in {"append", "reget"} /\ dst'[cur].there
           => dst'[cur].old + dst'[cur].from >= base[cur]
    BY <1>1, <1>2, <1>3 DEF Answered, Agreement, Agreed, AppendKeepsOld
  <2>2. QED
    BY <1>1, <2>1, OldFrame DEF Answered
<1>7. Finished'
  <2>1. CASE pc' = Caller /\ return_status' = "cont" /\ CopyOf(dst'[cur], cur)
    <3>1. cur' = cur /\ size' = size /\ size[cur] \in Nat
      BY <1>1
    <3>2. dst'[cur].there /\ dst'[cur].good /\ dst'[cur].upto = size[cur]
      BY <2>1 DEF CopyOf
    <3>3. Arrived(cur)'
      BY SMTT(30), <3>1, <3>2 DEF Arrived
    <3>4. QED
      BY <1>1, <2>1, <3>3 DEF Finished, Succeeded, Tail
  <2>2. CASE ~(pc' = Caller /\ return_status' = "cont")
    BY <1>1, <1>2, <1>3, <2>2 DEF Finished, Succeeded, Tail
  <2>3. QED
    BY <1>1, <1>2, <1>3, <2>1, <2>2
<1>8. AbortStands'
  BY <1>1, <1>2, <1>3 DEF Answered, AbortStands, Tail
<1>9. Undisturbed => Appending'
  BY <1>1, <1>2, <1>3 DEF Answered, Queue, Appending, Agreed, Looking,
     Opening, Undisturbed
<1>10. Undisturbed => Resuming'
  BY <1>1, <1>2, <1>3 DEF Answered, Queue, Unasked, Looking, Resuming,
     Transfer, Undisturbed
<1>11. Undisturbed => Kept'
  BY <1>1, <1>2, <1>3 DEF Answered, Agreement, Agreed, Kept, AsDecided,
     Transferring, Tail, CopyOf
<1>12. QED
  BY <1>4, <1>5, <1>6, <1>7, <1>8, <1>9, <1>10, <1>11 DEF Answered

LEMMA Regular_Answered ==
    ASSUME IInv, Answered, Regular
    PROVE  Answered'
<1> USE DEF Within, IInv, TypeOK, FilesOK, PanelOK, Place, MovePCs, SeenPCs,
            Regular, Goto, NoAnswer
<1>1. Within
  BY OneFile DEF copy_file_file
<1>2. Queue'
  BY <1>1 DEF Answered, Queue, Unasked, Looking, Fresh
<1>3. Agreement'
  BY <1>1 DEF Answered, Queue, Agreement, Agreed, Unasked, Looking, Opening,
     Fresh
<1>4. AppendKeepsOld'
  BY <1>1 DEF Answered, Agreement, Agreed, AppendKeepsOld, Fresh, Looking,
     Opening
<1>5. Finished'
  BY <1>1 DEF Answered, Finished, Succeeded, Arrived, Received, StopAnswers,
     Tail, Transfer, Reported, Transferring, BeforeOpen, Opening, Carried
<1>6. AbortStands'
  BY <1>1 DEF Answered, AbortStands, Tail
<1>7. Undisturbed => Appending'
  BY <1>1 DEF Answered, Queue, Appending, Agreed, Looking, Opening,
     Undisturbed
<1>8. Undisturbed => Resuming'
  BY <1>1 DEF Answered, Queue, Unasked, Looking, Resuming, Transfer,
     Undisturbed
<1>9. Undisturbed => Kept'
  BY <1>1 DEF Answered, Kept, AsDecided, Received, StopAnswers, Transferring,
     Tail, Transfer, Reported, Appending, Resuming, Agreed, Opening, Looking
<1>10. QED
  BY <1>2, <1>3, <1>4, <1>5, <1>6, <1>7, <1>8, <1>9 DEF Answered

LEMMA OpenSrc_Answered ==
    ASSUME IInv, Answered, OpenSrc
    PROVE  Answered'
<1> USE DEF Within, IInv, TypeOK, FilesOK, PanelOK, Place, MovePCs, SeenPCs,
            OpenSrc, Goto, NoAnswer
<1>1. Within
  BY OneFile DEF copy_file_file
<1>2. Queue'
  BY <1>1 DEF Answered, Queue, Unasked, Looking, Fresh
<1>3. Agreement'
  BY <1>1 DEF Answered, Queue, Agreement, Agreed, Unasked, Looking, Opening,
     Fresh
<1>4. AppendKeepsOld'
  BY <1>1 DEF Answered, Agreement, Agreed, AppendKeepsOld, Fresh, Looking,
     Opening
<1>5. Finished'
  BY <1>1 DEF Answered, Finished, Succeeded, Arrived, Received, StopAnswers,
     Tail, Transfer, Reported, Transferring, BeforeOpen, Opening, Carried
<1>6. AbortStands'
  BY <1>1 DEF Answered, AbortStands, Tail
<1>7. Undisturbed => Appending'
  BY <1>1 DEF Answered, Queue, Appending, Agreed, Looking, Opening,
     Undisturbed
<1>8. Undisturbed => Resuming'
  BY SMTT(30), <1>1 DEF Answered, Queue, Unasked, Looking, Resuming, Transfer,
     Undisturbed
<1>9. Undisturbed => Kept'
  BY <1>1 DEF Answered, Kept, AsDecided, Received, StopAnswers, Transferring,
     Tail, Transfer, Reported, Appending, Resuming, Agreed, Opening, Looking
<1>10. QED
  BY <1>2, <1>3, <1>4, <1>5, <1>6, <1>7, <1>8, <1>9 DEF Answered

LEMMA OpenSrcFails_Answered ==
    ASSUME IInv, Answered, OpenSrcFails
    PROVE  Answered'
<1> USE DEF Within, IInv, TypeOK, FilesOK, PanelOK, Place, MovePCs, SeenPCs,
            OpenSrcFails, file_error, Caller, StopAppending, Stop,
            StopAnswers, Again
<1>1. Within
  BY OneFile DEF copy_file_file
<1>2. Queue'
  BY SMTT(30), <1>1 DEF Answered, Queue, Unasked, Looking, Fresh
<1>3. Agreement'
  BY <1>1 DEF Answered, Queue, Agreement, Agreed, Unasked, Looking, Opening,
     Fresh
<1>4. AppendKeepsOld'
  BY <1>1 DEF Answered, Agreement, Agreed, AppendKeepsOld, Fresh, Looking,
     Opening
<1>5. Finished'
  BY <1>1 DEF Answered, Finished, Succeeded, Arrived, Received, Tail,
     Transfer, Reported, Transferring, BeforeOpen, Opening, Carried
<1>6. AbortStands'
  BY <1>1 DEF Answered, AbortStands, Tail
<1>7. Undisturbed => Appending'
  BY <1>1 DEF Answered, Queue, Appending, Agreed, Looking, Opening,
     Undisturbed
<1>8. Undisturbed => Resuming'
  BY <1>1 DEF Answered, Queue, Unasked, Looking, Resuming, Transfer,
     Undisturbed
<1>9. Undisturbed => Kept'
  BY <1>1 DEF Answered, Kept, AsDecided, Received, Transferring, Tail,
     Transfer, Reported, Appending, Resuming, Agreed, Opening, Looking
<1>10. QED
  BY <1>2, <1>3, <1>4, <1>5, <1>6, <1>7, <1>8, <1>9 DEF Answered

LEMMA Reget_Answered ==
    ASSUME IInv, Answered, Reget
    PROVE  Answered'
<1> USE DEF Within, IInv, TypeOK, FilesOK, PanelOK, Place, MovePCs, SeenPCs,
            Reget, Goto, NoAnswer
<1>1. Within
  BY OneFile DEF copy_file_file
<1>2. Queue'
  BY <1>1 DEF Answered, Queue, Unasked, Looking, Fresh
<1>3. Agreement'
  BY <1>1 DEF Answered, Queue, Agreement, Agreed, Unasked, Looking, Opening,
     Fresh
<1>4. AppendKeepsOld'
  BY <1>1 DEF Answered, Agreement, Agreed, AppendKeepsOld, Fresh, Looking,
     Opening
<1>5. Finished'
  BY <1>1 DEF Answered, Finished, Succeeded, Arrived, Received, StopAnswers,
     Tail, Transfer, Reported, Transferring, BeforeOpen, Opening, Carried
<1>6. AbortStands'
  BY <1>1 DEF Answered, AbortStands, Tail
<1>7. Undisturbed => Appending'
  BY <1>1 DEF Answered, Queue, Appending, Agreed, Looking, Opening,
     Undisturbed
<1>8. Undisturbed => Resuming'
  BY <1>1 DEF Answered, Queue, Unasked, Looking, Resuming, Transfer,
     Undisturbed
<1>9. Undisturbed => Kept'
  BY <1>1 DEF Answered, Kept, AsDecided, Received, StopAnswers, Transferring,
     Tail, Transfer, Reported, Appending, Resuming, Agreed, Opening, Looking
<1>10. QED
  BY <1>2, <1>3, <1>4, <1>5, <1>6, <1>7, <1>8, <1>9 DEF Answered

LEMMA RegetFails_Answered ==
    ASSUME IInv, Answered, RegetFails
    PROVE  Answered'
<1> USE DEF Within, IInv, TypeOK, FilesOK, PanelOK, Place, MovePCs, SeenPCs,
            RegetFails, Goto, NoAnswer
<1>1. Within
  BY OneFile DEF copy_file_file
<1>2. Queue'
  BY SMTT(30), <1>1 DEF Answered, Queue, Unasked, Looking, Fresh
<1>3. Agreement'
  BY <1>1 DEF Answered, Queue, Agreement, Agreed, Unasked, Looking, Opening,
     Fresh
<1>4. AppendKeepsOld'
  BY <1>1 DEF Answered, Agreement, Agreed, AppendKeepsOld, Fresh, Looking,
     Opening
<1>5. Finished'
  BY <1>1 DEF Answered, Finished, Succeeded, Arrived, Received, StopAnswers,
     Tail, Transfer, Reported, Transferring, BeforeOpen, Opening, Carried
<1>6. AbortStands'
  BY <1>1 DEF Answered, AbortStands, Tail
<1>7. Undisturbed => Appending'
  BY <1>1 DEF Answered, Queue, Appending, Agreed, Looking, Opening,
     Undisturbed
<1>8. Undisturbed => Resuming'
  BY <1>1 DEF Answered, Queue, Unasked, Looking, Resuming, Transfer,
     Undisturbed
<1>9. Undisturbed => Kept'
  BY <1>1 DEF Answered, Kept, AsDecided, Received, StopAnswers, Transferring,
     Tail, Transfer, Reported, Appending, Resuming, Agreed, Opening, Looking
<1>10. QED
  BY <1>2, <1>3, <1>4, <1>5, <1>6, <1>7, <1>8, <1>9 DEF Answered

LEMMA FstatSrc_Answered ==
    ASSUME IInv, Answered, FstatSrc
    PROVE  Answered'
<1> USE DEF Within, IInv, TypeOK, FilesOK, PanelOK, Place, MovePCs, SeenPCs,
            FstatSrc, Goto, file_error, StopAppending, Stop, StopAnswers,
            Again, NoAnswer
<1>1. Within
  BY OneFile DEF copy_file_file
<1>2. Queue'
  BY ZenonT(60), <1>1 DEF Answered, Queue, Unasked, Looking, Fresh
<1>3. Agreement'
  BY <1>1 DEF Answered, Queue, Agreement, Agreed, Unasked, Looking, Opening,
     Fresh
<1>4. AppendKeepsOld'
  BY <1>1 DEF Answered, Agreement, Agreed, AppendKeepsOld, Fresh, Looking,
     Opening
<1>5. Finished'
  BY <1>1 DEF Answered, Finished, Succeeded, Arrived, Received, Tail,
     Transfer, Reported, Transferring, BeforeOpen, Opening, Carried
<1>6. AbortStands'
  BY <1>1 DEF Answered, AbortStands, Tail
<1>7. Undisturbed => Appending'
  BY <1>1 DEF Answered, Queue, Appending, Agreed, Looking, Opening,
     Undisturbed
<1>8. Undisturbed => Resuming'
  BY <1>1 DEF Answered, Queue, Unasked, Looking, Resuming, Transfer,
     Undisturbed
<1>9. Undisturbed => Kept'
  BY <1>1 DEF Answered, Kept, AsDecided, Received, Transferring, Tail,
     Transfer, Reported, Appending, Resuming, Agreed, Opening, Looking
<1>10. QED
  BY <1>2, <1>3, <1>4, <1>5, <1>6, <1>7, <1>8, <1>9 DEF Answered

LEMMA OpenDst_Answered ==
    ASSUME IInv, Answered, OpenDst
    PROVE  Answered'
<1> USE DEF Within, IInv, TypeOK, FilesOK, PanelOK, Place, MovePCs, SeenPCs
<1>1. Within
  BY OneFile DEF copy_file_file
<1>2. /\ pc = "open_dst" /\ pc' = "fstat_dst" /\ do_append' = FALSE
      /\ UNCHANGED <<present, decided, do_reget, pos, return_status, aborted>>
  BY DEF OpenDst, Goto, NoAnswer
<1>3. /\ dst'[cur].there /\ dst'[cur].from = pos
      /\ do_append => dst[cur].there /\ dst'[cur].old = SizeOf(dst[cur])
      /\ ~do_append => dst'[cur].old = 0
  BY <1>1 DEF OpenDst
<1>4. do_append => dst'[cur].old = base[cur]
  BY <1>1, <1>2, <1>3, FreshSize DEF Answered, Agreement, Agreed, Opening
<1>5. Queue'
  <2>1. ~Unasked'
    BY <1>1, <1>2, <1>3, <1>4 DEF Unasked, Looking
  <2>2. QED
    BY <1>1, <2>1, QueueFrame DEF Answered
<1>6. Agreement'
  BY <1>1, <1>2, <1>3, <1>4 DEF Answered, Queue, Agreement, Agreed, Unasked,
     Looking, Opening, Fresh
<1>7. AppendKeepsOld'
  <2>1. decided[cur] \in {"append", "reget"} => do_append
    BY <1>1, <1>2, <1>3, <1>4 DEF Answered, Agreement, Agreed, Opening
  <2>2. base[cur] \in Nat /\ pos \in Nat /\ base[cur] + pos >= base[cur]
    <3>1. base[cur] \in Nat /\ pos \in Nat
      BY <1>1 DEF TransferOK
    <3>2. \A m, n \in Nat : m + n >= m
      OBVIOUS
    <3>3. QED
      BY <3>1, <3>2
  <2>3. decided'[cur] \in {"append", "reget"}
           => dst'[cur].old + dst'[cur].from >= base[cur]
    <3>1. decided'[cur] \in {"append", "reget"}
             => dst'[cur].old = base[cur] /\ dst'[cur].from = pos
      BY <1>1, <1>2, <1>3, <1>4, <2>1
    <3>2. QED
      BY <2>2, <3>1
  <2>4. QED
    BY <1>1, <2>3, OldFrame DEF Answered
<1>8. Finished'
  BY <1>1, <1>2, <1>3, <1>4 DEF Answered, Finished, Succeeded, Arrived,
     Received, StopAnswers, Tail, Transfer, Reported, Transferring,
     BeforeOpen, Opening, Carried
<1>9. AbortStands'
  BY <1>1, <1>2, <1>3, <1>4 DEF Answered, AbortStands, Tail
<1>10. Undisturbed => Appending'
  BY <1>1, <1>2, <1>3, <1>4 DEF Answered, Queue, Appending, Agreed, Looking,
     Opening, Undisturbed
<1>11. Undisturbed => Resuming'
  BY <1>1, <1>2, <1>3, <1>4 DEF Answered, Queue, Unasked, Looking, Resuming,
     Transfer, Undisturbed
<1>12. Undisturbed => Kept'
  BY <1>1, <1>2, <1>3, <1>4 DEF Answered, Agreement, Agreed, Opening,
     Appending, Resuming, Kept, AsDecided, Transfer, Tail, Transferring
<1>13. QED
  BY <1>5, <1>6, <1>7, <1>8, <1>9, <1>10, <1>11, <1>12 DEF Answered

LEMMA OpenDstFails_Answered ==
    ASSUME IInv, Answered, OpenDstFails
    PROVE  Answered'
<1> USE DEF Within, IInv, TypeOK, FilesOK, PanelOK, Place, MovePCs, SeenPCs,
            OpenDstFails, file_error, StopAppending, Stop, StopAnswers, Again
<1>1. Within
  BY OneFile DEF copy_file_file
<1>2. Queue'
  BY SMTT(30), <1>1 DEF Answered, Queue, Unasked, Looking, Fresh
<1>3. Agreement'
  BY <1>1 DEF Answered, Queue, Agreement, Agreed, Unasked, Looking, Opening,
     Fresh
<1>4. AppendKeepsOld'
  BY <1>1 DEF Answered, Agreement, Agreed, AppendKeepsOld, Fresh, Looking,
     Opening
<1>5. Finished'
  BY <1>1 DEF Answered, Finished, Succeeded, Arrived, Received, Tail,
     Transfer, Reported, Transferring, BeforeOpen, Opening, Carried
<1>6. AbortStands'
  BY <1>1 DEF Answered, AbortStands, Tail
<1>7. Undisturbed => Appending'
  BY <1>1 DEF Answered, Queue, Appending, Agreed, Looking, Opening,
     Undisturbed
<1>8. Undisturbed => Resuming'
  BY <1>1 DEF Answered, Queue, Unasked, Looking, Resuming, Transfer,
     Undisturbed
<1>9. Undisturbed => Kept'
  BY <1>1 DEF Answered, Kept, AsDecided, Received, Transferring, Tail,
     Transfer, Reported, Appending, Resuming, Agreed, Opening, Looking
<1>10. QED
  BY <1>2, <1>3, <1>4, <1>5, <1>6, <1>7, <1>8, <1>9 DEF Answered

LEMMA FstatDst_Answered ==
    ASSUME IInv, Answered, FstatDst
    PROVE  Answered'
<1> USE DEF Within, IInv, TypeOK, FilesOK, PanelOK, Place, MovePCs, SeenPCs,
            FstatDst, check_buttons, file_error, Stop, StopAnswers, NoAnswer,
            Again
<1>1. Within
  BY OneFile DEF copy_file_file
<1>2. Queue'
  BY SMTT(30), <1>1 DEF Answered, Queue, Unasked, Looking, Fresh
<1>3. Agreement'
  BY <1>1 DEF Answered, Queue, Agreement, Agreed, Unasked, Looking, Opening,
     Fresh
<1>4. AppendKeepsOld'
  BY <1>1 DEF Answered, Agreement, Agreed, AppendKeepsOld, Fresh, Looking,
     Opening
<1>5. Finished'
  BY <1>1 DEF Answered, Finished, Succeeded, Arrived, Received, Tail,
     Transfer, Reported, Transferring, BeforeOpen, Opening, Carried
<1>6. AbortStands'
  BY <1>1 DEF Answered, AbortStands, Tail
<1>7. Undisturbed => Appending'
  BY <1>1 DEF Answered, Queue, Appending, Agreed, Looking, Opening,
     Undisturbed
<1>8. Undisturbed => Resuming'
  BY <1>1 DEF Answered, Queue, Unasked, Looking, Resuming, Transfer,
     Undisturbed
<1>9. Undisturbed => Kept'
  BY <1>1 DEF Answered, Kept, AsDecided, Received, Transferring, Tail,
     Transfer, Reported, Appending, Resuming, Agreed, Opening, Looking
<1>10. QED
  BY <1>2, <1>3, <1>4, <1>5, <1>6, <1>7, <1>8, <1>9 DEF Answered

LEMMA ReadNotReady_Answered ==
    ASSUME IInv, Answered, ReadNotReady
    PROVE  Answered'
<1> USE DEF Within, IInv, TypeOK, FilesOK, PanelOK, Place, MovePCs, SeenPCs,
            ReadNotReady
<1>1. Within
  BY OneFile DEF copy_file_file
<1>2. Queue'
  BY <1>1 DEF Answered, Queue, Unasked, Looking, Fresh
<1>3. Agreement'
  BY <1>1 DEF Answered, Queue, Agreement, Agreed, Unasked, Looking, Opening,
     Fresh
<1>4. AppendKeepsOld'
  BY <1>1 DEF Answered, Agreement, Agreed, AppendKeepsOld, Fresh, Looking,
     Opening
<1>5. Finished'
  BY <1>1 DEF Answered, Finished, Succeeded, Arrived, Received, StopAnswers,
     Tail, Transfer, Reported, Transferring, BeforeOpen, Opening, Carried
<1>6. AbortStands'
  BY <1>1 DEF Answered, AbortStands, Tail
<1>7. Undisturbed => Appending'
  BY <1>1 DEF Answered, Queue, Appending, Agreed, Looking, Opening,
     Undisturbed
<1>8. Undisturbed => Resuming'
  BY <1>1 DEF Answered, Queue, Unasked, Looking, Resuming, Transfer,
     Undisturbed
<1>9. Undisturbed => Kept'
  BY <1>1 DEF Answered, Kept, AsDecided, Received, StopAnswers, Transferring,
     Tail, Transfer, Reported, Appending, Resuming, Agreed, Opening, Looking
<1>10. QED
  BY <1>2, <1>3, <1>4, <1>5, <1>6, <1>7, <1>8, <1>9 DEF Answered

LEMMA ReadFails_Answered ==
    ASSUME IInv, Answered, ReadFails
    PROVE  Answered'
<1> USE DEF Within, IInv, TypeOK, FilesOK, PanelOK, Place, MovePCs, SeenPCs,
            ReadFails, file_error, Stop, StopAnswers, Again
<1>1. Within
  BY OneFile DEF copy_file_file
<1>2. Queue'
  BY SMTT(30), <1>1 DEF Answered, Queue, Unasked, Looking, Fresh
<1>3. Agreement'
  BY <1>1 DEF Answered, Queue, Agreement, Agreed, Unasked, Looking, Opening,
     Fresh
<1>4. AppendKeepsOld'
  BY <1>1 DEF Answered, Agreement, Agreed, AppendKeepsOld, Fresh, Looking,
     Opening
<1>5. Finished'
  BY <1>1 DEF Answered, Finished, Succeeded, Arrived, Received, Tail,
     Transfer, Reported, Transferring, BeforeOpen, Opening, Carried
<1>6. AbortStands'
  BY <1>1 DEF Answered, AbortStands, Tail
<1>7. Undisturbed => Appending'
  BY <1>1 DEF Answered, Queue, Appending, Agreed, Looking, Opening,
     Undisturbed
<1>8. Undisturbed => Resuming'
  BY <1>1 DEF Answered, Queue, Unasked, Looking, Resuming, Transfer,
     Undisturbed
<1>9. Undisturbed => Kept'
  BY <1>1 DEF Answered, Kept, AsDecided, Received, Transferring, Tail,
     Transfer, Reported, Appending, Resuming, Agreed, Opening, Looking
<1>10. QED
  BY <1>2, <1>3, <1>4, <1>5, <1>6, <1>7, <1>8, <1>9 DEF Answered

LEMMA Read_Answered ==
    ASSUME IInv, Answered, Read
    PROVE  Answered'
<1> USE DEF Within, IInv, TypeOK, FilesOK, PanelOK, Place, MovePCs, SeenPCs,
            Read, Goto, NoAnswer
<1>1. Within
  BY OneFile DEF copy_file_file
<1>2. Queue'
  BY <1>1 DEF Answered, Queue, Unasked, Looking, Fresh
<1>3. Agreement'
  BY <1>1 DEF Answered, Queue, Agreement, Agreed, Unasked, Looking, Opening,
     Fresh
<1>4. AppendKeepsOld'
  BY <1>1 DEF Answered, Agreement, Agreed, AppendKeepsOld, Fresh, Looking,
     Opening
<1>5. Finished'
  BY <1>1 DEF Answered, Finished, Succeeded, Arrived, Received, StopAnswers,
     Tail, Transfer, Reported, Transferring, BeforeOpen, Opening, Carried
<1>6. AbortStands'
  BY <1>1 DEF Answered, AbortStands, Tail
<1>7. Undisturbed => Appending'
  BY <1>1 DEF Answered, Queue, Appending, Agreed, Looking, Opening,
     Undisturbed
<1>8. Undisturbed => Resuming'
  BY <1>1 DEF Answered, Queue, Unasked, Looking, Resuming, Transfer,
     Undisturbed
<1>9. Undisturbed => Kept'
  BY <1>1 DEF Answered, Kept, AsDecided, Received, StopAnswers, Transferring,
     Tail, Transfer, Reported, Appending, Resuming, Agreed, Opening, Looking
<1>10. QED
  BY <1>2, <1>3, <1>4, <1>5, <1>6, <1>7, <1>8, <1>9 DEF Answered

LEMMA ReadEof_Answered ==
    ASSUME IInv, Answered, ReadEof
    PROVE  Answered'
<1> USE DEF Within, IInv, TypeOK, FilesOK, PanelOK, Place, MovePCs, SeenPCs,
            ReadEof, Goto, NoAnswer
<1>1. Within
  BY OneFile DEF copy_file_file
<1>2. Queue'
  BY <1>1 DEF Answered, Queue, Unasked, Looking, Fresh
<1>3. Agreement'
  BY <1>1 DEF Answered, Queue, Agreement, Agreed, Unasked, Looking, Opening,
     Fresh
<1>4. AppendKeepsOld'
  BY <1>1 DEF Answered, Agreement, Agreed, AppendKeepsOld, Fresh, Looking,
     Opening
<1>5. Finished'
  BY SMTT(30), <1>1 DEF Answered, Finished, Succeeded, Arrived, Received, StopAnswers,
     Tail, Transfer, Reported, Transferring, BeforeOpen, Opening, Carried
<1>6. AbortStands'
  BY <1>1 DEF Answered, AbortStands, Tail
<1>7. Undisturbed => Appending'
  BY <1>1 DEF Answered, Queue, Appending, Agreed, Looking, Opening,
     Undisturbed
<1>8. Undisturbed => Resuming'
  BY <1>1 DEF Answered, Queue, Unasked, Looking, Resuming, Transfer,
     Undisturbed
<1>9. Undisturbed => Kept'
  BY <1>1 DEF Answered, Kept, AsDecided, Received, StopAnswers, Transferring,
     Tail, Transfer, Reported, Appending, Resuming, Agreed, Opening, Looking
<1>10. QED
  BY <1>2, <1>3, <1>4, <1>5, <1>6, <1>7, <1>8, <1>9 DEF Answered

LEMMA Write_Answered ==
    ASSUME IInv, Answered, Write
    PROVE  Answered'
<1> USE DEF Within, IInv, TypeOK, FilesOK, PanelOK, Place, MovePCs, SeenPCs
<1>1. Within
  BY OneFile DEF copy_file_file
<1>2. /\ pc = "write" /\ pc' = "progress"
      /\ UNCHANGED <<present, decided, do_append, do_reget, pos, resources,
                     return_status, aborted>>
  BY DEF Write, Goto, NoAnswer
<1>3. /\ dst'[cur].there = dst[cur].there
      /\ dst'[cur].old = dst[cur].old /\ dst'[cur].from = dst[cur].from
  BY <1>1 DEF Write, Stored
<1>4. Queue'
  <2>1. ~Unasked'
    BY <1>1, <1>2, <1>3 DEF Unasked, Looking
  <2>2. QED
    BY <1>1, <2>1, QueueFrame DEF Answered
<1>5. Agreement'
  BY <1>1, <1>2, <1>3 DEF Answered, Queue, Agreement, Agreed, Unasked,
     Looking, Opening, Fresh
<1>6. AppendKeepsOld'
  <2>1. decided'[cur] \in {"append", "reget"} /\ dst'[cur].there
           => dst'[cur].old + dst'[cur].from >= base[cur]
    BY <1>1, <1>2, <1>3 DEF Answered, Agreement, Agreed, AppendKeepsOld
  <2>2. QED
    BY <1>1, <2>1, OldFrame DEF Answered
<1>7. Finished'
  BY <1>1, <1>2, <1>3 DEF Answered, Finished, Succeeded, Arrived, Received,
     StopAnswers, Tail, Transfer, Reported, Transferring, BeforeOpen, Opening,
     Carried
<1>8. AbortStands'
  BY <1>1, <1>2, <1>3 DEF Answered, AbortStands, Tail
<1>9. Undisturbed => Appending'
  BY <1>1, <1>2, <1>3 DEF Answered, Queue, Appending, Agreed, Looking,
     Opening, Undisturbed
<1>10. Undisturbed => Resuming'
  BY <1>1, <1>2, <1>3 DEF Answered, Queue, Unasked, Looking, Resuming,
     Transfer, Undisturbed
<1>11. Undisturbed => Kept'
  BY <1>1, <1>2, <1>3 DEF Answered, Kept, AsDecided, Received, StopAnswers,
     Transferring, Tail, Transfer, Reported, Appending, Resuming, Agreed,
     Opening, Looking
<1>12. QED
  BY <1>4, <1>5, <1>6, <1>7, <1>8, <1>9, <1>10, <1>11 DEF Answered

LEMMA WriteShort_Answered ==
    ASSUME IInv, Answered, WriteShort
    PROVE  Answered'
<1> USE DEF Within, IInv, TypeOK, FilesOK, PanelOK, Place, MovePCs, SeenPCs
<1>1. Within
  BY OneFile DEF copy_file_file
<1>2. /\ pc = "write" /\ pc' = "write"
      /\ UNCHANGED <<present, decided, do_append, do_reget, pos, resources,
                     return_status, aborted>>
  BY DEF WriteShort
<1>3. /\ dst'[cur].there = dst[cur].there
      /\ dst'[cur].old = dst[cur].old /\ dst'[cur].from = dst[cur].from
  BY <1>1 DEF WriteShort, Stored
<1>4. Queue'
  <2>1. ~Unasked'
    BY <1>1, <1>2, <1>3 DEF Unasked, Looking
  <2>2. QED
    BY <1>1, <2>1, QueueFrame DEF Answered
<1>5. Agreement'
  BY <1>1, <1>2, <1>3 DEF Answered, Queue, Agreement, Agreed, Unasked,
     Looking, Opening, Fresh
<1>6. AppendKeepsOld'
  <2>1. decided'[cur] \in {"append", "reget"} /\ dst'[cur].there
           => dst'[cur].old + dst'[cur].from >= base[cur]
    BY <1>1, <1>2, <1>3 DEF Answered, Agreement, Agreed, AppendKeepsOld
  <2>2. QED
    BY <1>1, <2>1, OldFrame DEF Answered
<1>7. Finished'
  BY <1>1, <1>2, <1>3 DEF Answered, Finished, Succeeded, Arrived, Received,
     StopAnswers, Tail, Transfer, Reported, Transferring, BeforeOpen, Opening,
     Carried
<1>8. AbortStands'
  BY <1>1, <1>2, <1>3 DEF Answered, AbortStands, Tail
<1>9. Undisturbed => Appending'
  BY <1>1, <1>2, <1>3 DEF Answered, Queue, Appending, Agreed, Looking,
     Opening, Undisturbed
<1>10. Undisturbed => Resuming'
  BY <1>1, <1>2, <1>3 DEF Answered, Queue, Unasked, Looking, Resuming,
     Transfer, Undisturbed
<1>11. Undisturbed => Kept'
  BY <1>1, <1>2, <1>3 DEF Answered, Kept, AsDecided, Received, StopAnswers,
     Transferring, Tail, Transfer, Reported, Appending, Resuming, Agreed,
     Opening, Looking
<1>12. QED
  BY <1>4, <1>5, <1>6, <1>7, <1>8, <1>9, <1>10, <1>11 DEF Answered

LEMMA WriteFails_Answered ==
    ASSUME IInv, Answered, WriteFails
    PROVE  Answered'
<1> USE DEF Within, IInv, TypeOK, FilesOK, PanelOK, Place, MovePCs, SeenPCs,
            WriteFails, file_error, Stop, StopAnswers, Again
<1>1. Within
  BY OneFile DEF copy_file_file
<1>2. Queue'
  BY SMTT(30), <1>1 DEF Answered, Queue, Unasked, Looking, Fresh
<1>3. Agreement'
  BY <1>1 DEF Answered, Queue, Agreement, Agreed, Unasked, Looking, Opening,
     Fresh
<1>4. AppendKeepsOld'
  BY <1>1 DEF Answered, Agreement, Agreed, AppendKeepsOld, Fresh, Looking,
     Opening
<1>5. Finished'
  BY <1>1 DEF Answered, Finished, Succeeded, Arrived, Received, Tail,
     Transfer, Reported, Transferring, BeforeOpen, Opening, Carried
<1>6. AbortStands'
  BY <1>1 DEF Answered, AbortStands, Tail
<1>7. Undisturbed => Appending'
  BY <1>1 DEF Answered, Queue, Appending, Agreed, Looking, Opening,
     Undisturbed
<1>8. Undisturbed => Resuming'
  BY <1>1 DEF Answered, Queue, Unasked, Looking, Resuming, Transfer,
     Undisturbed
<1>9. Undisturbed => Kept'
  BY <1>1 DEF Answered, Kept, AsDecided, Received, Transferring, Tail,
     Transfer, Reported, Appending, Resuming, Agreed, Opening, Looking
<1>10. QED
  BY <1>2, <1>3, <1>4, <1>5, <1>6, <1>7, <1>8, <1>9 DEF Answered

LEMMA Progress_Answered ==
    ASSUME IInv, Answered, Progress
    PROVE  Answered'
<1> USE DEF Within, IInv, TypeOK, FilesOK, PanelOK, Place, MovePCs, SeenPCs,
            Progress, check_buttons, Stop, StopAnswers, NoAnswer
<1>1. Within
  BY OneFile DEF copy_file_file
<1>2. Queue'
  BY SMTT(30), <1>1 DEF Answered, Queue, Unasked, Looking, Fresh
<1>3. Agreement'
  BY <1>1 DEF Answered, Queue, Agreement, Agreed, Unasked, Looking, Opening,
     Fresh
<1>4. AppendKeepsOld'
  BY <1>1 DEF Answered, Agreement, Agreed, AppendKeepsOld, Fresh, Looking,
     Opening
<1>5. Finished'
  BY <1>1 DEF Answered, Finished, Succeeded, Arrived, Received, Tail,
     Transfer, Reported, Transferring, BeforeOpen, Opening, Carried
<1>6. AbortStands'
  BY <1>1 DEF Answered, AbortStands, Tail
<1>7. Undisturbed => Appending'
  BY <1>1 DEF Answered, Queue, Appending, Agreed, Looking, Opening,
     Undisturbed
<1>8. Undisturbed => Resuming'
  BY <1>1 DEF Answered, Queue, Unasked, Looking, Resuming, Transfer,
     Undisturbed
<1>9. Undisturbed => Kept'
  BY <1>1 DEF Answered, Kept, AsDecided, Received, Transferring, Tail,
     Transfer, Reported, Appending, Resuming, Agreed, Opening, Looking
<1>10. QED
  BY <1>2, <1>3, <1>4, <1>5, <1>6, <1>7, <1>8, <1>9 DEF Answered

LEMMA CloseSrc_Answered ==
    ASSUME IInv, Answered, CloseSrc
    PROVE  Answered'
<1> USE DEF Within, IInv, TypeOK, FilesOK, PanelOK, Place, MovePCs, SeenPCs,
            CloseSrc, Goto, Stop, StopAnswers, Again, NoAnswer
<1>1. Within
  BY OneFile DEF copy_file_file
<1>2. Queue'
  BY SMTT(30), <1>1 DEF Answered, Queue, Unasked, Looking, Fresh
<1>3. Agreement'
  BY <1>1 DEF Answered, Queue, Agreement, Agreed, Unasked, Looking, Opening,
     Fresh
<1>4. AppendKeepsOld'
  BY <1>1 DEF Answered, Agreement, Agreed, AppendKeepsOld, Fresh, Looking,
     Opening
<1>5. Finished'
  BY <1>1 DEF Answered, Finished, Succeeded, Arrived, Received, Tail,
     Transfer, Reported, Transferring, BeforeOpen, Opening, Carried
<1>6. AbortStands'
  BY <1>1 DEF Answered, AbortStands, Tail
<1>7. Undisturbed => Appending'
  BY <1>1 DEF Answered, Queue, Appending, Agreed, Looking, Opening,
     Undisturbed
<1>8. Undisturbed => Resuming'
  BY <1>1 DEF Answered, Queue, Unasked, Looking, Resuming, Transfer,
     Undisturbed
<1>9. Undisturbed => Kept'
  BY <1>1 DEF Answered, Kept, AsDecided, Received, Transferring, Tail,
     Transfer, Reported, Appending, Resuming, Agreed, Opening, Looking
<1>10. QED
  BY <1>2, <1>3, <1>4, <1>5, <1>6, <1>7, <1>8, <1>9 DEF Answered

LEMMA CloseDst_Answered ==
    ASSUME IInv, Answered, CloseDst
    PROVE  Answered'
<1> USE DEF Within, IInv, TypeOK, FilesOK, PanelOK, Place, MovePCs, SeenPCs,
            CloseDst, Goto, TempError, Stop, StopAnswers, Again, NoAnswer
<1>1. Within
  BY OneFile DEF copy_file_file
<1>2. Queue'
  BY SMTT(30), <1>1 DEF Answered, Queue, Unasked, Looking, Fresh
<1>3. Agreement'
  BY <1>1 DEF Answered, Queue, Agreement, Agreed, Unasked, Looking, Opening,
     Fresh
<1>4. AppendKeepsOld'
  BY <1>1 DEF Answered, Agreement, Agreed, AppendKeepsOld, Fresh, Looking,
     Opening
<1>5. Finished'
  BY <1>1 DEF Answered, Finished, Succeeded, Arrived, Received, Tail,
     Transfer, Reported, Transferring, BeforeOpen, Opening, Carried
<1>6. AbortStands'
  BY <1>1 DEF Answered, AbortStands, Tail
<1>7. Undisturbed => Appending'
  BY <1>1 DEF Answered, Queue, Appending, Agreed, Looking, Opening,
     Undisturbed
<1>8. Undisturbed => Resuming'
  BY <1>1 DEF Answered, Queue, Unasked, Looking, Resuming, Transfer,
     Undisturbed
<1>9. Undisturbed => Kept'
  BY <1>1 DEF Answered, Kept, AsDecided, Received, Transferring, Tail,
     Transfer, Reported, Appending, Resuming, Agreed, Opening, Looking
<1>10. QED
  BY <1>2, <1>3, <1>4, <1>5, <1>6, <1>7, <1>8, <1>9 DEF Answered

LEMMA RemoveShortFile_Answered ==
    ASSUME IInv, Answered, RemoveShortFile
    PROVE  Answered'
<1> USE DEF Within, IInv, TypeOK, FilesOK, PanelOK, Place, MovePCs, SeenPCs
<1>1. Within
  BY OneFile DEF copy_file_file
<1>2. /\ pc = "finish" /\ pc' = "update" /\ "short" \in resources
      /\ UNCHANGED <<present, decided, do_append, do_reget, pos, resources,
                     return_status, aborted>>
  BY DEF RemoveShortFile, Goto, NoAnswer
<1>3. dst'[cur] = dst[cur] \/ ~dst'[cur].there
  BY SMTT(30), <1>1 DEF RemoveShortFile, NoFile
<1>4. Queue'
  <2>1. ~Unasked'
    BY <1>1, <1>2, <1>3 DEF Unasked, Looking
  <2>2. QED
    BY <1>1, <2>1, QueueFrame DEF Answered
<1>5. Agreement'
  BY <1>1, <1>2, <1>3 DEF Answered, Queue, Agreement, Agreed, Unasked,
     Looking, Opening, Fresh
<1>6. AppendKeepsOld'
  <2>1. decided'[cur] \in {"append", "reget"} /\ dst'[cur].there
           => dst'[cur].old + dst'[cur].from >= base[cur]
    BY <1>1, <1>2, <1>3 DEF Answered, Agreement, Agreed, AppendKeepsOld
  <2>2. QED
    BY <1>1, <2>1, OldFrame DEF Answered
<1>7. Finished'
  BY <1>1, <1>2, <1>3 DEF Answered, Finished, Succeeded, Arrived, Received,
     StopAnswers, Tail, Transfer, Reported, Transferring, BeforeOpen, Opening,
     Carried
<1>8. AbortStands'
  BY <1>1, <1>2, <1>3 DEF Answered, AbortStands, Tail
<1>9. Undisturbed => Appending'
  BY <1>1, <1>2, <1>3 DEF Answered, Queue, Appending, Agreed, Looking,
     Opening, Undisturbed
<1>10. Undisturbed => Resuming'
  BY <1>1, <1>2, <1>3 DEF Answered, Queue, Unasked, Looking, Resuming,
     Transfer, Undisturbed
<1>11. Undisturbed => Kept'
  BY <1>1, <1>2, <1>3 DEF Answered, Kept, AsDecided, Received, StopAnswers,
     Transferring, Tail, Transfer, Reported, Appending, Resuming, Agreed,
     Opening, Looking
<1>12. QED
  BY <1>4, <1>5, <1>6, <1>7, <1>8, <1>9, <1>10, <1>11 DEF Answered

LEMMA Finish_Answered ==
    ASSUME IInv, Answered, Finish
    PROVE  Answered'
<1> USE DEF Within, IInv, TypeOK, FilesOK, PanelOK, Place, MovePCs, SeenPCs,
            Finish, Goto, NoAnswer
<1>1. Within
  BY OneFile DEF copy_file_file
<1>2. Queue'
  BY <1>1 DEF Answered, Queue, Unasked, Looking, Fresh
<1>3. Agreement'
  BY <1>1 DEF Answered, Queue, Agreement, Agreed, Unasked, Looking, Opening,
     Fresh
<1>4. AppendKeepsOld'
  BY <1>1 DEF Answered, Agreement, Agreed, AppendKeepsOld, Fresh, Looking,
     Opening
<1>5. Finished'
  BY <1>1 DEF Answered, Finished, Succeeded, Arrived, Received, StopAnswers,
     Tail, Transfer, Reported, Transferring, BeforeOpen, Opening, Carried
<1>6. AbortStands'
  BY <1>1 DEF Answered, AbortStands, Tail
<1>7. Undisturbed => Appending'
  BY <1>1 DEF Answered, Queue, Appending, Agreed, Looking, Opening,
     Undisturbed
<1>8. Undisturbed => Resuming'
  BY <1>1 DEF Answered, Queue, Unasked, Looking, Resuming, Transfer,
     Undisturbed
<1>9. Undisturbed => Kept'
  BY <1>1 DEF Answered, Kept, AsDecided, Received, StopAnswers, Transferring,
     Tail, Transfer, Reported, Appending, Resuming, Agreed, Opening, Looking
<1>10. QED
  BY <1>2, <1>3, <1>4, <1>5, <1>6, <1>7, <1>8, <1>9 DEF Answered

LEMMA Chown_Answered ==
    ASSUME IInv, Answered, Chown
    PROVE  Answered'
<1> USE DEF Within, IInv, TypeOK, FilesOK, PanelOK, Place, MovePCs, SeenPCs,
            Chown, Goto, TempError, Stop, StopAnswers, Again, NoAnswer
<1>1. Within
  BY OneFile DEF copy_file_file
<1>2. Queue'
  BY SMTT(30), <1>1 DEF Answered, Queue, Unasked, Looking, Fresh
<1>3. Agreement'
  BY <1>1 DEF Answered, Queue, Agreement, Agreed, Unasked, Looking, Opening,
     Fresh
<1>4. AppendKeepsOld'
  BY <1>1 DEF Answered, Agreement, Agreed, AppendKeepsOld, Fresh, Looking,
     Opening
<1>5. Finished'
  BY <1>1 DEF Answered, Finished, Succeeded, Arrived, Received, Tail,
     Transfer, Reported, Transferring, BeforeOpen, Opening, Carried
<1>6. AbortStands'
  BY <1>1 DEF Answered, AbortStands, Tail
<1>7. Undisturbed => Appending'
  BY <1>1 DEF Answered, Queue, Appending, Agreed, Looking, Opening,
     Undisturbed
<1>8. Undisturbed => Resuming'
  BY <1>1 DEF Answered, Queue, Unasked, Looking, Resuming, Transfer,
     Undisturbed
<1>9. Undisturbed => Kept'
  BY <1>1 DEF Answered, Kept, AsDecided, Received, Transferring, Tail,
     Transfer, Reported, Appending, Resuming, Agreed, Opening, Looking
<1>10. QED
  BY <1>2, <1>3, <1>4, <1>5, <1>6, <1>7, <1>8, <1>9 DEF Answered

LEMMA Chmod_Answered ==
    ASSUME IInv, Answered, Chmod
    PROVE  Answered'
<1> USE DEF Within, IInv, TypeOK, FilesOK, PanelOK, Place, MovePCs, SeenPCs,
            Chmod, Goto, TempError, Stop, StopAnswers, Again, NoAnswer
<1>1. Within
  BY OneFile DEF copy_file_file
<1>2. Queue'
  BY SMTT(30), <1>1 DEF Answered, Queue, Unasked, Looking, Fresh
<1>3. Agreement'
  BY <1>1 DEF Answered, Queue, Agreement, Agreed, Unasked, Looking, Opening,
     Fresh
<1>4. AppendKeepsOld'
  BY <1>1 DEF Answered, Agreement, Agreed, AppendKeepsOld, Fresh, Looking,
     Opening
<1>5. Finished'
  BY <1>1 DEF Answered, Finished, Succeeded, Arrived, Received, Tail,
     Transfer, Reported, Transferring, BeforeOpen, Opening, Carried
<1>6. AbortStands'
  BY <1>1 DEF Answered, AbortStands, Tail
<1>7. Undisturbed => Appending'
  BY <1>1 DEF Answered, Queue, Appending, Agreed, Looking, Opening,
     Undisturbed
<1>8. Undisturbed => Resuming'
  BY <1>1 DEF Answered, Queue, Unasked, Looking, Resuming, Transfer,
     Undisturbed
<1>9. Undisturbed => Kept'
  BY <1>1 DEF Answered, Kept, AsDecided, Received, Transferring, Tail,
     Transfer, Reported, Appending, Resuming, Agreed, Opening, Looking
<1>10. QED
  BY <1>2, <1>3, <1>4, <1>5, <1>6, <1>7, <1>8, <1>9 DEF Answered

LEMMA UpdateOne_Answered ==
    ASSUME IInv, Answered, UpdateOne
    PROVE  Answered'
<1> USE DEF Within, IInv, TypeOK, FilesOK, PanelOK, Place, MovePCs, SeenPCs,
            UpdateOne, Goto, check_buttons, Caller, Stop, StopAnswers,
            NoAnswer
<1>1. Within
  BY OneFile DEF copy_file_file
<1>2. Queue'
  BY SMTT(30), <1>1 DEF Answered, Queue, Unasked, Looking, Fresh
<1>3. Agreement'
  BY <1>1 DEF Answered, Queue, Agreement, Agreed, Unasked, Looking, Opening,
     Fresh
<1>4. AppendKeepsOld'
  BY <1>1 DEF Answered, Agreement, Agreed, AppendKeepsOld, Fresh, Looking,
     Opening
<1>5. Finished'
  BY <1>1 DEF Answered, Finished, Succeeded, Arrived, Received, Tail,
     Transfer, Reported, Transferring, BeforeOpen, Opening, Carried
<1>6. AbortStands'
  BY <1>1 DEF Answered, AbortStands, Tail
<1>7. Undisturbed => Appending'
  BY <1>1 DEF Answered, Queue, Appending, Agreed, Looking, Opening,
     Undisturbed
<1>8. Undisturbed => Resuming'
  BY <1>1 DEF Answered, Queue, Unasked, Looking, Resuming, Transfer,
     Undisturbed
<1>9. Undisturbed => Kept'
  BY <1>1 DEF Answered, Finished, Kept, AsDecided, Received, StopAnswers,
     Tail, Transferring
<1>10. QED
  BY <1>2, <1>3, <1>4, <1>5, <1>6, <1>7, <1>8, <1>9 DEF Answered

-----------------------------------------------------------------------------
(* panel_operate, and the first and the last step of an operation.          *)

LEMMA StartOperation_Answered ==
    ASSUME IInv, Answered, StartOperation
    PROVE  Answered'
<1>1. /\ pc = "idle" /\ pc' = "next" /\ cur' = cur /\ op' \in Ops
      /\ ops < MaxOps /\ ops' = ops + 1 /\ ~aborted'
      /\ UNCHANGED <<present, marked, do_append, resources, pos>>
      /\ \A f \in Files : decided'[f] = "none"
  BY DEF StartOperation
<1>2. cur = 0 /\ ops \in 0..MaxOps
  BY <1>1 DEF Answered, Queue, IInv, TypeOK, PanelOK
<1>3. ASSUME NEW f \in Files, marked[f], present[f]
      PROVE  Fresh(f)'
  <2>1. base'[f] = SizeOf(dst[f])
    BY DEF StartOperation
  <2>2. dst'[f] = IF dst[f].there THEN OldFile(SizeOf(dst[f])) ELSE dst[f]
    BY <1>3 DEF StartOperation
  <2>3. QED
    BY <2>1, <2>2 DEF Fresh, OldFile
<1>4. Queue'
  BY <1>1, <1>2, <1>3 DEF Queue, Unasked, Looking
<1>5. Agreement' /\ AppendKeepsOld'
  BY <1>1 DEF Agreement, Agreed, AppendKeepsOld, Looking, Opening
<1>6. Finished' /\ AbortStands'
  BY <1>1 DEF Finished, AbortStands, Succeeded, Tail
<1>7. Undisturbed => Appending' /\ Resuming' /\ Kept'
  <2>1. Undisturbed => ~do_append
    BY <1>1, <1>2 DEF Answered, Appending, Agreed, Looking, Opening
  <2>2. QED
    BY <1>1, <2>1 DEF Appending, Agreed, Looking, Opening, Resuming, Kept,
       Transferring, Tail
<1>8. QED
  BY <1>4, <1>5, <1>6, <1>7 DEF Answered

LEMMA NextFile_Answered ==
    ASSUME IInv, Answered, NextFile
    PROVE  Answered'
<1>1. /\ pc = "next" /\ pc' = IF op = "copy" THEN "copy" ELSE "move"
      /\ cur' \in Files /\ cur' > cur /\ marked[cur']
      /\ UNCHANGED <<size, kind, obstacle, present, dst, marked, op, ops,
                     do_append, do_reget, resources, pos, aborted, decided,
                     base>>
  BY DEF NextFile, Later, Goto, NoAnswer
<1>2. op \in {"copy", "move"} /\ cur \in 0..NFiles
  BY <1>1 DEF IInv, TypeOK, PanelOK, Place
<1>3. Queue'
  <2>1. PICK c \in Files : c = cur' /\ c > cur /\ marked[c]
    BY <1>1
  <2>2. \A f \in Files : /\ f >= c => f > cur
                         /\ Fresh(f)' <=> Fresh(f)
    BY <1>1, <1>2, <2>1 DEF Fresh
  <2>3. \A f \in Files : f >= c => /\ decided'[f] = "none"
                                   /\ marked'[f] /\ present'[f] => Fresh(f)'
    BY <1>1, <2>2 DEF Answered, Queue
  <2>4. decided'[c] = "none" /\ marked'[c] /\ (present'[c] => Fresh(c)')
    BY <1>1, <2>1, <2>3
  <2>5. \A f \in Files : f > c => f >= c
    OBVIOUS
  <2>6. /\ pc' # "idle"
        /\ op' # "none" => op' \in Ops /\ ops' > 0
    BY <1>1, <1>2 DEF Answered, Queue
  <2>7. QED
    BY <2>1, <2>3, <2>4, <2>5, <2>6 DEF Queue, Fresh
<1>4. Agreement' /\ AppendKeepsOld'
  BY <1>1, <1>2 DEF Answered, Agreement, Agreed, AppendKeepsOld, Looking,
     Opening
<1>5. Finished' /\ AbortStands'
  BY <1>1 DEF Answered, Finished, AbortStands, Succeeded, Tail
<1>6. Undisturbed => Appending' /\ Resuming' /\ Kept'
  BY <1>1, <1>2 DEF Answered, Appending, Agreed, Looking, Opening, Resuming,
     Kept, Transferring, Tail
<1>7. QED
  BY <1>3, <1>4, <1>5, <1>6 DEF Answered

LEMMA EndOperation_Answered ==
    ASSUME IInv, Answered, LastFile \/ Aborted
    PROVE  Answered'
<1>1. /\ pc \in {"next", "returned"} /\ pc' = "idle" /\ cur' = 0
      /\ op' = "none"
      /\ UNCHANGED <<dst, ops, do_append, decided, base>>
  BY DEF LastFile, Aborted, EndOperation
<1>2. Queue' /\ Agreement' /\ AppendKeepsOld'
  BY <1>1 DEF Answered, Queue, Agreement, Agreed, AppendKeepsOld, Unasked,
     Looking, Opening
<1>3. Finished' /\ AbortStands'
  BY <1>1 DEF Finished, AbortStands, Succeeded, Tail
<1>4. Undisturbed => Appending'
  <2>1. op # "none" /\ ops \in 0..MaxOps
    BY <1>1 DEF IInv, TypeOK, PanelOK, Place
  <2>2. Undisturbed /\ do_append => ops = MaxOps
    BY <1>1, <2>1 DEF Answered, Queue, Appending, Agreed, Looking, Opening,
       Undisturbed
  <2>3. QED
    BY <1>1, <2>2 DEF Appending, Agreed, Looking, Opening
<1>5. Undisturbed => Resuming' /\ Kept'
  BY <1>1 DEF Resuming, Kept, Transferring, Tail
<1>6. QED
  BY <1>2, <1>3, <1>4, <1>5 DEF Answered

LEMMA FileDone_Answered ==
    ASSUME IInv, Answered, FileDone
    PROVE  Answered'
<1>1. /\ pc = "returned" /\ return_status # "abort"
      /\ \A f \in Files : marked'[f] => marked[f]
      /\ UNCHANGED <<present, dst, ops, do_append, decided, base>>
  BY DEF FileDone, EndOperation, IInv, TypeOK, PanelOK
<1>2. \/ pc' = "next" /\ UNCHANGED <<cur, op, aborted, return_status>>
      \/ pc' = "idle" /\ cur' = 0 /\ op' = "none"
  BY DEF FileDone, EndOperation
<1>3. Queue'
  BY <1>1, <1>2 DEF Answered, Queue, Unasked, Looking, Fresh
<1>4. Agreement' /\ AppendKeepsOld'
  BY <1>1, <1>2 DEF Answered, Agreement, Agreed, AppendKeepsOld, Looking,
     Opening
<1>5. Finished' /\ AbortStands'
  BY <1>1, <1>2 DEF Answered, Finished, AbortStands, Succeeded, Tail
<1>6. Undisturbed => Appending' /\ Resuming' /\ Kept'
  <2>1. Undisturbed => ~do_append
    BY <1>1 DEF Answered, Appending, Agreed, Looking, Opening
  <2>2. QED
    BY <1>1, <1>2, <2>1 DEF Appending, Agreed, Looking, Opening, Resuming,
       Kept, Transferring, Tail
<1>7. QED
  BY <1>3, <1>4, <1>5, <1>6 DEF Answered

LEMMA Still_Answered ==
    ASSUME IInv, Answered, UNCHANGED vars
    PROVE  Answered'
<1> USE DEF vars, Answered
<1>1. Queue' /\ Agreement' /\ AppendKeepsOld' /\ Finished' /\ AbortStands'
  BY DEF Queue, Agreement, AppendKeepsOld, Finished, AbortStands, Unasked,
     Agreed, Fresh, Received, Arrived, Succeeded
<1>2. Undisturbed => Appending' /\ Resuming' /\ Kept'
  BY DEF Appending, Resuming, Kept, AsDecided, Agreed, Received
<1>3. QED
  BY <1>1, <1>2

-----------------------------------------------------------------------------
(* The theorems.                                                            *)

LEMMA Init_Answered == ASSUME Init PROVE Answered
<1>1. /\ pc = "idle" /\ op = "none" /\ cur = 0 /\ ~do_append /\ ~aborted
      /\ \A f \in Files : decided[f] = "none"
  BY DEF Init
<1>2. Queue /\ Agreement /\ AppendKeepsOld /\ Finished /\ AbortStands
  BY <1>1 DEF Queue, Agreement, AppendKeepsOld, Finished, AbortStands,
     Unasked, Agreed, Looking, Opening, Succeeded, Tail
<1>3. Appending /\ Resuming /\ Kept
  BY <1>1 DEF Appending, Resuming, Kept, Agreed, Looking, Opening,
     Transferring, Tail
<1>4. QED
  BY <1>2, <1>3 DEF Answered

LEMMA NextAnswered == IInv /\ Answered /\ [Next]_vars => Answered'
<1> SUFFICES ASSUME IInv, Answered, [Next]_vars PROVE Answered'
  OBVIOUS
<1>1. CASE panel_operate
  BY <1>1, NextFile_Answered, EndOperation_Answered, FileDone_Answered
     DEF panel_operate
<1>2. CASE move_file_file
  BY <1>2, MoveShow_Answered, MoveStatFails_Answered, MoveStat_Answered,
     MoveRename_Answered, MoveStableSymlink_Answered, MoveByCopy_Answered,
     MoveCopied_Answered, UnlinkFails_Answered, Unlink_Answered
     DEF move_file_file
<1>3. CASE copy_file_file
  BY <1>3, CopyShow_Answered, DstStat_Answered, SrcStatFails_Answered,
     SrcStat_Answered, CopyQuery_Answered, Hardlinked_Answered,
     MakeSpecial_Answered, Regular_Answered, OpenSrc_Answered,
     OpenSrcFails_Answered, Reget_Answered, RegetFails_Answered,
     FstatSrc_Answered, OpenDst_Answered, OpenDstFails_Answered,
     FstatDst_Answered, ReadNotReady_Answered, ReadFails_Answered,
     Read_Answered, ReadEof_Answered, Write_Answered, WriteShort_Answered,
     WriteFails_Answered, Progress_Answered, CloseSrc_Answered,
     CloseDst_Answered, RemoveShortFile_Answered, Finish_Answered,
     Chown_Answered, Chmod_Answered, UpdateOne_Answered
     DEF copy_file_file
<1>4. QED
  BY <1>1, <1>2, <1>3, StartOperation_Answered, Still_Answered DEF Next, Idle

LEMMA AlwaysAnswered == Spec => [](IInv /\ Answered)
  BY InitInv, Init_Answered, NextInv, NextAnswered, PTL DEF Spec

\* The old contents of a target that is to be appended to, or continued, stay
\* in place until the user has the incomplete target deleted (file.c:777-811,
\* 847-862), whichever calls fail and whatever is answered.
THEOREM OldContentsStay == Spec => []AppendKeepsOld
<1>1. Answered => AppendKeepsOld
  BY DEF Answered
<1>2. QED
  BY <1>1, AlwaysAnswered, PTL

\* panel_operate takes a file's tag away only when the whole source has
\* arrived at its target and, in a move, is gone (file.c:2035-2050).
THEOREM UntagsWhatArrived == Spec => UntaggedOnSuccess
<1>1. IInv /\ Answered /\ [Next]_vars =>
         \A f \in Files : marked[f] /\ ~marked'[f] =>
            /\ dst[f].there /\ dst[f].upto >= size[f]
            /\ op = "move" => ~present[f]
  <2> SUFFICES ASSUME IInv, Answered, [Next]_vars, NEW f \in Files,
                      marked[f], ~marked'[f]
               PROVE  /\ dst[f].there /\ dst[f].upto >= size[f]
                      /\ op = "move" => ~present[f]
    OBVIOUS
  <2>1. FileDone
    BY OneFile DEF Next, StartOperation, Idle, vars, panel_operate, NextFile,
       LastFile, Aborted, Within
  <2>2. f = cur /\ Succeeded
    BY <2>1 DEF FileDone, Succeeded, IInv, TypeOK, PanelOK
  <2>3. QED
    BY <2>2 DEF Answered, Finished, Arrived
<1>2. QED
  BY <1>1, AlwaysAnswered, PTL DEF Spec, UntaggedOnSuccess

\* After Abort the code that is left to run removes no source and writes
\* nothing: it may delete the incomplete target.
LEMMA AbortedTail ==
    ASSUME IInv, move_file_file \/ copy_file_file,
           pc \in Tail \cup {"move_copied", "returned"}, return_status = "abort"
    PROVE  present' = present /\ dst' \in {dst, [dst EXCEPT ![cur] = NoFile]}
<1> USE DEF Tail
<1>1. CASE move_file_file
  BY <1>1 DEF move_file_file, MoveShow, MoveStatFails, MoveStat, MoveRename,
     MoveStableSymlink, MoveByCopy, MoveCopied, UnlinkFails, Unlink
<1>2. CASE copy_file_file
  <2>1. CloseSrc \/ CloseDst \/ RemoveShortFile \/ Finish \/ Chown \/ Chmod
        \/ UpdateOne
    BY <1>2 DEF copy_file_file, CopyShow, DstStat, SrcStatFails, SrcStat,
       CopyQuery, Hardlinked, MakeSpecial, Regular, OpenSrc, OpenSrcFails,
       Reget, RegetFails, FstatSrc, OpenDst, OpenDstFails, FstatDst,
       ReadNotReady, ReadFails, Read, ReadEof, Write, WriteShort, WriteFails,
       Progress
  <2>2. QED
    BY <2>1 DEF CloseSrc, CloseDst, RemoveShortFile, Finish, Chown, Chmod,
       UpdateOne
<1>3. QED
  BY <1>1, <1>2

\* Once the user has pressed Abort, panel_operate takes up no other file, no
\* source is removed and nothing is written any more, if the calls after the
\* transfer do not fail: the dialogs about those overwrite the answer
\* (file.c:853-897).
THEOREM AbortIsFinal == ~LateErrors => (Spec => AbortSkipsTheRest)
<1> SUFFICES ASSUME ~LateErrors PROVE Spec => AbortSkipsTheRest
  OBVIOUS
<1>1. IInv /\ Answered /\ [Next]_vars =>
         (aborted /\ cur # 0 =>
            /\ cur' \in {cur, 0}
            /\ present' = present
            /\ dst' \in {dst, [dst EXCEPT ![cur] = NoFile]})
  <2> SUFFICES ASSUME IInv, Answered, [Next]_vars, aborted, cur # 0
               PROVE  /\ cur' \in {cur, 0}
                      /\ present' = present
                      /\ dst' \in {dst, [dst EXCEPT ![cur] = NoFile]}
    OBVIOUS
  <2>1. /\ pc # "idle" /\ pc # "next"
        /\ pc \in Tail \cup {"move_copied", "returned"} /\ return_status = "abort"
    BY DEF Answered, Queue, AbortStands, Tail
  <2>2. cur' \in {cur, 0}
    BY <2>1, OneFile DEF Next, StartOperation, Idle, vars, panel_operate,
       NextFile, LastFile, FileDone, Aborted,
       EndOperation, Within
  <2>3. CASE move_file_file \/ copy_file_file
    BY <2>1, <2>2, <2>3, AbortedTail
  <2>4. CASE ~(move_file_file \/ copy_file_file)
    BY <2>1, <2>2, <2>4 DEF Next, StartOperation, Idle, vars, panel_operate,
       NextFile, LastFile, FileDone, Aborted, EndOperation
  <2>5. QED
    BY <2>3, <2>4
<1>2. QED
  BY <1>1, AlwaysAnswered, PTL DEF Spec, AbortSkipsTheRest

\* What a successful transfer leaves behind is the whole source, where the
\* answer of the replace dialog wanted it (filegui.c:604-660), if no write is
\* short and, where files are moved, no Append answer is left over from a file
\* that copy_file_file gave up before its open.
THEOREM CopiesAsDecided ==
    ~ShortWrites /\ Undisturbed => (Spec => []CopiedAsDecided)
<1> SUFFICES ASSUME ~ShortWrites, Undisturbed
             PROVE  Spec => []CopiedAsDecided
  OBVIOUS
<1>1. IInv /\ Answered => CopiedAsDecided
  <2> SUFFICES ASSUME Answered, Succeeded PROVE CopiedAsDecided
    BY DEF CopiedAsDecided, CopyComplete, YesOverwrites, AppendAppends,
       RegetResumes
  <2>1. Arrived(cur)
    BY DEF Answered, Finished
  <2>2. AsDecided(cur)
    BY DEF Answered, Kept, Succeeded
  <2>3. QED
    BY <2>1, <2>2 DEF Arrived, AsDecided, CopiedAsDecided, CopyComplete,
       YesOverwrites, AppendAppends, RegetResumes
<1>2. QED
  BY <1>1, AlwaysAnswered, PTL
=============================================================================
