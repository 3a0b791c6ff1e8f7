------------------------------ MODULE EditText ------------------------------
(***************************************************************************)
(* What the editor promises of undo: "key for key undo"                    *)
(* (doc/mcedit.1.in:69), "undo tracks scrolling and key actions exactly"   *)
(* (gtkedit/edit.c:450-451).  The editor shows a text, a cursor and a      *)
(* first displayed character; it remembers what it showed before each key, *)
(* the oldest forgotten first.                                             *)
(***************************************************************************)
EXTENDS Sequences, SequencesExt

CONSTANTS Shown     \* what the editor may show: text, cursor, first character

VARIABLES now,      \* what it shows
          past      \* what it showed before the keys that undo can take back

Init == now \in Shown /\ past = <<>>

(* A key changes what is shown; a key that changes nothing need not be     *)
(* remembered, and the oldest keys may be forgotten.                       *)
Key == /\ now' \in Shown
       /\ \/ past' \in Suffixes(Append(past, now))
          \/ past # <<>> /\ now = Last(past) /\ past' \in Suffixes(past)

(* Undo shows what was shown before the last key.                          *)
Undo == /\ past # <<>>
        /\ now' = Last(past)
        /\ past' \in Suffixes(Front(past))

Next == Key \/ Undo

Spec == Init /\ [][Next]_<<now, past>>

=============================================================================
