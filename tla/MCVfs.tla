------------------------------- MODULE MCVfs -------------------------------
(* The archives with which Vfs is checked.                                  *)
EXTENDS Vfs

CONSTANTS zip, inner, tar

\* An archive on the disk, and in it another one and a tar file.
TwoInOne == [a \in {zip, inner, tar} |-> IF a = zip THEN Local ELSE zip]
=============================================================================
