----------------------------- MODULE MCTreeOps -----------------------------
(* The tree on which TreeOps is checked.                                    *)
EXTENDS TreeOps

\* A tagged directory with a subdirectory, an empty one and a plain file:
\*     1/ 2/ 3,  1/ 4,  5/,  6
DeepParent == <<0, 1, 2, 1, 0, 0>>
DeepDirs == {1, 2, 5}
=============================================================================
