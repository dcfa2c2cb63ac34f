---------------------------- MODULE MCFileActions ----------------------------
(***************************************************************************)
(* Small instances of FileActions: a batch of two Trash actions, one file  *)
(* that is trashed and restored, or a rename.                              *)
(***************************************************************************)
EXTENDS FileActions, TLC

CONSTANTS t1, t2, t3, m1

AllTrash   == {t1, t2, t3}
OneRename  == {m1}
OneRestore == {t3}

\* A batch of two files, one file that may be restored, one rename.
AllPlans   == {{t1, t2}, {t3}, {m1}}

\* The second recorder looks at the rename only.
Looks      == [c \in {"c1", "c2"} |-> IF c = "c1" THEN {t3, m1} ELSE {m1}]

=============================================================================
