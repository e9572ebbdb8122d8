--------------------------- MODULE MCFileTransfer ---------------------------
(* Instances of FileTransfer for TLC. *)
EXTENDS FileTransfer, TLC

CONSTANTS t1, r1, r2

OneTask == {t1}
TwoRequests == {r1, r2}
BatchOps == {"batch", "cancel", "destroy"}

RequestSymmetry == Permutations(TwoRequests)
=============================================================================
