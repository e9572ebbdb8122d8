--------------------------- MODULE MCInstallQueue ---------------------------
(* Instances of InstallQueue for TLC. *)
EXTENDS InstallQueue, TLC

CONSTANTS r1, nginx, redis

OneRequest == {r1}
OneApp  == {nginx}
TwoApps == {nginx, redis}
InstallOnly == {"install"}

AppSymmetry == Permutations(TwoApps)
=============================================================================
