---------------------------- MODULE MCAgentChat ----------------------------
(* Instances of AgentChat for TLC. *)
EXTENDS AgentChat, TLC

CONSTANTS c1, c2

OneChat  == {c1}
TwoChats == {c1, c2}
ChatSymmetry == Permutations(TwoChats)
AnyMode  == {"stream", "sync"}
SyncMode == {"sync"}
=============================================================================
