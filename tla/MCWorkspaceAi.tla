---------------------------- MODULE MCWorkspaceAi ----------------------------
(* Three requests to run one preview.                                      *)
EXTENDS WorkspaceAi, TLC

CONSTANTS r1, r2, r3

MCRuns == {r1, r2, r3}
MCSymmetry == Permutations(MCRuns)
=============================================================================
