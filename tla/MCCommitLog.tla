---------------------------- MODULE MCCommitLog ----------------------------
(* CommitLog for TLC: the threads and the directories are alike. *)
EXTENDS CommitLog, TLC

Symmetry == Permutations(Thread) \union Permutations(Dir)
============================================================================
