------------------------------- MODULE MCRaft -------------------------------
(* Instances of Raft for TLC. *)
EXTENDS Raft, TLC

\* Apart from who takes snapshots, no node or command differs from another.
Symmetry ==
    Permutations(Snapshotters) \union Permutations(Node \ Snapshotters)
    \union Permutations(Value)
=============================================================================
