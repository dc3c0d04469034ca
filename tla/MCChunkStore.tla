---------------------------- MODULE MCChunkStore ----------------------------
(* ChunkStore for TLC: the clients, the files and the servers are alike. *)
EXTENDS ChunkStore, TLC

Symmetry == Permutations(Client) \union Permutations(File)
                \union Permutations(Server)
=============================================================================
