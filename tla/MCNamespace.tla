---------------------------- MODULE MCNamespace ----------------------------
(* Namespace for TLC: the threads and the names are alike.  Of the inodes     *)
(* whose unlink may be refused half-way the run follows one.                  *)
EXTENDS Namespace, TLC

Symmetry == Permutations(Thread) \union Permutations(Name)
OneRefused == refused \subseteq {2}
============================================================================
