--------------------------- MODULE MCSingleNodeFS ---------------------------
(* SingleNodeFS for TLC: names without a ':', which are alike, as are values. *)
EXTENDS SingleNodeFS

PlainNames == [n \in Name |-> n]
NoNumbers == [n \in Name |-> 0]

Symmetry == Permutations(Name) \union Permutations(Value)
=============================================================================
