-------------------------- MODULE MCKafkaSinkStore --------------------------
(***************************************************************************)
(* Instances of KafkaSinkStore for TLC.                                    *)
(***************************************************************************)
EXTENDS KafkaSinkStore, TLC

\* An id is given by the number of the same name; the others are drawn.
MCDerived == [n \in Numbers |-> n]
SeedRow(n) == [id |-> n, number |-> n, status |-> "ACTIVE", dated |-> FALSE]
MCSeeds == {<<SeedRow(1), SeedRow(2)>>}
MCPatches == {[status |-> None, dated |-> FALSE], [status |-> "CLOSED", dated |-> FALSE]}
ThreeRows == {<<SeedRow(1), SeedRow(2), SeedRow(3)>>}
Symmetry == Permutations(Threads)
=============================================================================
