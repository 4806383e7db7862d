------------------------------ MODULE MCPower ------------------------------
(* A small instance of Fat32Power.                                         *)
EXTENDS Fat32Power, TLC

\* No name spells a cluster.
MCNowhere == [n \in Names |-> CLUSTER_0_VALUE]

Symmetry == Permutations(Names)

View == <<disk, diskFat, fat_table, hung, limits, platter, writes, formatted, risks,
          failures, calls>>
=============================================================================
