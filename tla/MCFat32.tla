------------------------------ MODULE MCFat32 ------------------------------
(* Small instances of Fat32: names and contents are model values of the    *)
(* configurations, MCExts adds one extension to the empty one.             *)
EXTENDS Fat32Store, TLC

CONSTANT x

MCExts == {NoExt, x}

\* No name spells a cluster, or every name spells that of root.
MCNowhere == [n \in Names |-> CLUSTER_0_VALUE]

MCToRoot == [n \in Names |-> ROOT_CLUSTER_NUMBER]

\* No name but NoName, RootName and Smashed is mentioned in Fat32, and MCNowhere
\* tells none from another.
Symmetry == Permutations(Names)

\* No action depends on reply: states that differ in it only have the same
\* successors.  For instances whose properties do not depend on it either.
View == <<disk, diskFat, fat_table, hung, limits>>

\* TypeOK depends on whether its return code is one.
CodeView == <<disk, diskFat, fat_table, reply.ret \in Codes, hung, limits>>
=============================================================================
