------------------------------ MODULE MCStore ------------------------------
(* Instances of Store: documents of one and two blocks. *)
EXTENDS Store, TLC

CONSTANTS short, long

DocSizes == [d \in Doc |-> IF d = long THEN 2 ELSE 1]

\* Inodes are interchangeable, and the properties are safety properties.
Inodes == Permutations(Inode)
=============================================================================
