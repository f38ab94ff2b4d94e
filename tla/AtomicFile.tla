---------------------------- MODULE AtomicFile ----------------------------
(***************************************************************************)
(* What Store promises of one JSON file: it holds a whole document or does *)
(* not exist, a save replaces the document in one step, and a power loss   *)
(* leaves the last document or one the directory may still have pointed to *)
(* - never part of one.                                                    *)
(***************************************************************************)
CONSTANTS Doc, Absent

VARIABLES
    value,    \* the document a reader finds, or Absent
    older     \* the earlier values a power loss may bring back

vars == <<value, older>>

Init == value = Absent /\ older = {}

Replace == /\ value' \in Doc
           /\ older' = older \cup {value}

PowerLoss == /\ value' \in older \cup {value}
             /\ older' = {}

\* The directory entry reaches the disk.
Settle == older' = {} /\ UNCHANGED value

Next == Replace \/ PowerLoss \/ Settle

Spec == Init /\ [][Next]_vars
=============================================================================
