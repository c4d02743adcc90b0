------------------------------- MODULE MCPageFs -------------------------------
(* Names for the values of small instances: one or two files of two or     *)
(* three pages over one or two frames, so that every miss may evict and    *)
(* the process may run out of file ids, frames and pages.                  *)
EXTENDS PageFs, TLC

CONSTANTS f1, f2, zero, leaf

(* Bound: one of the files stays at a single page. *)
ThreePages == \E f \in File : disk[f] = Absent \/ disk[f].extent \subseteq {1}

(* Files have no order. *)
Names == Permutations(File)
=============================================================================
