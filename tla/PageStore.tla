------------------------------- MODULE PageStore -------------------------------
(***************************************************************************)
(* What the paged file system promises the B-trees and records above it:   *)
(* every file is a set of pages its callers own, and a page reads as what  *)
(* was last stored in it.  There is no cache, no file id, no open or close *)
(* here, and no process either: a page keeps its content through all of    *)
(* them.                                                                   *)
(***************************************************************************)
CONSTANTS
    File,
    PageId,
    Content,    \* what a page may hold
    Stored      \* what callers store in a page

VARIABLE content    \* per file, a function from the pages owned

StoreInit == content = [f \in File |-> [p \in {} |-> {}]]

(* The page handed out is nobody's, and its content is unspecified. *)
Allocate(f) ==
    \E p \in PageId \ DOMAIN content[f], c \in Content :
        content' = [content EXCEPT
            ![f] = [q \in DOMAIN @ \cup {p} |-> IF q = p THEN c ELSE @[q]]]

Free(f) ==
    \E p \in DOMAIN content[f] :
        content' = [content EXCEPT ![f] = [q \in DOMAIN @ \ {p} |-> @[q]]]

Put(f) ==
    \E p \in DOMAIN content[f], v \in Stored :
        content' = [content EXCEPT ![f][p] = v]

Drop(f) == content' = [content EXCEPT ![f] = [p \in {} |-> {}]]

StoreNext == \E f \in File : Allocate(f) \/ Free(f) \/ Put(f) \/ Drop(f)

StoreSpec == StoreInit /\ [][StoreNext]_content
=============================================================================
