------------------------------- MODULE LruOrder -------------------------------
(***************************************************************************)
(* What cache_manager (src/src/fs/cache_manager.h) promises to page_fs: a  *)
(* total order of the frames by recency.  age[i] is the number of frames   *)
(* that were accessed more recently than frame i, so age 0 is the head of  *)
(* the ring and age Capacity - 1 the frame that last() returns.  LruRing   *)
(* models the linked ring of the code and is shown to implement this.      *)
(***************************************************************************)
EXTENDS Integers

CONSTANT Capacity          \* PAGE_CACHE_CAPACITY

ASSUME CapacityAssumption == Capacity \in Nat \ {0}

VARIABLE age

Frame == 0 .. Capacity - 1

(* Mutant of Touched: the frames behind i age too. *)
TouchedAgesAll(i) == [j \in Frame |-> IF j = i THEN 0 ELSE age[j] + 1]

(* The order after access(i): i becomes the most recent frame and every    *)
(* frame that was more recent than i ages by one.                          *)
Touched(i) ==
    [j \in Frame |-> IF j = i THEN 0
                     ELSE IF age[j] < age[i] THEN age[j] + 1
                     ELSE age[j]]

(* Mutant of Victim: last() returns the head of the ring. *)
VictimIsHead == CHOOSE i \in Frame : age[i] = 0

(* last(): the least recently used frame. *)
Victim == CHOOSE i \in Frame : age[i] = Capacity - 1

LruInit == age = [i \in Frame |-> i]

LruAccess(i) == age' = Touched(i)

LruSpec == LruInit /\ [][\E i \in Frame : LruAccess(i)]_age
=============================================================================
