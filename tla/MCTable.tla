-------------------------------- MODULE MCTable --------------------------------
(***************************************************************************)
(* Table on small instances: declarations of one or two tables, and how    *)
(* many rows each may be given.                                            *)
(***************************************************************************)
EXTENDS Table

CONSTANTS persons, infos

NoDefault == [c \in Col |-> Omitted]

Plain == [notnull |-> {}, primary |-> {}, unique |-> {},
          default |-> NoDefault, fails |-> {}, foreign |-> {}]

(* A unique column, and one that an index may be created for. *)
UniqueDecl == [t \in Tab |-> [Plain EXCEPT !.unique = {1}]]

(* The tables of the README of the repository: persons with a key of one   *)
(* column, infos with a key of two, the first of which refers to persons,  *)
(* a default and a CHECK.                                                  *)
KeysDecl ==
    [t \in Tab |->
        IF t = persons
        THEN [Plain EXCEPT !.primary = {1},
                           !.default[2] = 1,
                           !.fails = {r \in [Col -> Datum] : r[2] # 1}]
        ELSE [Plain EXCEPT !.primary = {1, 2},
                           !.foreign = {[col |-> 1, tab |-> persons, ref |-> 1]}]]

(* One table of three rows. *)
ThreeRows == [t \in Tab |-> 3]

(* One person and three infos: enough for the walk over equal first columns *)
(* of a key to pass a row before it meets the double.                      *)
OneAndThree == [t \in Tab |-> IF t = persons THEN 1 ELSE 3]
=============================================================================
