----------------------------- MODULE MCProgram -----------------------------
(***************************************************************************)
(* An instance of Program: catalogs A, A-2 and B, tokens numbered in the    *)
(* order of their characters.  When Lightroom upgrades a catalog it names   *)
(* the new one so ("A-2"), and the new one begins with the same previews.   *)
(***************************************************************************)
EXTENDS Program

MCEntry ==
  LET space == 1  dash2 == 2  lock == 3  a == 7  b == 8  smart == 10
  IN  { <<a, Lrcat>>, <<a, Lrcat, lock>>, <<a, dash2, Lrcat>>, <<b, Lrcat>>,
        <<a, space, Previews, Lrdat>>, <<a, space, smart, space, Previews, Lrdat>>,
        <<a, dash2, space, Previews, Lrdat>>, <<b, space, Previews, Lrdat>> }

A1 == <<7, 1, Previews, Lrdat, Database>>
A2 == <<7, 2, 1, Previews, Lrdat, Database>>
B1 == <<8, 1, Previews, Lrdat, Database>>

MCCatalog == {A1, A2, B1}
MCOwn == [c \in MCCatalog |-> IF c = B1 THEN {2} ELSE {1}]

\* One access profile, or two of one name, and up to two destinations.
MCFiles ==
  LET access == {[name |-> "p", members |-> m] : m \in Members}
      dest   == [name : Identifier, members : Members, profile : Profile]
  IN  [access : {<<x>> : x \in access} \cup access \X access,
       destinations : {<<x>> : x \in dest} \cup dest \X dest]
=============================================================================
