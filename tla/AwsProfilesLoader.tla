------------------------- MODULE AwsProfilesLoader -------------------------
(***************************************************************************)
(* lib::AwsProfilesLoader (src/src/aws/awsprofilesloader.cpp) with what     *)
(* Aws::initialiseDestinationWithProfile accepts of what it finds.  A file  *)
(* lists access profiles and destinations, each with a name that may come   *)
(* twice; the members of an object are all there ("full"), all there with   *)
(* an empty string among those the registry tests ("empty"), or one is      *)
(* missing ("lacking").                                                     *)
(***************************************************************************)
EXTENDS Naturals, Sequences, TLC

Members == {"full", "empty", "lacking"}

\* The files that can be parsed, with these names of destinations and access profiles.
ProfileFile(Name, Profiles) ==
  [access       : Seq([name : Profiles, members : Members]),
   destinations : Seq([name : Name, members : Members, profile : Profiles])]

NothingLoaded == <<>>

\* std::map::insert: what the map has under the key stays.
WithEntry(map, key, value) ==
  [x \in DOMAIN map \cup {key} |-> IF x \in DOMAIN map THEN map[x] ELSE value]

\* parseAccessProfiles: an object that lacks a member is passed over, and insert()
\* keeps the first of a name.
AccessProfiles(file) ==
  LET map[n \in 0 .. Len(file.access)] ==
        IF n = 0 THEN NothingLoaded
        ELSE LET a == file.access[n]
             IN  IF a.members = "lacking" THEN map[n - 1] ELSE WithEntry(map[n - 1], a.name, a.members)
  IN  map[Len(file.access)]

\* (mutant) a later object of the same name replaces an earlier one
DestinationsLastWins(file) ==
  LET known == AccessProfiles(file)
      map[n \in 0 .. Len(file.destinations)] ==
        IF n = 0 THEN NothingLoaded
        ELSE LET d == file.destinations[n]
             IN  IF d.members = "lacking" \/ d.profile \notin DOMAIN known
                   THEN map[n - 1]
                   ELSE (d.name :> [members |-> d.members, access |-> known[d.profile]]) @@ map[n - 1]
  IN  map[Len(file.destinations)]

\* parseDestinations.
Destinations(file) ==
  LET known == AccessProfiles(file)
      map[n \in 0 .. Len(file.destinations)] ==
        IF n = 0 THEN NothingLoaded
        ELSE LET d == file.destinations[n]
             IN  IF d.members = "lacking" \/ d.profile \notin DOMAIN known
                   THEN map[n - 1]
                   ELSE WithEntry(map[n - 1], d.name,
                                  [members |-> d.members, access |-> known[d.profile]])
  IN  map[Len(file.destinations)]

\* loadProfilesFromPath hands each to the registry, which refuses empty members.
Accepted(file) ==
  LET found == Destinations(file)
  IN  {name \in DOMAIN found : found[name].members = "full" /\ found[name].access = "full"}

-----------------------------------------------------------------------------
(* What a file says, without the order in which it is taken apart.          *)

\* The first complete object of its name.
Counts(list, i) ==
  /\ list[i].members # "lacking"
  /\ \A j \in 1 .. i - 1 : list[j].name = list[i].name => list[j].members = "lacking"

Describes(file, name) ==
  \E i \in DOMAIN file.destinations :
    LET d == file.destinations[i]
        Complete(e) == e.members # "lacking" /\ \E k \in DOMAIN file.access :
                         file.access[k].name = e.profile /\ file.access[k].members # "lacking"
    IN  /\ d.name = name /\ Complete(d)
        /\ \A j \in 1 .. i - 1 : file.destinations[j].name = name => ~Complete(file.destinations[j])
        /\ d.members = "full"
        /\ \E k \in DOMAIN file.access :
             /\ file.access[k].name = d.profile /\ Counts(file.access, k)
             /\ file.access[k].members = "full"
=============================================================================
