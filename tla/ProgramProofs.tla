--------------------------- MODULE ProgramProofs ---------------------------
(***************************************************************************)
(* Proofs about Program, for any directory, any catalogs and previews, any  *)
(* number of synchronizers and restarts.                                    *)
(***************************************************************************)
EXTENDS Program, ScannerProofs, SequenceTheorems, WellFoundedInduction

-----------------------------------------------------------------------------
(* The inductive invariant.                                                 *)

\* The scanner's variables live as long as the scan, the pairs until main has begun.
ScanStays ==
  /\ main # "read" => dir = {} /\ unread = {} /\ pairs = <<>> /\ copied = {}
  /\ main = "setup" => filePairs = <<>>

\* No synchronizer is left.
Stopped == main \in {"setup", "read", "exit", "done", "ended"} => deleted = Len(synchronizers)

Turned ==
  /\ main = "first" => turn \in Catalog /\ point[turn] = "scan"
  /\ main \in {"join", "unwatch"} =>
       deleted < Len(synchronizers) /\ turn = synchronizers[deleted + 1]

Undeleted(c) == \E i \in deleted + 1 .. Len(synchronizers) : synchronizers[i] = c

\* A synchronizer is in main's hands or in its vector.
Owned == \A c \in Catalog : point[c] # "off" => (main = "first" /\ turn = c) \/ Undeleted(c)

MainInv == ScanStays /\ Stopped /\ Turned /\ Owned

\* An entry is only known for a preview of the catalog.
Known ==
  /\ \A c \in Catalog : known[c] \subseteq Own[c]
  /\ \A c \in Catalog : point[c] \in {"create", "insert", "request", "free", "erase", "mark"} =>
                          at[c] \in Own[c]

\* With one synchronizer nothing gets between the two halves of a change.
Undisturbed ==
  Len(synchronizers) <= 1 =>
    \A c \in Catalog : point[c] \in {"insert", "erase"} => view[c] = requests

IInv == /\ TypeOK /\ ScannerInv /\ MainInv /\ Known /\ Undisturbed
        /\ PutAgainOnlyOnOverlapOrMiss
        /\ RegistryIsExact /\ RequestsEndBeforeTheirDestination

-----------------------------------------------------------------------------
(* What follows from it.                                                    *)

LEMMA NobodyLeft ==
  ASSUME IInv, main \in {"setup", "read", "exit", "done", "ended"}
  PROVE  \A c \in Catalog : point[c] = "off"
<1>1. deleted = Len(synchronizers) /\ deleted \in Nat
  BY DEF IInv, MainInv, Stopped, TypeOK
<1>2. \A c \in Catalog : ~Undeleted(c)
  BY <1>1 DEF Undeleted
<1> QED
  BY <1>2 DEF IInv, MainInv, Owned

LEMMA NoBatchIsBatch ==
  NoBatch \in Batch /\ NoBatch.add = {} /\ NoBatch.remove = {} /\ NoBatch.missed = {}
  BY DEF NoBatch, Batch

LEMMA NoneIsSequence == <<>> \in Seq(Catalog) /\ Len(<<>>) = 0
  OBVIOUS

\* A new process, or the end of one.
LEMMA AfreshInv ==
  ASSUME IInv, Afresh, main' \in {"setup", "done", "ended"}
  PROVE  IInv'
<1> USE DEF Afresh, Everywhere
<1>1. TypeOK'
  <2>1. A!AwsTypeOK'
    BY DEF IInv, TypeOK, A!AwsTypeOK
  <2>2. main' \in MainPoint /\ synchronizers' \in Seq(Catalog) /\ deleted' \in 0 .. Len(synchronizers')
    BY NoneIsSequence DEF MainPoint
  <2>3. job' \in [Catalog -> Batch] /\ point' \in [Catalog -> Point]
    BY NoBatchIsBatch DEF Point
  <2>4. /\ known' \in [Catalog -> SUBSET Uuid] /\ at' \in [Catalog -> Uuid \cup {0}]
        /\ cancel' \in [Catalog -> BOOLEAN] /\ turn' \in Catalog \cup {NoCatalog}
    OBVIOUS
  <2>5. cached' \subseteq Uuid
    BY DEF IInv, TypeOK
  <2> QED
    BY <2>1, <2>2, <2>3, <2>4, <2>5 DEF TypeOK
<1>2. ScannerInv'
  BY DEF ScannerInv, ScannerTypeOK, Named, ReadFirst, HalvesBelongTogether, OnlyClashesAreLeftOut
<1>3. MainInv'
  BY DEF MainInv, ScanStays, Stopped, Turned, Owned
<1>4. Known' /\ Undisturbed'
  BY DEF Known, Undisturbed
<1>5. PutAgainOnlyOnOverlapOrMiss'
  BY DEF PutAgainOnlyOnOverlapOrMiss, Synchronized, NoBatch
<1>6. RegistryIsExact' /\ RequestsEndBeforeTheirDestination'
  BY DEF RegistryIsExact, RequestsEndBeforeTheirDestination, Holds
<1> QED
  BY <1>1, <1>2, <1>3, <1>4, <1>5, <1>6 DEF IInv

LEMMA InitInv == ASSUME Init PROVE IInv
<1> USE DEF Init, A!AwsInit, A!NoView, ScannerIdle, Everywhere
<1>1. TypeOK
  <2>1. A!AwsTypeOK
    BY DEF A!AwsTypeOK
  <2>2. main \in MainPoint /\ synchronizers \in Seq(Catalog) /\ deleted \in 0 .. Len(synchronizers)
    BY NoneIsSequence DEF MainPoint
  <2>3. job \in [Catalog -> Batch] /\ point \in [Catalog -> Point]
    BY NoBatchIsBatch DEF Point
  <2>4. /\ known \in [Catalog -> SUBSET Uuid] /\ at \in [Catalog -> Uuid \cup {0}]
        /\ cancel \in [Catalog -> BOOLEAN] /\ turn \in Catalog \cup {NoCatalog}
    OBVIOUS
  <2>5. cached \subseteq Uuid
    OBVIOUS
  <2> QED
    BY <2>1, <2>2, <2>3, <2>4, <2>5 DEF TypeOK
<1>2. ScannerInv
  BY IdleScannerInv
<1>3. MainInv
  BY DEF MainInv, ScanStays, Stopped, Turned, Owned
<1>4. Known /\ Undisturbed
  BY DEF Known, Undisturbed
<1>5. PutAgainOnlyOnOverlapOrMiss
  BY DEF PutAgainOnlyOnOverlapOrMiss, Synchronized, NoBatch
<1>6. RegistryIsExact /\ RequestsEndBeforeTheirDestination
  BY DEF RegistryIsExact, RequestsEndBeforeTheirDestination, Holds
<1> QED
  BY <1>1, <1>2, <1>3, <1>4, <1>5, <1>6 DEF IInv

\* What the workers have is not touched.
LEMMA WorkersRest ==
  ASSUME IInv, UNCHANGED <<awsVars, synchronizers, deleted, known, job, at, point, cached>>,
         main' \in {"setup", "exit", "done", "ended"} => \A c \in Catalog : point[c] = "off"
  PROVE  /\ Known' /\ Undisturbed' /\ PutAgainOnlyOnOverlapOrMiss'
         /\ RegistryIsExact' /\ RequestsEndBeforeTheirDestination'
<1> USE DEF awsVars, IInv
<1>1. Known' /\ Undisturbed' /\ PutAgainOnlyOnOverlapOrMiss'
  BY DEF Known, Undisturbed, PutAgainOnlyOnOverlapOrMiss, Synchronized
<1>2. RegistryIsExact' /\ RequestsEndBeforeTheirDestination'
  BY DEF RegistryIsExact, RequestsEndBeforeTheirDestination, Holds
<1> QED
  BY <1>1, <1>2

-----------------------------------------------------------------------------
(* What is accepted of a file of profiles.  A loop over its objects is a      *)
(* recursive function whose values at 0 .. n are followed one by one.       *)

\* A set of numbers has a least one.
LEMMA Least ==
  ASSUME NEW S \in SUBSET Nat, S # {}
  PROVE  \E m \in S : \A k \in S : m <= k
<1> DEFINE R == OpToRel(<, Nat)
<1>1. IsWellFoundedOn(R, Nat)
  BY NatLessThanWellFounded, Zenon
<1>2. \A x, y \in Nat : x < y => <<x, y>> \in R
  BY DEF OpToRel
<1> HIDE DEF R
<1>3. PICK x \in S : \A y \in S : <<y, x>> \notin R
  BY <1>1, WFMin
<1>4. ASSUME NEW y \in S PROVE x <= y
  <2>1. x \in Nat /\ y \in Nat /\ ~(y < x)
    BY <1>2, <1>3
  <2> QED
    BY <2>1
<1> QED
  BY <1>4

\* What a loop with insert() has in its map after n objects: kept says which of them it
\* inserts, keys and values what.
After(n, kept, keys, values, h) ==
  IF n = 0 THEN <<>> ELSE IF kept[n] THEN WithEntry(h[n - 1], keys[n], values[n]) ELSE h[n - 1]

\* The maps of the whole loop.
MapOf(h, N, kept, keys, values) ==
  /\ h = [n \in 0 .. N |-> h[n]]
  /\ \A n \in 0 .. N : h[n] = After(n, kept, keys, values, h)

\* There are such maps.
LEMMA MapExists ==
  ASSUME NEW N \in Nat, NEW kept, NEW keys, NEW values
  PROVE  \E h : MapOf(h, N, kept, keys, values)
<1> DEFINE Good(n, h) == \A i \in 0 .. n : h[i] = After(i, kept, keys, values, h)
           Bad == {n \in 0 .. N : \A h : ~Good(n, h)}
<1>1. 0 \notin Bad
  <2> DEFINE h == [i \in 0 .. N |-> <<>>]
  <2>1. Good(0, h)
    <3> SUFFICES ASSUME NEW i \in 0 .. 0 PROVE h[i] = After(i, kept, keys, values, h)
      OBVIOUS
    <3>1. i = 0 /\ h[0] = <<>>
      OBVIOUS
    <3> QED
      BY <3>1 DEF After
  <2> QED
    BY <2>1
<1>2. ASSUME NEW m \in Bad, \A k \in Bad : m <= k PROVE FALSE
  <2>1. m \in 1 .. N /\ m - 1 \in 0 .. N /\ ~(m <= m - 1)
    BY <1>1
  <2>2. m - 1 \notin Bad
    BY <1>2, <2>1
  <2>3. PICK h : Good(m - 1, h)
    BY <2>1, <2>2
  <2> DEFINE last == After(m, kept, keys, values, h)
             g == [i \in 0 .. N |-> IF i = m THEN last ELSE h[i]]
  <2> HIDE DEF last
  <2>4. g[m] = last /\ \A i \in 0 .. m - 1 : g[i] = h[i]
    BY <2>1
  <2> HIDE DEF g
  <2>5. ASSUME NEW i \in 0 .. m PROVE g[i] = After(i, kept, keys, values, g)
    <3>1. CASE i = m
      <4>1. m - 1 \in 0 .. m - 1
        BY <2>1
      <4>2. g[m - 1] = h[m - 1]
        BY <2>4, <4>1
      <4> QED
        BY <2>4, <3>1, <4>2 DEF last, After
    <3>2. CASE i # m
      <4>1. i \in 0 .. m - 1 /\ (i # 0 => i - 1 \in 0 .. m - 1)
        BY <2>1, <3>2
      <4>2. h[i] = After(i, kept, keys, values, h)
        BY <2>3, <4>1
      <4>3. g[i] = h[i] /\ (i # 0 => g[i - 1] = h[i - 1])
        BY <2>4, <4>1
      <4> QED
        BY <4>2, <4>3 DEF After
    <3> QED
      BY <3>1, <3>2
  <2>6. Good(m, g)
    BY <2>5
  <2> QED
    BY <2>6
<1>3. N \notin Bad
  <2>1. Bad \in SUBSET Nat
    OBVIOUS
  <2> HIDE DEF Bad
  <2>2. Bad = {}
    BY <1>2, <2>1, Least
  <2> QED
    BY <2>2
<1>4. PICK h : Good(N, h)
  BY <1>3
<1> DEFINE g == [i \in 0 .. N |-> h[i]]
<1>5. ASSUME NEW n \in 0 .. N PROVE g[n] = After(n, kept, keys, values, g)
  <2>1. n # 0 => n - 1 \in 0 .. N
    OBVIOUS
  <2>2. g[n] = h[n] /\ (n # 0 => g[n - 1] = h[n - 1])
    BY <2>1
  <2>3. h[n] = After(n, kept, keys, values, h)
    BY <1>4
  <2> HIDE DEF g
  <2> QED
    BY <2>2, <2>3 DEF After
<1>6. g = [n \in 0 .. N |-> g[n]]
  OBVIOUS
<1> HIDE DEF g
<1>7. MapOf(g, N, kept, keys, values)
  BY <1>5, <1>6 DEF MapOf
<1> QED
  BY <1>7

\* The first of those that are kept under its key.
FirstKept(i, kept, keys) == kept[i] /\ \A j \in 1 .. i - 1 : keys[j] = keys[i] => ~kept[j]

\* A map has the keys that were kept, each with the value it came with first.
LoadedMap(map, N, kept, keys, values) ==
  /\ DOMAIN map = {keys[j] : j \in {i \in 1 .. N : kept[i]}}
  /\ \A i \in 1 .. N : FirstKept(i, kept, keys) => map[keys[i]] = values[i]

LEMMA FirstStays ==
  ASSUME NEW N \in Nat, NEW kept, NEW keys, NEW values, NEW h,
         MapOf(h, N, kept, keys, values)
  PROVE  LoadedMap(h[N], N, kept, keys, values)
<1> DEFINE Keys(n) == {keys[j] : j \in {i \in 1 .. n : kept[i]}}
           Right(n) == /\ DOMAIN h[n] = Keys(n)
                       /\ \A i \in 1 .. n : FirstKept(i, kept, keys) => h[n][keys[i]] = values[i]
           Bad == {n \in 0 .. N : ~Right(n)}
<1>1. \A n \in 0 .. N : h[n] = After(n, kept, keys, values, h)
  BY DEF MapOf
<1>2. Right(0)
  <2>1. h[0] = <<>>
    BY <1>1 DEF After
  <2> QED
    BY <2>1
<1>3. ASSUME NEW m \in 1 .. N, Right(m - 1) PROVE Right(m)
  <2> DEFINE before == h[m - 1]
             after == h[m]
  <2>1. after = IF kept[m] THEN WithEntry(before, keys[m], values[m]) ELSE before
    BY <1>1 DEF After
  <2>2. DOMAIN before = Keys(m - 1)
    BY <1>3
  <2>3. \A i \in 1 .. m - 1 : FirstKept(i, kept, keys) => before[keys[i]] = values[i]
    BY <1>3
  <2>4. \A i \in 1 .. m : i \in 1 .. m - 1 \/ i = m
    OBVIOUS
  <2>5. Keys(m) = IF kept[m] THEN Keys(m - 1) \cup {keys[m]} ELSE Keys(m - 1)
    BY <2>4
  <2> HIDE DEF before, after
  <2>6. CASE ~kept[m]
    <3>1. after = before
      BY <2>1, <2>6
    <3>2. \A i \in 1 .. m : FirstKept(i, kept, keys) => i \in 1 .. m - 1
      BY <2>4, <2>6 DEF FirstKept
    <3> QED
      BY <2>2, <2>3, <2>5, <2>6, <3>1, <3>2 DEF after
  <2>7. CASE kept[m]
    <3>1. after = [x \in Keys(m - 1) \cup {keys[m]} |->
                     IF x \in Keys(m - 1) THEN before[x] ELSE values[m]]
      BY <2>1, <2>2, <2>7 DEF WithEntry
    <3>2. ASSUME NEW i \in 1 .. m, FirstKept(i, kept, keys) PROVE after[keys[i]] = values[i]
      <4>1. CASE i \in 1 .. m - 1
        <5>1. keys[i] \in Keys(m - 1)
          BY <3>2, <4>1 DEF FirstKept
        <5> QED
          BY <2>3, <3>1, <3>2, <4>1, <5>1
      <4>2. CASE i = m
        <5>1. keys[m] \notin Keys(m - 1)
          BY <3>2, <4>2 DEF FirstKept
        <5> QED
          BY <3>1, <4>2, <5>1
      <4> QED
        BY <2>4, <4>1, <4>2
    <3> QED
      BY <2>5, <2>7, <3>1, <3>2 DEF after
  <2> QED
    BY <2>6, <2>7
<1> HIDE DEF Right
<1>4. ASSUME NEW m \in Bad, \A k \in Bad : m <= k PROVE FALSE
  <2>1. m \in 1 .. N /\ m - 1 \in 0 .. N /\ ~(m <= m - 1) /\ ~Right(m)
    BY <1>2
  <2>2. m - 1 \notin Bad
    BY <1>4, <2>1
  <2>3. Right(m - 1)
    BY <2>1, <2>2
  <2> QED
    BY <1>3, <2>1, <2>3
<1>5. Right(N)
  <2>1. Bad \in SUBSET Nat
    OBVIOUS
  <2> HIDE DEF Bad
  <2>2. Bad = {}
    BY <1>4, <2>1, Least
  <2> QED
    BY <2>2 DEF Bad
<1> QED
  BY <1>5 DEF Right, LoadedMap

\* parseAccessProfiles keeps the first of each name that is complete.
LEMMA AccessLoaded ==
  ASSUME NEW file \in ProfileFile(Identifier, Profile)
  PROVE  /\ DOMAIN AccessProfiles(file) =
              {file.access[k].name :
                 k \in {i \in 1 .. Len(file.access) : file.access[i].members # "lacking"}}
         /\ \A k \in 1 .. Len(file.access) :
              Counts(file.access, k) =>
                AccessProfiles(file)[file.access[k].name] = file.access[k].members
<1> DEFINE N == Len(file.access)
           kept == [i \in 1 .. N |-> file.access[i].members # "lacking"]
           keys == [i \in 1 .. N |-> file.access[i].name]
           values == [i \in 1 .. N |-> file.access[i].members]
           Body(g, n) ==
             IF n = 0 THEN NothingLoaded
             ELSE IF file.access[n].members = "lacking" THEN g[n - 1]
                  ELSE WithEntry(g[n - 1], file.access[n].name, file.access[n].members)
           map == CHOOSE h : h = [n \in 0 .. Len(file.access) |-> Body(h, n)]
<1>1. N \in Nat
  BY DEF ProfileFile
<1>2. AccessProfiles(file) = map[N]
  BY Zenon DEF AccessProfiles
<1>3. PICK h : MapOf(h, N, kept, keys, values)
  <2> HIDE DEF N, kept, keys, values
  <2> QED
    BY <1>1, MapExists
<1>4. ASSUME NEW g, NEW n \in 0 .. N PROVE After(n, kept, keys, values, g) = Body(g, n)
  <2>1. n = 0 \/ n \in 1 .. N
    BY <1>1
  <2> QED
    BY <2>1 DEF After, NothingLoaded
<1>5. h = [n \in 0 .. N |-> Body(h, n)]
  BY <1>3, <1>4 DEF MapOf
<1>6. map = [n \in 0 .. N |-> Body(map, n)]
  BY <1>5
<1> HIDE DEF map
<1>7. MapOf(map, N, kept, keys, values)
  BY <1>4, <1>6 DEF MapOf
<1>8. LoadedMap(map[N], N, kept, keys, values)
  <2> HIDE DEF N, kept, keys, values
  <2> QED
    BY <1>1, <1>7, FirstStays
<1>9. {keys[j] : j \in {i \in 1 .. N : kept[i]}} =
        {file.access[j].name : j \in {i \in 1 .. N : file.access[i].members # "lacking"}}
  OBVIOUS
<1>10. ASSUME NEW k \in 1 .. N, Counts(file.access, k)
       PROVE  map[N][file.access[k].name] = file.access[k].members
  <2>1. \A j \in 1 .. k - 1 : j \in 1 .. N
    BY <1>1
  <2>2. FirstKept(k, kept, keys)
    BY <1>10, <2>1 DEF FirstKept, Counts
  <2> QED
    BY <1>8, <2>2 DEF LoadedMap
<1> QED
  BY <1>2, <1>8, <1>9, <1>10 DEF LoadedMap

\* Of a key that is kept, one is the first.
LEMMA FirstExists ==
  ASSUME NEW N \in Nat, NEW kept, NEW keys, NEW i \in 1 .. N, kept[i]
  PROVE  \E j \in 1 .. N : keys[j] = keys[i] /\ FirstKept(j, kept, keys)
<1> DEFINE Same == {j \in 1 .. N : kept[j] /\ keys[j] = keys[i]}
<1>1. Same \in SUBSET Nat /\ Same # {}
  OBVIOUS
<1> HIDE DEF Same
<1>2. PICK m \in Same : \A k \in Same : m <= k
  BY <1>1, Least
<1>3. m \in 1 .. N /\ kept[m] /\ keys[m] = keys[i]
  BY DEF Same
<1>4. ASSUME NEW j \in 1 .. m - 1, keys[j] = keys[m], kept[j] PROVE FALSE
  <2>1. j \in 1 .. N /\ ~(m <= j)
    BY <1>3
  <2>2. j \in Same
    BY <1>3, <1>4, <2>1 DEF Same
  <2> QED
    BY <1>2, <2>1, <2>2
<1>5. FirstKept(m, kept, keys)
  BY <1>3, <1>4 DEF FirstKept
<1> QED
  BY <1>3, <1>5


\* parseDestinations keeps the first of each name that is complete and has its profile.
LEMMA DestinationsLoaded ==
  ASSUME NEW file \in ProfileFile(Identifier, Profile),
         NEW kept, NEW keys, NEW values,
         kept = [i \in 1 .. Len(file.destinations) |->
                   /\ file.destinations[i].members # "lacking"
                   /\ file.destinations[i].profile \in DOMAIN AccessProfiles(file)],
         keys = [i \in 1 .. Len(file.destinations) |-> file.destinations[i].name],
         values = [i \in 1 .. Len(file.destinations) |->
                     [members |-> file.destinations[i].members,
                      access |-> AccessProfiles(file)[file.destinations[i].profile]]]
  PROVE  LoadedMap(Destinations(file), Len(file.destinations), kept, keys, values)
<1> DEFINE N == Len(file.destinations)
           profiles == AccessProfiles(file)
           Body(g, n) ==
             IF n = 0 THEN NothingLoaded
             ELSE IF \/ file.destinations[n].members = "lacking"
                     \/ file.destinations[n].profile \notin DOMAIN profiles
                    THEN g[n - 1]
                    ELSE WithEntry(g[n - 1], file.destinations[n].name,
                                   [members |-> file.destinations[n].members,
                                    access |-> profiles[file.destinations[n].profile]])
           map == CHOOSE h : h = [n \in 0 .. Len(file.destinations) |-> Body(h, n)]
<1>1. N \in Nat
  BY DEF ProfileFile
<1>2. Destinations(file) = map[N]
  BY Zenon DEF Destinations
<1>3. PICK h : MapOf(h, N, kept, keys, values)
  <2> HIDE DEF N
  <2> QED
    BY <1>1, MapExists
<1> HIDE DEF profiles
<1>4. ASSUME NEW g, NEW n \in 0 .. N PROVE After(n, kept, keys, values, g) = Body(g, n)
  <2>1. n = 0 \/ n \in 1 .. N
    BY <1>1
  <2> QED
    BY <2>1 DEF After, NothingLoaded, profiles
<1>5. h = [n \in 0 .. N |-> Body(h, n)]
  BY <1>3, <1>4 DEF MapOf
<1>6. map = [n \in 0 .. N |-> Body(map, n)]
  BY <1>5
<1> HIDE DEF map
<1>7. MapOf(map, N, kept, keys, values)
  BY <1>4, <1>6 DEF MapOf
<1>8. LoadedMap(map[N], N, kept, keys, values)
  <2> HIDE DEF N
  <2> QED
    BY <1>1, <1>7, FirstStays
<1> QED
  BY <1>2, <1>8

\* The names that are accepted are those a destination that counts has.
LEMMA AcceptedIsDescribed ==
  ASSUME NEW file \in ProfileFile(Identifier, Profile), NEW name
  PROVE  name \in Accepted(file) <=> Describes(file, name)
<1> DEFINE D == file.destinations
           P == file.access
           profiles == AccessProfiles(file)
           found == Destinations(file)
           Loads(i) == D[i].members # "lacking" /\ D[i].profile \in DOMAIN profiles
           Complete(e) == e.members # "lacking" /\ \E k \in DOMAIN file.access :
                            file.access[k].name = e.profile /\ file.access[k].members # "lacking"
           kept == [i \in 1 .. Len(D) |-> Loads(i)]
           keys == [i \in 1 .. Len(D) |-> D[i].name]
           values == [i \in 1 .. Len(D) |->
                        [members |-> D[i].members, access |-> profiles[D[i].profile]]]
           akept == [i \in 1 .. Len(P) |-> P[i].members # "lacking"]
           akeys == [i \in 1 .. Len(P) |-> P[i].name]
<1>1. Len(D) \in Nat /\ DOMAIN D = 1 .. Len(D) /\ Len(P) \in Nat /\ DOMAIN P = 1 .. Len(P)
  BY DEF ProfileFile
<1>2. LoadedMap(found, Len(D), kept, keys, values)
  BY DestinationsLoaded, Zenon
<1>3. /\ DOMAIN profiles = {P[k].name : k \in {i \in 1 .. Len(P) : P[i].members # "lacking"}}
      /\ \A k \in 1 .. Len(P) : Counts(P, k) => profiles[P[k].name] = P[k].members
  BY AccessLoaded
<1> HIDE DEF profiles, found
<1>4. \A i \in 1 .. Len(D) : Loads(i) <=> Complete(D[i])
  BY <1>1, <1>3
<1>5. \A i \in 1 .. Len(D) :
        FirstKept(i, kept, keys) <=>
          /\ Complete(D[i])
          /\ \A j \in 1 .. i - 1 : D[j].name = D[i].name => ~Complete(D[j])
  <2> TAKE i \in 1 .. Len(D)
  <2>1. \A j \in 1 .. i - 1 : j \in 1 .. Len(D)
    BY <1>1
  <2>2. \A j \in 1 .. Len(D) : kept[j] <=> Complete(D[j])
    BY <1>4
  <2>3. \A j \in 1 .. Len(D) : keys[j] = D[j].name
    OBVIOUS
  <2> HIDE DEF kept, keys, Complete
  <2> QED
    BY <2>1, <2>2, <2>3 DEF FirstKept
<1>6. \A k \in 1 .. Len(P) :
        FirstKept(k, akept, akeys) <=> Counts(P, k)
  <2> TAKE k \in 1 .. Len(P)
  <2>1. \A j \in 1 .. k - 1 : j \in 1 .. Len(P)
    BY <1>1
  <2> QED
    BY <2>1 DEF FirstKept, Counts
<1>7. Describes(file, name) <=>
        \E i \in 1 .. Len(D) :
          /\ D[i].name = name /\ FirstKept(i, kept, keys)
          /\ D[i].members = "full"
          /\ \E k \in 1 .. Len(P) : P[k].name = D[i].profile /\ Counts(P, k) /\ P[k].members = "full"
  <2>1. Describes(file, name) <=>
        \E i \in 1 .. Len(D) :
          /\ D[i].name = name /\ Complete(D[i])
          /\ \A j \in 1 .. i - 1 : D[j].name = name => ~Complete(D[j])
          /\ D[i].members = "full"
          /\ \E k \in 1 .. Len(P) : P[k].name = D[i].profile /\ Counts(P, k) /\ P[k].members = "full"
    BY <1>1, Zenon DEF Describes
  <2> HIDE DEF kept, keys, Complete
  <2> QED
    BY <1>5, <2>1
<1>8. name \in Accepted(file) <=>
        name \in DOMAIN found /\ found[name].members = "full" /\ found[name].access = "full"
  BY Zenon DEF Accepted, found
<1>9. \A i \in 1 .. Len(D) : FirstKept(i, kept, keys) =>
        /\ D[i].name \in DOMAIN found
        /\ found[D[i].name].members = D[i].members
        /\ found[D[i].name].access = profiles[D[i].profile]
        /\ D[i].profile \in DOMAIN profiles
  <2> TAKE i \in 1 .. Len(D)
  <2> HAVE FirstKept(i, kept, keys)
  <2>1. (kept[i] => D[i].profile \in DOMAIN profiles) /\ keys[i] = D[i].name
        /\ values[i] = [members |-> D[i].members, access |-> profiles[D[i].profile]]
    OBVIOUS
  <2> HIDE DEF kept, keys, values
  <2>2. kept[i]
    BY DEF FirstKept
  <2>3. keys[i] \in DOMAIN found /\ found[keys[i]] = values[i]
    BY <1>2, <2>2 DEF LoadedMap
  <2> QED
    BY <2>1, <2>2, <2>3
<1>10. ASSUME name \in Accepted(file) PROVE Describes(file, name)
  <2>1. PICK e \in 1 .. Len(D) : kept[e] /\ D[e].name = name
    BY <1>2, <1>8, <1>10 DEF LoadedMap
  <2>2. PICK i \in 1 .. Len(D) : keys[i] = keys[e] /\ FirstKept(i, kept, keys)
    <3> HIDE DEF kept, keys
    <3> QED
      BY <1>1, <2>1, FirstExists
  <2>3. D[i].name = name
    BY <2>1, <2>2
  <2>4. D[i].members = "full" /\ profiles[D[i].profile] = "full" /\ D[i].profile \in DOMAIN profiles
    <3> HIDE DEF kept, keys
    <3> QED
      BY <1>8, <1>9, <1>10, <2>2, <2>3
  <2>5. PICK l \in 1 .. Len(P) : akept[l] /\ P[l].name = D[i].profile
    BY <1>3, <2>4
  <2>6. PICK k \in 1 .. Len(P) : akeys[k] = akeys[l] /\ FirstKept(k, akept, akeys)
    <3>1. akept[l] /\ Len(P) \in Nat
      BY <1>1, <2>5
    <3> HIDE DEF akept, akeys, P
    <3> QED
      BY <3>1, FirstExists
  <2>7. P[k].name = D[i].profile /\ Counts(P, k)
    BY <1>6, <2>5, <2>6
  <2>8. P[k].members = "full"
    BY <1>3, <2>4, <2>7
  <2> HIDE DEF kept, keys
  <2> QED
    BY <1>7, <2>2, <2>3, <2>4, <2>7, <2>8
<1>11. ASSUME Describes(file, name) PROVE name \in Accepted(file)
  <2> HIDE DEF kept, keys
  <2>1. PICK i \in 1 .. Len(D) :
          /\ D[i].name = name /\ FirstKept(i, kept, keys)
          /\ D[i].members = "full"
          /\ \E k \in 1 .. Len(P) : P[k].name = D[i].profile /\ Counts(P, k) /\ P[k].members = "full"
    BY <1>7, <1>11
  <2>2. profiles[D[i].profile] = "full"
    BY <1>3, <2>1
  <2> QED
    BY <1>8, <1>9, <2>1, <2>2
<1> QED
  BY <1>10, <1>11

\* A file only gives destinations that it names.
LEMMA AcceptedAreIdentifiers ==
  ASSUME NEW file \in ProfileFile(Identifier, Profile)
  PROVE  Accepted(file) \subseteq Identifier
<1> SUFFICES ASSUME NEW name \in Accepted(file) PROVE name \in Identifier
  OBVIOUS
<1>1. Describes(file, name)
  BY AcceptedIsDescribed
<1> DEFINE Objects == [name : Identifier, members : Members, profile : Profile]
           list == file.destinations
<1>2. list \in Seq(Objects)
  BY DEF ProfileFile
<1>3. PICK i \in DOMAIN list : list[i].name = name
  BY <1>1 DEF Describes
<1>4. list[i] \in Objects
  <2>1. i \in 1 .. Len(list)
    BY <1>2, <1>3
  <2> HIDE DEF Objects, list
  <2> QED
    BY <1>2, <2>1, ElementOfSeq
<1> QED
  BY <1>3, <1>4

-----------------------------------------------------------------------------
(* The client.                                                              *)

LEMMA ClientKeeps ==
  ASSUME IInv, Initialise \/ LoadProfiles \/ TearDown
  PROVE  IInv'
<1>1. /\ main' = main /\ main \in {"setup", "exit"}
      /\ requests' = requests /\ view' = view
      /\ UNCHANGED <<scannerVars, mainVars, workerVars, cached>>
  BY DEF Initialise, LoadProfiles, TearDown, Goto, ClientUnchanged, A!Initialise,
         A!InitialiseDestinations, A!Shutdown, A!RemoveDestination, A!RemoveAllDestinations
<1>2. initialised' \in BOOLEAN /\ destinations' \subseteq Identifier
  <2>1. CASE Initialise \/ TearDown
    BY <2>1 DEF IInv, TypeOK, A!AwsTypeOK, Initialise, TearDown, A!Initialise, A!Shutdown,
                A!RemoveDestination, A!RemoveAllDestinations
  <2>2. CASE LoadProfiles
    <3>1. PICK file \in Files : A!InitialiseDestinations(Accepted(file))
      BY <2>2 DEF LoadProfiles
    <3>2. Accepted(file) \subseteq Identifier
      BY AcceptedAreIdentifiers, ProgramAssumption DEF ProgramAssumption
    <3> QED
      BY <3>1, <3>2 DEF IInv, TypeOK, A!AwsTypeOK, A!InitialiseDestinations
  <2> QED
    BY <2>1, <2>2
<1>3. TypeOK'
  BY <1>1, <1>2 DEF IInv, TypeOK, A!AwsTypeOK, mainVars, workerVars
<1>4. ScannerInv' /\ MainInv'
  <2>1. ScannerInv'
    BY <1>1, ScannerRests DEF IInv
  <2> QED
    BY <1>1, <2>1 DEF IInv, MainInv, ScanStays, Stopped, Turned, Owned, Undeleted, scannerVars,
                      mainVars, workerVars
<1>5. \A c \in Catalog : point[c] = "off"
  BY <1>1, NobodyLeft
<1>6. Known' /\ Undisturbed' /\ PutAgainOnlyOnOverlapOrMiss'
  BY <1>1 DEF IInv, Known, Undisturbed, PutAgainOnlyOnOverlapOrMiss, Synchronized, mainVars, workerVars
<1>7. RegistryIsExact' /\ RequestsEndBeforeTheirDestination'
  BY <1>1, <1>5 DEF IInv, RegistryIsExact, RequestsEndBeforeTheirDestination, Holds, mainVars,
                    workerVars
<1> QED
  BY <1>3, <1>4, <1>6, <1>7 DEF IInv

-----------------------------------------------------------------------------
(* The scan, and main without a synchronizer in its hands.                  *)

\* What the type invariant and MainInv say, for a step of main that touches no worker.
LEMMA ScanStep ==
  ASSUME IInv, UNCHANGED ScanUnchanged, ScannerInv', ScanStays',
         main \in {"setup", "read", "begin"}, main' \in {"read", "begin", "exit", "wait"},
         main' \in {"read", "exit"} => main # "begin"
  PROVE  IInv'
<1> USE DEF ScanUnchanged, awsVars, mainVars, workerVars
<1>1. TypeOK'
  BY DEF IInv, TypeOK, A!AwsTypeOK, MainPoint
<1>2. Stopped' /\ Turned' /\ Owned'
  BY DEF IInv, MainInv, Stopped, Turned, Owned, Undeleted
<1>3. main' = "exit" => \A c \in Catalog : point[c] = "off"
  BY NobodyLeft
<1>4. /\ Known' /\ Undisturbed' /\ PutAgainOnlyOnOverlapOrMiss'
      /\ RegistryIsExact' /\ RequestsEndBeforeTheirDestination'
  BY <1>3, WorkersRest
<1> QED
  BY <1>1, <1>2, <1>4 DEF IInv, MainInv

LEMMA StartScanKeeps == ASSUME IInv, StartScan PROVE IInv'
<1>1. main = "setup" /\ main' \in {"read", "exit"} /\ UNCHANGED ScanUnchanged
  BY DEF StartScan, Goto
<1>2. ScannerIdle
  <2>1. dir = {} /\ unread = {} /\ pairs = <<>> /\ copied = {} /\ filePairs = <<>>
    BY <1>1 DEF IInv, MainInv, ScanStays
  <2> QED
    BY <2>1 DEF ScannerIdle
<1>3. CASE main' = "read"
  <2>1. PICK entries \in SUBSET Entry : OpenDirectory(entries)
    BY <1>3 DEF StartScan, Goto
  <2>2. ScannerInv'
    BY <1>2, <2>1, OpenDirectoryKeeps DEF IInv
  <2>3. ScanStays'
    BY <1>3 DEF ScanStays
  <2> QED
    BY <1>1, <1>3, <2>2, <2>3, ScanStep
<1>4. CASE main' = "exit"
  <2>1. UNCHANGED scannerVars
    BY <1>4 DEF StartScan, Goto
  <2>2. ScannerInv' /\ ScanStays'
    BY <1>1, <1>2, <1>4, <2>1, ScannerRests DEF IInv, ScanStays, ScannerIdle, scannerVars
  <2> QED
    BY <1>1, <1>4, <2>2, ScanStep
<1> QED
  BY <1>1, <1>3, <1>4

LEMMA ScanKeeps == ASSUME IInv, Scan PROVE IInv'
<1>1. main = "read" /\ main' = "read" /\ UNCHANGED ScanUnchanged
  BY DEF Scan, Goto
<1>2. ScannerInv'
  BY ReadEntryKeeps, CopyPairKeeps, ScannerAssumption DEF Scan, IInv
<1>3. ScanStays'
  BY <1>1 DEF ScanStays
<1> QED
  BY <1>1, <1>2, <1>3, ScanStep

LEMMA ScanReturnsKeeps == ASSUME IInv, ScanReturns PROVE IInv'
<1>1. main = "read" /\ main' \in {"exit", "begin"} /\ UNCHANGED ScanUnchanged /\ Return
  BY DEF ScanReturns, Goto
<1>2. ScannerInv'
  BY <1>1, ReturnKeeps DEF IInv
<1>3. ScanStays'
  BY <1>1 DEF ScanStays, Return
<1> QED
  BY <1>1, <1>2, <1>3, ScanStep

LEMMA NextPair ==
  ASSUME IInv, main = "begin", main' # "setup", filePairs # <<>>, Begun
  PROVE  ScannerInv' /\ ScanStays'
<1>1. dir = {} /\ unread = {} /\ pairs = <<>> /\ copied = {}
  BY DEF IInv, MainInv, ScanStays
<1>2. ScannerInv'
  BY <1>1, NextPairKeeps DEF IInv, Begun
<1>3. ScanStays'
  BY <1>1 DEF ScanStays, Begun
<1> QED
  BY <1>2, <1>3

LEMMA BeginFailsKeeps == ASSUME IInv, BeginFails PROVE IInv'
<1>1. /\ main = "begin" /\ main' = "begin" /\ UNCHANGED ScanUnchanged
      /\ filePairs # <<>> /\ Begun
  BY DEF BeginFails, Goto, ScanUnchanged
<1> QED
  BY <1>1, NextPair, ScanStep

LEMMA AllBegunKeeps == ASSUME IInv, AllBegun PROVE IInv'
<1>1. main = "begin" /\ main' = "wait" /\ UNCHANGED ScanUnchanged /\ UNCHANGED scannerVars
  BY DEF AllBegun, Goto, ScanUnchanged
<1>2. ScannerInv' /\ ScanStays'
  BY <1>1, ScannerRests DEF IInv, MainInv, ScanStays, scannerVars
<1> QED
  BY <1>1, <1>2, ScanStep

\* A path that is a catalog is no other catalog.
LEMMA BeginOpensKeeps == ASSUME IInv, BeginOpens PROVE IInv'
<1> USE DEF awsVars
<1>1. /\ main = "begin" /\ main' = "first" /\ filePairs # <<>> /\ Begun
      /\ UNCHANGED <<awsVars, synchronizers, deleted, known, job, at, cancel, cached>>
  BY DEF BeginOpens, Goto
<1>2. PICK c \in Catalog : point[c] = "off" /\ turn' = c /\ point' = [point EXCEPT ![c] = "scan"]
  BY DEF BeginOpens
<1>3. point \in [Catalog -> Point]
  BY DEF IInv, TypeOK
<1>4. point' \in [Catalog -> Point]
  BY <1>2, <1>3 DEF Point
<1>5. TypeOK'
  BY <1>1, <1>2, <1>4 DEF IInv, TypeOK, A!AwsTypeOK, MainPoint
<1>6. ScannerInv' /\ ScanStays'
  BY <1>1, NextPair
<1>7. Stopped' /\ Turned' /\ Owned'
  BY <1>1, <1>2, <1>3 DEF IInv, MainInv, Stopped, Turned, Owned, Undeleted
<1>8. Known' /\ Undisturbed' /\ PutAgainOnlyOnOverlapOrMiss'
  BY <1>1, <1>2, <1>3 DEF IInv, Known, Undisturbed, PutAgainOnlyOnOverlapOrMiss, Synchronized
<1>9. \A d \in Catalog : (Holds(d)' <=> Holds(d)) /\ (point'[d] = "insert" <=> point[d] = "insert")
  BY <1>2, <1>3 DEF Holds
<1>10. RegistryIsExact' /\ RequestsEndBeforeTheirDestination'
  BY <1>1, <1>9 DEF IInv, RegistryIsExact, RequestsEndBeforeTheirDestination
<1> QED
  BY <1>5, <1>6, <1>7, <1>8, <1>10 DEF IInv, MainInv

-----------------------------------------------------------------------------
(* A scan of previews.db.                                                   *)

\* What it puts on the batch although the cache holds it is what it has not read there.
LEMMA DifferenceIsBatch ==
  ASSUME TypeOK, NEW c \in Catalog, NEW rows \in SUBSET Own[c], NEW read \in SUBSET cached
  PROVE  LET w == Difference(rows, read) IN
           /\ w \in Batch /\ w.add \subseteq Own[c] /\ w.add \cap cached \subseteq w.missed
           /\ w.missed \subseteq cached /\ w.remove \subseteq cached
<1>1. rows \subseteq Uuid /\ cached \subseteq Uuid
  BY ProgramAssumption DEF ProgramAssumption, TypeOK
<1> QED
  BY <1>1 DEF Difference, Missed, Batch

\* What a scan does to its synchronizer's worker.
LEMMA ProcessChangesKeeps ==
  ASSUME IInv, NEW c \in Catalog, ProcessChanges(c), main' # "setup", main' # "read",
         main' \notin {"exit", "done", "ended"}
  PROVE  /\ Known' /\ RequestsEndBeforeTheirDestination'
         /\ job' \in [Catalog -> Batch] /\ cancel' \in [Catalog -> BOOLEAN]
         /\ point' \in [Catalog -> Point]
         /\ point'[c] \in {"take", "none"} /\ \A d \in Catalog \ {c} : point'[d] = point[d]
         /\ \A d \in Catalog : (Holds(d)' <=> Holds(d))
                               /\ (point'[d] \in {"insert", "erase"} <=> point[d] \in {"insert", "erase"})
         /\ cached' = cached /\ known' = known /\ at' = at /\ deleted' = deleted
         /\ UNCHANGED awsVars /\ UNCHANGED scannerVars
         /\ \A d \in Catalog \ {c} : job'[d] = job[d]
         /\ job'[c].add \cap cached \subseteq job'[c].missed /\ job'[c].remove \subseteq cached
<1>1. PICK rows \in SUBSET Own[c], read \in SUBSET cached :
        LET w == Difference(rows, read) IN
          /\ job' = [job EXCEPT ![c] = w]
          /\ point' = [point EXCEPT ![c] = IF w = NoBatch THEN "none" ELSE "take"]
          /\ cancel' = [cancel EXCEPT ![c] = IF w = NoBatch THEN @ ELSE FALSE]
  BY DEF ProcessChanges
<1> DEFINE w == Difference(rows, read)
<1>2. /\ TypeOK /\ point[c] = "scan"
      /\ UNCHANGED <<scannerVars, awsVars, deleted, known, at, cached>>
  BY DEF ProcessChanges, IInv
<1>3. w \in Batch /\ w.add \cap cached \subseteq w.missed /\ w.remove \subseteq cached
  BY <1>2, DifferenceIsBatch
<1> HIDE DEF w
<1>4. job \in [Catalog -> Batch] /\ cancel \in [Catalog -> BOOLEAN] /\ point \in [Catalog -> Point]
  BY <1>2 DEF TypeOK
<1>5. /\ job' \in [Catalog -> Batch] /\ \A d \in Catalog \ {c} : job'[d] = job[d]
      /\ job'[c] = w
  BY <1>1, <1>3, <1>4 DEF w
<1>6. cancel' \in [Catalog -> BOOLEAN]
  BY <1>1, <1>4, Zenon
<1>7. /\ point' \in [Catalog -> Point] /\ \A d \in Catalog \ {c} : point'[d] = point[d]
      /\ point'[c] \in {"take", "none"}
  BY <1>1, <1>4 DEF w, Point, WorkerPoint
<1>8. \A d \in Catalog : (Holds(d)' <=> Holds(d))
                         /\ (point'[d] \in {"insert", "erase"} <=> point[d] \in {"insert", "erase"})
                         /\ (point'[d] = "insert" => point[d] = "insert")
  BY <1>2, <1>7 DEF Holds
<1>9. Known'
  BY <1>2, <1>7 DEF IInv, Known
<1>10. RequestsEndBeforeTheirDestination'
  BY <1>2, <1>8 DEF IInv, RequestsEndBeforeTheirDestination, awsVars
<1> QED
  BY <1>2, <1>3, <1>5, <1>6, <1>7, <1>8, <1>9, <1>10

LEMMA FirstScanKeeps == ASSUME IInv, NEW c \in Catalog, FirstScan(c) PROVE IInv'
<1>1. /\ main = "first" /\ turn = c /\ ProcessChanges(c)
      /\ main' = "begin" /\ synchronizers' = Append(synchronizers, c) /\ turn' = NoCatalog
  BY DEF FirstScan, ByMain
<1>2. /\ Known' /\ RequestsEndBeforeTheirDestination'
      /\ job' \in [Catalog -> Batch] /\ cancel' \in [Catalog -> BOOLEAN]
      /\ point' \in [Catalog -> Point]
      /\ point'[c] \in {"take", "none"} /\ \A d \in Catalog \ {c} : point'[d] = point[d]
      /\ \A d \in Catalog : (Holds(d)' <=> Holds(d))
                            /\ (point'[d] \in {"insert", "erase"} <=> point[d] \in {"insert", "erase"})
      /\ cached' = cached /\ known' = known /\ at' = at /\ deleted' = deleted
      /\ UNCHANGED awsVars /\ UNCHANGED scannerVars
      /\ \A d \in Catalog \ {c} : job'[d] = job[d]
      /\ job'[c].add \cap cached \subseteq job'[c].missed /\ job'[c].remove \subseteq cached
  BY <1>1, ProcessChangesKeeps
<1>3. /\ synchronizers \in Seq(Catalog) /\ deleted \in 0 .. Len(synchronizers)
      /\ synchronizers' \in Seq(Catalog) /\ Len(synchronizers') = Len(synchronizers) + 1
      /\ \A i \in 1 .. Len(synchronizers) : synchronizers'[i] = synchronizers[i]
      /\ synchronizers'[Len(synchronizers) + 1] = c
  BY <1>1 DEF IInv, TypeOK
<1>4. TypeOK'
  BY <1>1, <1>2, <1>3 DEF IInv, TypeOK, A!AwsTypeOK, awsVars, MainPoint
<1>5. ScannerInv' /\ ScanStays'
  BY <1>1, <1>2, ScannerRests DEF IInv, MainInv, ScanStays, scannerVars
<1>6. Stopped' /\ Turned'
  BY <1>1 DEF Stopped, Turned
<1>7. ASSUME NEW d \in Catalog, point'[d] # "off" PROVE Undeleted(d)'
  <2>1. CASE d = c
    <3>1. Len(synchronizers) + 1 \in deleted' + 1 .. Len(synchronizers')
      BY <1>2, <1>3
    <3> QED
      BY <1>3, <2>1, <3>1 DEF Undeleted
  <2>2. CASE d # c
    <3>1. Undeleted(d)
      BY <1>1, <1>2, <1>7, <2>2 DEF IInv, MainInv, Owned
    <3>2. PICK i \in deleted + 1 .. Len(synchronizers) : synchronizers[i] = d
      BY <3>1 DEF Undeleted
    <3>3. i \in deleted' + 1 .. Len(synchronizers') /\ synchronizers'[i] = d
      BY <1>2, <1>3, <3>2
    <3> QED
      BY <3>3 DEF Undeleted
  <2> QED
    BY <2>1, <2>2
<1>8. Owned'
  BY <1>7 DEF Owned
<1>9. PutAgainOnlyOnOverlapOrMiss'
  <2>1. ASSUME NEW e \in Catalog, Synchronized(e) PROVE Synchronized(e)'
    BY <1>3, <2>1 DEF Synchronized
  <2>2. ASSUME NEW d \in Catalog, NEW u \in job'[d].add \cap cached'
        PROVE  u \in job'[d].missed \/ \E e \in Catalog \ {d} : u \in Own[e] /\ Synchronized(e)'
    BY <1>2, <2>1, <2>2 DEF IInv, PutAgainOnlyOnOverlapOrMiss
  <2>3. \A d \in Catalog : job'[d].remove \subseteq cached'
    BY <1>2 DEF IInv, PutAgainOnlyOnOverlapOrMiss
  <2> QED
    BY <2>2, <2>3 DEF PutAgainOnlyOnOverlapOrMiss
<1>10. RegistryIsExact' /\ Undisturbed'
  BY <1>2, <1>3 DEF IInv, RegistryIsExact, Undisturbed, awsVars
<1> QED
  BY <1>2, <1>4, <1>5, <1>6, <1>8, <1>9, <1>10 DEF IInv, MainInv

LEMMA ScanAgainKeeps == ASSUME IInv, NEW c \in Catalog, ScanAgain(c) PROVE IInv'
<1>1. /\ ~(main = "first" /\ turn = c) /\ ProcessChanges(c) /\ point[c] = "scan"
      /\ main' = main /\ synchronizers' = synchronizers /\ turn' = turn
  BY DEF ScanAgain, ByWatcher, ByMain, ProcessChanges
<1>2. main \notin {"setup", "read", "exit", "done", "ended"}
  BY <1>1, NobodyLeft
<1>3. /\ Known' /\ RequestsEndBeforeTheirDestination'
      /\ job' \in [Catalog -> Batch] /\ cancel' \in [Catalog -> BOOLEAN]
      /\ point' \in [Catalog -> Point]
      /\ point'[c] \in {"take", "none"} /\ \A d \in Catalog \ {c} : point'[d] = point[d]
      /\ \A d \in Catalog : (Holds(d)' <=> Holds(d))
                            /\ (point'[d] \in {"insert", "erase"} <=> point[d] \in {"insert", "erase"})
      /\ cached' = cached /\ known' = known /\ at' = at /\ deleted' = deleted
      /\ UNCHANGED awsVars /\ UNCHANGED scannerVars
      /\ \A d \in Catalog \ {c} : job'[d] = job[d]
      /\ job'[c].add \cap cached \subseteq job'[c].missed /\ job'[c].remove \subseteq cached
  BY <1>1, <1>2, ProcessChangesKeeps
<1>4. TypeOK'
  BY <1>1, <1>3 DEF IInv, TypeOK, A!AwsTypeOK, awsVars
<1>5. ScannerInv' /\ ScanStays' /\ Stopped'
  BY <1>1, <1>3, ScannerRests DEF IInv, MainInv, ScanStays, Stopped, scannerVars
<1>6. Turned'
  BY <1>1, <1>3 DEF IInv, MainInv, Turned
<1>7. Owned'
  BY <1>1, <1>3 DEF IInv, MainInv, Owned, Undeleted
<1>8. PutAgainOnlyOnOverlapOrMiss'
  BY <1>1, <1>3 DEF IInv, PutAgainOnlyOnOverlapOrMiss, Synchronized
<1>9. RegistryIsExact' /\ Undisturbed'
  BY <1>1, <1>3 DEF IInv, RegistryIsExact, Undisturbed, awsVars
<1> QED
  BY <1>3, <1>4, <1>5, <1>6, <1>7, <1>8, <1>9 DEF IInv, MainInv

\* Only the place of one synchronizer changes, between two that hold nothing.
LEMMA PlaceKeeps ==
  ASSUME IInv, NEW c \in Catalog, NEW to \in {"none", "scan", "off"},
         point[c] \in {"none", "scan", "exited"}, point' = [point EXCEPT ![c] = to],
         UNCHANGED <<scannerVars, awsVars, synchronizers, job, at, cached>>,
         \A d \in Catalog : known'[d] \subseteq known[d],
         main # "read", main' \notin {"setup", "exit", "done", "ended"}
  PROVE  /\ point' \in [Catalog -> Point] /\ point'[c] = to
         /\ \A d \in Catalog \ {c} : point'[d] = point[d]
         /\ ScannerInv' /\ ScanStays' /\ Known' /\ Undisturbed'
         /\ PutAgainOnlyOnOverlapOrMiss'
         /\ RegistryIsExact' /\ RequestsEndBeforeTheirDestination'
<1>1. point \in [Catalog -> Point]
  BY DEF IInv, TypeOK
<1>2. /\ point' \in [Catalog -> Point] /\ point'[c] = to
      /\ \A d \in Catalog \ {c} : point'[d] = point[d]
  BY <1>1 DEF Point
<1>3. \A d \in Catalog : (Holds(d)' <=> Holds(d))
                         /\ (point'[d] \in {"insert", "erase"} <=> point[d] \in {"insert", "erase"})
                         /\ (point'[d] = "insert" <=> point[d] = "insert")
  BY <1>2 DEF Holds
<1>4. ScannerInv' /\ ScanStays'
  BY ScannerRests DEF IInv, MainInv, ScanStays, scannerVars
<1>5. Known'
  BY <1>2 DEF IInv, Known
<1>6. Undisturbed' /\ RegistryIsExact' /\ RequestsEndBeforeTheirDestination'
  BY <1>3 DEF IInv, Undisturbed, RegistryIsExact, RequestsEndBeforeTheirDestination, awsVars
<1>7. PutAgainOnlyOnOverlapOrMiss'
  BY DEF IInv, PutAgainOnlyOnOverlapOrMiss, Synchronized
<1> QED
  BY <1>2, <1>4, <1>5, <1>6, <1>7

LEMMA ScanFailsKeeps == ASSUME IInv, NEW c \in Catalog, ScanFails(c) PROVE IInv'
<1>1. /\ point[c] = "scan"
      /\ UNCHANGED <<scannerVars, awsVars, synchronizers, deleted, known, job, at, cancel, cached>>
  BY DEF ScanFails
<1>2. main \notin {"setup", "read", "exit", "done", "ended"}
  BY <1>1, NobodyLeft
<1>3. CASE ByMain(c) /\ main' = "begin" /\ turn' = NoCatalog /\ point' = [point EXCEPT ![c] = "off"]
  <2>1. /\ point' \in [Catalog -> Point] /\ point'[c] = "off"
        /\ \A d \in Catalog \ {c} : point'[d] = point[d]
        /\ ScannerInv' /\ ScanStays' /\ Known' /\ Undisturbed'
        /\ PutAgainOnlyOnOverlapOrMiss'
        /\ RegistryIsExact' /\ RequestsEndBeforeTheirDestination'
    BY <1>1, <1>2, <1>3, PlaceKeeps
  <2>2. TypeOK'
    BY <1>1, <1>3, <2>1 DEF IInv, TypeOK, A!AwsTypeOK, awsVars, MainPoint
  <2>3. Stopped' /\ Turned'
    BY <1>3 DEF Stopped, Turned
  <2>4. Owned'
    BY <1>1, <1>3, <2>1 DEF IInv, MainInv, Owned, Undeleted, ByMain
  <2> QED
    BY <2>1, <2>2, <2>3, <2>4 DEF IInv, MainInv
<1>4. CASE ByWatcher(c) /\ UNCHANGED <<main, turn>> /\ point' = [point EXCEPT ![c] = "none"]
  <2>1. /\ point' \in [Catalog -> Point] /\ point'[c] = "none"
        /\ \A d \in Catalog \ {c} : point'[d] = point[d]
        /\ ScannerInv' /\ ScanStays' /\ Known' /\ Undisturbed'
        /\ PutAgainOnlyOnOverlapOrMiss'
        /\ RegistryIsExact' /\ RequestsEndBeforeTheirDestination'
    BY <1>1, <1>2, <1>4, PlaceKeeps
  <2>2. TypeOK'
    BY <1>1, <1>4, <2>1 DEF IInv, TypeOK, A!AwsTypeOK, awsVars
  <2>3. Stopped' /\ Turned'
    BY <1>1, <1>4, <2>1 DEF IInv, MainInv, Stopped, Turned, ByWatcher, ByMain
  <2>4. Owned'
    BY <1>1, <1>4, <2>1 DEF IInv, MainInv, Owned, Undeleted
  <2> QED
    BY <2>1, <2>2, <2>3, <2>4 DEF IInv, MainInv
<1> QED
  BY <1>3, <1>4 DEF ScanFails

LEMMA NoticeKeeps == ASSUME IInv, NEW c \in Catalog, Notice(c) PROVE IInv'
<1>1. /\ point[c] = "exited" /\ point' = [point EXCEPT ![c] = "scan"]
      /\ UNCHANGED <<scannerVars, awsVars, main, mainVars, known, job, at, cancel, cached>>
  BY DEF Notice
<1> USE DEF mainVars
<1>2. main \notin {"setup", "read", "exit", "done", "ended"}
  BY <1>1, NobodyLeft
<1>3. /\ point' \in [Catalog -> Point] /\ point'[c] = "scan"
      /\ \A d \in Catalog \ {c} : point'[d] = point[d]
      /\ ScannerInv' /\ ScanStays' /\ Known' /\ Undisturbed'
      /\ PutAgainOnlyOnOverlapOrMiss'
      /\ RegistryIsExact' /\ RequestsEndBeforeTheirDestination'
  BY <1>1, <1>2, PlaceKeeps
<1>4. TypeOK'
  BY <1>1, <1>3 DEF IInv, TypeOK, A!AwsTypeOK, awsVars
<1>5. Stopped' /\ Turned' /\ Owned'
  BY <1>1, <1>3 DEF IInv, MainInv, Stopped, Turned, Owned, Undeleted
<1> QED
  BY <1>3, <1>4, <1>5 DEF IInv, MainInv

-----------------------------------------------------------------------------
(* The workers.                                                             *)

LEMMA WorkerFrame ==
  ASSUME IInv, NEW c \in Catalog, NEW from \in WorkerPoint, NEW to \in WorkerPoint \cup {"exited"},
         Moves(c, from, to), UNCHANGED WorkerUnchanged
  PROVE  /\ point[c] = from /\ main \notin {"setup", "read", "exit", "done", "ended"} /\ Undeleted(c)
         /\ point' \in [Catalog -> Point] /\ point'[c] = to
         /\ \A d \in Catalog \ {c} : point'[d] = point[d]
         /\ ScannerInv' /\ MainInv'
<1> USE DEF WorkerUnchanged, mainVars
<1>1. /\ point \in [Catalog -> Point] /\ point[c] = from /\ point' = [point EXCEPT ![c] = to]
      /\ from # "off" /\ from # "scan" /\ to # "off"
  BY DEF IInv, TypeOK, Moves, WorkerPoint
<1>2. main \notin {"setup", "read", "exit", "done", "ended"}
  BY <1>1, NobodyLeft
<1>3. /\ point' \in [Catalog -> Point] /\ point'[c] = to
      /\ \A d \in Catalog \ {c} : point'[d] = point[d]
  BY <1>1 DEF Point
<1>4. ScannerInv' /\ ScanStays'
  BY <1>2, ScannerRests DEF IInv, MainInv, ScanStays, scannerVars
<1>5. Undeleted(c) /\ ~(main = "first" /\ turn = c)
  BY <1>1 DEF IInv, MainInv, Owned, Turned
<1>6. Stopped' /\ Turned' /\ Owned'
  BY <1>1, <1>3, <1>5 DEF IInv, MainInv, Stopped, Turned, Owned, Undeleted
<1> QED
  BY <1>1, <1>2, <1>3, <1>4, <1>5, <1>6 DEF MainInv

\* A step outside the set of requests.
LEMMA RegistryRests ==
  ASSUME IInv, NEW c \in Catalog, UNCHANGED awsVars, UNCHANGED WorkerUnchanged,
         \A d \in Catalog \ {c} : point'[d] = point[d],
         point[c] \notin {"insert", "erase"}, point'[c] \notin {"insert", "erase"},
         point[c] \in {"request", "free"} <=> point'[c] \in {"request", "free"}
  PROVE  Undisturbed' /\ RegistryIsExact' /\ RequestsEndBeforeTheirDestination'
<1>1. \A d \in Catalog : (Holds(d)' <=> Holds(d))
                         /\ (point'[d] \in {"insert", "erase"} <=> point[d] \in {"insert", "erase"})
                         /\ (point'[d] = "insert" <=> point[d] = "insert")
  BY DEF Holds
<1> QED
  BY <1>1 DEF IInv, Undisturbed, RegistryIsExact, RequestsEndBeforeTheirDestination, awsVars,
              WorkerUnchanged, mainVars

\* Going past an entry.
LEMMA GoesPastKeeps ==
  ASSUME TypeOK, NEW c \in Catalog, NEW u \in Uuid, GoesPast(c, u)
  PROVE  /\ job' \in [Catalog -> Batch] /\ at' \in [Catalog -> Uuid \cup {0}]
         /\ at'[c] = 0 /\ \A d \in Catalog \ {c} : job'[d] = job[d] /\ at'[d] = at[d]
         /\ job'[c].add = job[c].add \ {u} /\ job'[c].remove = job[c].remove \ {u}
         /\ job'[c].missed = job[c].missed \ {u}
<1>1. /\ job \in [Catalog -> Batch] /\ at \in [Catalog -> Uuid \cup {0}]
      /\ job' = [job EXCEPT ![c] = Without(job[c], u)] /\ at' = [at EXCEPT ![c] = 0]
  BY DEF TypeOK, GoesPast
<1>2. /\ Without(job[c], u) \in Batch
      /\ Without(job[c], u).add = job[c].add \ {u} /\ Without(job[c], u).remove = job[c].remove \ {u}
      /\ Without(job[c], u).missed = job[c].missed \ {u}
  BY <1>1 DEF Without, Batch
<1> QED
  BY <1>1, <1>2

LEMMA TakeKeeps == ASSUME IInv, NEW c \in Catalog, Take(c) PROVE IInv'
<1>1. /\ UNCHANGED WorkerUnchanged /\ UNCHANGED awsVars /\ cancel' = cancel /\ cached' = cached
  BY DEF Take
<1>2. PICK u \in Items(job[c]) :
        \/ /\ u \in known[c] \cup Own[c]
           /\ known' = [known EXCEPT ![c] = @ \cup {u}]
           /\ \/ at' = [at EXCEPT ![c] = u] /\ Moves(c, "take", "create") /\ job' = job
              \/ GoesPast(c, u) /\ Moves(c, "take", "take")
        \/ /\ u \notin known[c]
           /\ GoesPast(c, u) /\ Moves(c, "take", "take") /\ known' = known
  BY DEF Take
<1>3. PICK to \in {"take", "create"} : Moves(c, "take", to)
  BY <1>2
<1>4. "take" \in WorkerPoint /\ to \in WorkerPoint
  BY DEF WorkerPoint
<1>5. /\ point[c] = "take"
      /\ point' \in [Catalog -> Point] /\ point'[c] = to
      /\ \A d \in Catalog \ {c} : point'[d] = point[d]
      /\ ScannerInv' /\ MainInv'
  BY <1>1, <1>3, <1>4, WorkerFrame
<1>6. Undisturbed' /\ RegistryIsExact' /\ RequestsEndBeforeTheirDestination'
  BY <1>1, <1>5, RegistryRests
<1>7. /\ TypeOK /\ job \in [Catalog -> Batch] /\ known \in [Catalog -> SUBSET Uuid]
      /\ at \in [Catalog -> Uuid \cup {0}]
  BY DEF IInv, TypeOK
<1>8. u \in Uuid
  BY <1>2, <1>7 DEF Items, Batch
<1>9. \A d \in Catalog : known[d] \subseteq Own[d]
  BY DEF IInv, Known
<1>10. CASE at' = [at EXCEPT ![c] = u] /\ job' = job /\ u \in known[c] \cup Own[c]
            /\ known' = [known EXCEPT ![c] = @ \cup {u}]
  <2>1. /\ known' \in [Catalog -> SUBSET Uuid] /\ at' \in [Catalog -> Uuid \cup {0}]
        /\ at'[c] = u /\ known'[c] = known[c] \cup {u}
        /\ \A d \in Catalog \ {c} : known'[d] = known[d] /\ at'[d] = at[d]
    BY <1>7, <1>8, <1>10
  <2>2. TypeOK'
    BY <1>1, <1>5, <1>10, <2>1 DEF IInv, TypeOK, A!AwsTypeOK, awsVars, WorkerUnchanged, mainVars
  <2>3. Known'
    BY <1>5, <1>9, <1>10, <2>1 DEF IInv, Known
  <2>4. PutAgainOnlyOnOverlapOrMiss'
    BY <1>1, <1>10 DEF IInv, PutAgainOnlyOnOverlapOrMiss, Synchronized, WorkerUnchanged, mainVars
  <2> QED
    BY <1>5, <1>6, <2>2, <2>3, <2>4 DEF IInv
<1>11. CASE GoesPast(c, u) /\ Moves(c, "take", "take")
            /\ \/ known' = known
               \/ u \in known[c] \cup Own[c] /\ known' = [known EXCEPT ![c] = @ \cup {u}]
  <2>1. /\ job' \in [Catalog -> Batch] /\ at' \in [Catalog -> Uuid \cup {0}]
        /\ at'[c] = 0 /\ \A d \in Catalog \ {c} : job'[d] = job[d] /\ at'[d] = at[d]
        /\ job'[c].add = job[c].add \ {u} /\ job'[c].remove = job[c].remove \ {u}
        /\ job'[c].missed = job[c].missed \ {u}
    BY <1>7, <1>8, <1>11, GoesPastKeeps
  <2>2. known' \in [Catalog -> SUBSET Uuid] /\ \A d \in Catalog : known'[d] \subseteq Own[d]
    BY <1>7, <1>8, <1>9, <1>11
  <2>3. point'[c] = "take"
    BY <1>7, <1>11 DEF Moves, IInv, TypeOK
  <2>4. TypeOK'
    BY <1>1, <1>5, <2>1, <2>2 DEF IInv, TypeOK, A!AwsTypeOK, awsVars, WorkerUnchanged, mainVars
  <2>5. Known'
    BY <1>5, <2>1, <2>2, <2>3 DEF IInv, Known
  <2>6. PutAgainOnlyOnOverlapOrMiss'
    BY <1>1, <2>1 DEF IInv, PutAgainOnlyOnOverlapOrMiss, Synchronized, WorkerUnchanged, mainVars
  <2> QED
    BY <1>5, <1>6, <2>4, <2>5, <2>6 DEF IInv
<1> QED
  BY <1>2, <1>10, <1>11, Zenon

LEMMA LoopEndsKeeps == ASSUME IInv, NEW c \in Catalog, LoopEnds(c) PROVE IInv'
<1>1. /\ UNCHANGED WorkerUnchanged /\ UNCHANGED awsVars
      /\ known' = known /\ cancel' = cancel /\ cached' = cached
      /\ job' = [job EXCEPT ![c] = NoBatch] /\ at' = [at EXCEPT ![c] = 0]
  BY DEF LoopEnds
<1>2. PICK from \in {"take", "create"} : Moves(c, from, "exited")
  BY DEF LoopEnds
<1>3. from \in WorkerPoint
  BY DEF WorkerPoint
<1>4. /\ point[c] = from
      /\ point' \in [Catalog -> Point] /\ point'[c] = "exited"
      /\ \A d \in Catalog \ {c} : point'[d] = point[d]
      /\ ScannerInv' /\ MainInv'
  BY <1>1, <1>2, <1>3, WorkerFrame
<1>5. Undisturbed' /\ RegistryIsExact' /\ RequestsEndBeforeTheirDestination'
  BY <1>1, <1>4, RegistryRests
<1>6. /\ job' \in [Catalog -> Batch] /\ job'[c] = NoBatch /\ at' \in [Catalog -> Uuid \cup {0}]
      /\ \A d \in Catalog \ {c} : job'[d] = job[d] /\ at'[d] = at[d]
  BY <1>1, NoBatchIsBatch DEF IInv, TypeOK
<1>7. TypeOK'
  BY <1>1, <1>4, <1>6 DEF IInv, TypeOK, A!AwsTypeOK, awsVars, WorkerUnchanged, mainVars
<1>8. Known'
  BY <1>1, <1>4, <1>6 DEF IInv, Known
<1>9. PutAgainOnlyOnOverlapOrMiss'
  BY <1>1, <1>6, NoBatchIsBatch
     DEF IInv, PutAgainOnlyOnOverlapOrMiss, Synchronized, WorkerUnchanged, mainVars
<1> QED
  BY <1>4, <1>5, <1>7, <1>8, <1>9 DEF IInv

LEMMA MarkKeeps == ASSUME IInv, NEW c \in Catalog, Mark(c) PROVE IInv'
<1>1. /\ UNCHANGED WorkerUnchanged /\ UNCHANGED awsVars
      /\ known' = known /\ cancel' = cancel
      /\ Moves(c, "mark", "take") /\ GoesPast(c, at[c])
      /\ cached' = cached \cup {at[c]} \/ cached' = cached
  BY DEF Mark
<1>2. "mark" \in WorkerPoint /\ "take" \in WorkerPoint
  BY DEF WorkerPoint
<1>3. /\ point[c] = "mark" /\ Undeleted(c)
      /\ point' \in [Catalog -> Point] /\ point'[c] = "take"
      /\ \A d \in Catalog \ {c} : point'[d] = point[d]
      /\ ScannerInv' /\ MainInv'
  BY <1>1, <1>2, WorkerFrame
<1>4. Undisturbed' /\ RegistryIsExact' /\ RequestsEndBeforeTheirDestination'
  BY <1>1, <1>3, RegistryRests
<1>5. at[c] \in Own[c] /\ at[c] \in Uuid
  BY <1>3, ProgramAssumption DEF IInv, Known, ProgramAssumption
<1>6. /\ job' \in [Catalog -> Batch] /\ at' \in [Catalog -> Uuid \cup {0}]
      /\ at'[c] = 0 /\ \A d \in Catalog \ {c} : job'[d] = job[d] /\ at'[d] = at[d]
      /\ job'[c].add = job[c].add \ {at[c]} /\ job'[c].remove = job[c].remove \ {at[c]}
      /\ job'[c].missed = job[c].missed \ {at[c]}
  BY <1>1, <1>5, GoesPastKeeps DEF IInv
<1>7. TypeOK'
  BY <1>1, <1>3, <1>5, <1>6 DEF IInv, TypeOK, A!AwsTypeOK, awsVars, WorkerUnchanged, mainVars
<1>8. Known'
  BY <1>1, <1>3, <1>6 DEF IInv, Known
<1>9. Synchronized(c)
  BY <1>3 DEF Undeleted, Synchronized, IInv, TypeOK
<1>10. ASSUME NEW d \in Catalog, NEW u \in job'[d].add \cap cached'
       PROVE  u \in job'[d].missed \/ \E e \in Catalog \ {d} : u \in Own[e] /\ Synchronized(e)
  <2>1. CASE d = c
    <3>1. u \in job[c].add \cap cached /\ u # at[c]
      BY <1>1, <1>6, <1>10, <2>1
    <3> QED
      BY <1>6, <2>1, <3>1 DEF IInv, PutAgainOnlyOnOverlapOrMiss
  <2>2. CASE d # c /\ u = at[c]
    BY <1>5, <1>9, <2>2
  <2>3. CASE d # c /\ u # at[c]
    <3>1. u \in job[d].add \cap cached
      BY <1>1, <1>6, <1>10, <2>3
    <3> QED
      BY <1>6, <2>3, <3>1 DEF IInv, PutAgainOnlyOnOverlapOrMiss
  <2> QED
    BY <2>1, <2>2, <2>3
<1>11. \A d \in Catalog : job'[d].remove \subseteq cached'
  BY <1>1, <1>6 DEF IInv, PutAgainOnlyOnOverlapOrMiss, Synchronized
<1>12. PutAgainOnlyOnOverlapOrMiss'
  BY <1>1, <1>10, <1>11 DEF PutAgainOnlyOnOverlapOrMiss, Synchronized, WorkerUnchanged, mainVars
<1> QED
  BY <1>3, <1>4, <1>7, <1>8, <1>12 DEF IInv

\* A step that changes no worker's variables but its place.
LEMMA RequestFrame ==
  ASSUME IInv, NEW c \in Catalog, NEW from \in WorkerPoint, NEW to \in WorkerPoint,
         Moves(c, from, to), UNCHANGED RequestUnchanged, cached' = cached,
         from \in {"create", "insert", "request", "free", "erase", "mark"},
         initialised' = initialised, destinations' = destinations,
         requests' \subseteq Catalog, view' \in [Catalog -> SUBSET Catalog]
  PROVE  /\ point[c] = from /\ main \notin {"setup", "read", "exit", "done", "ended"} /\ Undeleted(c)
         /\ point' \in [Catalog -> Point] /\ point'[c] = to
         /\ \A d \in Catalog \ {c} : point'[d] = point[d]
         /\ main' = main /\ synchronizers' = synchronizers
         /\ TypeOK' /\ ScannerInv' /\ MainInv' /\ Known'
         /\ PutAgainOnlyOnOverlapOrMiss'
<1>1. UNCHANGED WorkerUnchanged
  BY DEF RequestUnchanged
<1>2. /\ point[c] = from /\ main \notin {"setup", "read", "exit", "done", "ended"} /\ Undeleted(c)
      /\ point' \in [Catalog -> Point] /\ point'[c] = to
      /\ \A d \in Catalog \ {c} : point'[d] = point[d]
      /\ ScannerInv' /\ MainInv'
  BY <1>1, WorkerFrame
<1>3. TypeOK'
  BY <1>2 DEF IInv, TypeOK, A!AwsTypeOK, RequestUnchanged, WorkerUnchanged, mainVars
<1>4. Known'
  BY <1>2 DEF IInv, Known, RequestUnchanged
<1>5. PutAgainOnlyOnOverlapOrMiss'
  BY DEF IInv, PutAgainOnlyOnOverlapOrMiss, Synchronized, RequestUnchanged, WorkerUnchanged, mainVars
<1> QED
  BY <1>1, <1>2, <1>3, <1>4, <1>5 DEF WorkerUnchanged, mainVars

\* With one synchronizer there is one worker.
LEMMA OneWorker ==
  ASSUME IInv, Len(synchronizers) <= 1, NEW c \in Catalog, NEW d \in Catalog,
         point[c] \in WorkerPoint, point[d] \in WorkerPoint
  PROVE  c = d
<1>1. point[c] \notin {"off", "scan"} /\ point[d] \notin {"off", "scan"}
  BY DEF WorkerPoint
<1>2. Undeleted(c) /\ Undeleted(d)
  BY <1>1 DEF IInv, MainInv, Owned, Turned
<1>3. synchronizers \in Seq(Catalog) /\ deleted \in 0 .. Len(synchronizers)
  BY DEF IInv, TypeOK
<1>4. PICK i \in deleted + 1 .. Len(synchronizers) : synchronizers[i] = c
  BY <1>2 DEF Undeleted
<1>5. PICK k \in deleted + 1 .. Len(synchronizers) : synchronizers[k] = d
  BY <1>2 DEF Undeleted
<1>6. i = 1 /\ k = 1
  BY <1>3
<1> QED
  BY <1>4, <1>5, <1>6

LEMMA ViewType ==
  ASSUME IInv, NEW c \in Catalog, NEW found \in SUBSET Catalog, view' = [view EXCEPT ![c] = found]
  PROVE  /\ view' \in [Catalog -> SUBSET Catalog] /\ view'[c] = found
         /\ \A d \in Catalog \ {c} : view'[d] = view[d]
  BY DEF IInv, TypeOK, A!AwsTypeOK

LEMMA CreateRequestKeeps == ASSUME IInv, NEW c \in Catalog, CreateRequest(c) PROVE IInv'
<1>1. UNCHANGED RequestUnchanged /\ cached' = cached
  BY DEF CreateRequest
<1>2. "create" \in WorkerPoint /\ "insert" \in WorkerPoint /\ "request" \in WorkerPoint
  BY DEF WorkerPoint
<1>3. requests \subseteq Catalog /\ view \in [Catalog -> SUBSET Catalog]
  BY DEF IInv, TypeOK, A!AwsTypeOK
<1>4. CASE A!CreateBegins(c, Destination) /\ Moves(c, "create", "insert")
  <2>1. /\ Destination \in destinations /\ view' = [view EXCEPT ![c] = requests]
        /\ initialised' = initialised /\ destinations' = destinations /\ requests' = requests
    BY <1>4 DEF A!CreateBegins
  <2>2. /\ view' \in [Catalog -> SUBSET Catalog] /\ view'[c] = requests
        /\ \A d \in Catalog \ {c} : view'[d] = view[d]
    BY <1>3, <2>1, ViewType
  <2>3. /\ point[c] = "create" /\ main \notin {"setup", "read", "exit", "done", "ended"}
        /\ point' \in [Catalog -> Point] /\ point'[c] = "insert"
        /\ \A d \in Catalog \ {c} : point'[d] = point[d]
        /\ main' = main /\ synchronizers' = synchronizers
        /\ TypeOK' /\ ScannerInv' /\ MainInv' /\ Known'
        /\ PutAgainOnlyOnOverlapOrMiss'
    BY <1>1, <1>2, <1>3, <1>4, <2>1, <2>2, RequestFrame
  <2>4. \A d \in Catalog : Holds(d)' <=> Holds(d)
    BY <2>3 DEF Holds
  <2>5. Undisturbed'
    BY <2>1, <2>2, <2>3 DEF IInv, Undisturbed
  <2>6. RegistryIsExact' /\ RequestsEndBeforeTheirDestination'
    BY <2>1, <2>3, <2>4 DEF IInv, RegistryIsExact, RequestsEndBeforeTheirDestination
  <2> QED
    BY <2>3, <2>5, <2>6 DEF IInv
<1>5. CASE A!CreateEnds(c) /\ Moves(c, "insert", "request")
  <2>1. /\ requests' = view[c] \cup {c} /\ view' = [view EXCEPT ![c] = {}]
        /\ initialised' = initialised /\ destinations' = destinations
    BY <1>5 DEF A!CreateEnds
  <2>2. /\ view' \in [Catalog -> SUBSET Catalog] /\ view'[c] = {}
        /\ \A d \in Catalog \ {c} : view'[d] = view[d]
    BY <2>1, ViewType
  <2>3. requests' \subseteq Catalog
    BY <1>3, <2>1
  <2>4. /\ point[c] = "insert" /\ main \notin {"setup", "read", "exit", "done", "ended"}
        /\ point' \in [Catalog -> Point] /\ point'[c] = "request"
        /\ \A d \in Catalog \ {c} : point'[d] = point[d]
        /\ main' = main /\ synchronizers' = synchronizers
        /\ TypeOK' /\ ScannerInv' /\ MainInv' /\ Known'
        /\ PutAgainOnlyOnOverlapOrMiss'
    BY <1>1, <1>2, <1>5, <2>1, <2>2, <2>3, RequestFrame
  <2>5. Holds(c)' /\ \A d \in Catalog \ {c} : Holds(d)' <=> Holds(d)
    BY <2>4 DEF Holds
  <2>6. ASSUME Len(synchronizers) <= 1 PROVE requests' = requests \cup {c}
    BY <2>1, <2>4, <2>6 DEF IInv, Undisturbed
  <2>7. ASSUME Len(synchronizers) <= 1, NEW d \in Catalog PROVE point'[d] \notin {"insert", "erase"}
    <3>1. CASE d = c
      BY <2>4, <3>1
    <3>2. CASE d # c
      BY <1>2, <2>4, <2>7, <3>2, OneWorker DEF WorkerPoint
    <3> QED
      BY <3>1, <3>2
  <2>8. Undisturbed'
    BY <2>4, <2>7 DEF Undisturbed
  <2>9. RegistryIsExact'
    BY <2>4, <2>5, <2>6 DEF IInv, RegistryIsExact
  <2>10. RequestsEndBeforeTheirDestination'
    BY <2>1, <2>4, <2>5 DEF IInv, RequestsEndBeforeTheirDestination
  <2> QED
    BY <2>4, <2>8, <2>9, <2>10 DEF IInv
<1> QED
  BY <1>4, <1>5 DEF CreateRequest

LEMMA FreeRequestKeeps == ASSUME IInv, NEW c \in Catalog, FreeRequest(c) PROVE IInv'
<1>1. UNCHANGED RequestUnchanged /\ cached' = cached
  BY DEF FreeRequest
<1>2. "free" \in WorkerPoint /\ "erase" \in WorkerPoint /\ "mark" \in WorkerPoint
  BY DEF WorkerPoint
<1>3. requests \subseteq Catalog /\ view \in [Catalog -> SUBSET Catalog]
  BY DEF IInv, TypeOK, A!AwsTypeOK
<1>4. CASE A!FreeBegins(c) /\ Moves(c, "free", "erase")
  <2>1. /\ view' = [view EXCEPT ![c] = requests]
        /\ initialised' = initialised /\ destinations' = destinations /\ requests' = requests
    BY <1>4 DEF A!FreeBegins
  <2>2. /\ view' \in [Catalog -> SUBSET Catalog] /\ view'[c] = requests
        /\ \A d \in Catalog \ {c} : view'[d] = view[d]
    BY <1>3, <2>1, ViewType
  <2>3. /\ point[c] = "free" /\ main \notin {"setup", "read", "exit", "done", "ended"}
        /\ point' \in [Catalog -> Point] /\ point'[c] = "erase"
        /\ \A d \in Catalog \ {c} : point'[d] = point[d]
        /\ main' = main /\ synchronizers' = synchronizers
        /\ TypeOK' /\ ScannerInv' /\ MainInv' /\ Known'
        /\ PutAgainOnlyOnOverlapOrMiss'
    BY <1>1, <1>2, <1>3, <1>4, <2>1, <2>2, RequestFrame
  <2>4. \A d \in Catalog : Holds(d)' <=> Holds(d)
    BY <2>3 DEF Holds
  <2>5. Undisturbed'
    BY <2>1, <2>2, <2>3 DEF IInv, Undisturbed
  <2>6. RegistryIsExact' /\ RequestsEndBeforeTheirDestination'
    BY <2>1, <2>3, <2>4 DEF IInv, RegistryIsExact, RequestsEndBeforeTheirDestination
  <2> QED
    BY <2>3, <2>5, <2>6 DEF IInv
<1>5. CASE A!FreeEnds(c) /\ Moves(c, "erase", "mark")
  <2>1. /\ requests' = view[c] \ {c} /\ view' = [view EXCEPT ![c] = {}]
        /\ initialised' = initialised /\ destinations' = destinations
    BY <1>5 DEF A!FreeEnds
  <2>2. /\ view' \in [Catalog -> SUBSET Catalog] /\ view'[c] = {}
        /\ \A d \in Catalog \ {c} : view'[d] = view[d]
    BY <2>1, ViewType
  <2>3. requests' \subseteq Catalog
    BY <1>3, <2>1
  <2>4. /\ point[c] = "erase" /\ main \notin {"setup", "read", "exit", "done", "ended"}
        /\ point' \in [Catalog -> Point] /\ point'[c] = "mark"
        /\ \A d \in Catalog \ {c} : point'[d] = point[d]
        /\ main' = main /\ synchronizers' = synchronizers
        /\ TypeOK' /\ ScannerInv' /\ MainInv' /\ Known'
        /\ PutAgainOnlyOnOverlapOrMiss'
    BY <1>1, <1>2, <1>5, <2>1, <2>2, <2>3, RequestFrame
  <2>5. ~Holds(c)' /\ point'[c] # "insert" /\ \A d \in Catalog \ {c} : Holds(d)' <=> Holds(d)
    BY <2>4 DEF Holds
  <2>6. ASSUME Len(synchronizers) <= 1 PROVE requests' = requests \ {c}
    BY <2>1, <2>4, <2>6 DEF IInv, Undisturbed
  <2>7. ASSUME Len(synchronizers) <= 1, NEW d \in Catalog PROVE point'[d] \notin {"insert", "erase"}
    <3>1. CASE d = c
      BY <2>4, <3>1
    <3>2. CASE d # c
      BY <1>2, <2>4, <2>7, <3>2, OneWorker DEF WorkerPoint
    <3> QED
      BY <3>1, <3>2
  <2>8. Undisturbed'
    BY <2>4, <2>7 DEF Undisturbed
  <2>9. RegistryIsExact'
    BY <2>4, <2>5, <2>6 DEF IInv, RegistryIsExact
  <2>10. RequestsEndBeforeTheirDestination'
    BY <2>1, <2>4, <2>5 DEF IInv, RequestsEndBeforeTheirDestination
  <2> QED
    BY <2>4, <2>8, <2>9, <2>10 DEF IInv
<1>6. CASE c \notin requests /\ Moves(c, "free", "mark") /\ UNCHANGED awsVars
  <2>1. /\ initialised' = initialised /\ destinations' = destinations /\ requests' = requests
        /\ view' = view
    BY <1>6 DEF awsVars
  <2>2. /\ point[c] = "free" /\ main \notin {"setup", "read", "exit", "done", "ended"}
        /\ point' \in [Catalog -> Point] /\ point'[c] = "mark"
        /\ \A d \in Catalog \ {c} : point'[d] = point[d]
        /\ main' = main /\ synchronizers' = synchronizers
        /\ TypeOK' /\ ScannerInv' /\ MainInv' /\ Known'
        /\ PutAgainOnlyOnOverlapOrMiss'
    BY <1>1, <1>2, <1>3, <1>6, <2>1, RequestFrame
  <2>3. ~(Len(synchronizers) <= 1)
    BY <1>6, <2>2 DEF IInv, RegistryIsExact, Holds
  <2>4. Undisturbed' /\ RegistryIsExact'
    BY <2>2, <2>3 DEF Undisturbed, RegistryIsExact
  <2>5. RequestsEndBeforeTheirDestination'
    BY <2>1, <2>2 DEF IInv, RequestsEndBeforeTheirDestination, Holds
  <2> QED
    BY <2>2, <2>4, <2>5 DEF IInv
<1> QED
  BY <1>4, <1>5, <1>6 DEF FreeRequest

LEMMA TransferKeeps ==
  ASSUME IInv, NEW c \in Catalog, Transfer(c) \/ NoDestination(c)
  PROVE  IInv'
<1>1. UNCHANGED RequestUnchanged /\ cached' = cached /\ UNCHANGED awsVars
  BY DEF Transfer, NoDestination
<1>2. PICK from \in {"request", "create"}, to \in {"free", "mark"} :
        Moves(c, from, to) /\ (from = "request" <=> to = "free")
  BY DEF Transfer, NoDestination
<1>3. from \in WorkerPoint /\ to \in WorkerPoint
  BY DEF WorkerPoint
<1>4. /\ initialised' = initialised /\ destinations' = destinations
      /\ requests' \subseteq Catalog /\ view' \in [Catalog -> SUBSET Catalog]
  BY <1>1 DEF IInv, TypeOK, A!AwsTypeOK, awsVars
<1>5. /\ point[c] = from /\ point'[c] = to
      /\ \A d \in Catalog \ {c} : point'[d] = point[d]
      /\ TypeOK' /\ ScannerInv' /\ MainInv' /\ Known'
      /\ PutAgainOnlyOnOverlapOrMiss'
  BY <1>1, <1>2, <1>3, <1>4, RequestFrame
<1>6. Undisturbed' /\ RegistryIsExact' /\ RequestsEndBeforeTheirDestination'
  BY <1>1, <1>2, <1>5, RegistryRests DEF RequestUnchanged
<1> QED
  BY <1>5, <1>6 DEF IInv

LEMMA WorkerKeeps == ASSUME IInv, NEW c \in Catalog, Worker(c) PROVE IInv'
  BY TakeKeeps, LoopEndsKeeps, CreateRequestKeeps, TransferKeeps, FreeRequestKeeps, MarkKeeps DEF Worker

-----------------------------------------------------------------------------
(* main deletes the synchronizers.                                          *)

\* main goes on among its own variables.
LEMMA DeleteStep ==
  ASSUME IInv, UNCHANGED DeleteUnchanged, deleted' = deleted, point' = point,
         main \in {"wait", "delete"}, main' \in {"delete", "join", "unwatch", "exit"},
         turn' \in Catalog \cup {NoCatalog}, cancel' \in [Catalog -> BOOLEAN],
         main' \in {"join", "unwatch"} =>
           deleted < Len(synchronizers) /\ turn' = synchronizers[deleted + 1],
         main' = "exit" => deleted = Len(synchronizers)
  PROVE  IInv'
<1> USE DEF DeleteUnchanged
<1>1. TypeOK'
  BY DEF IInv, TypeOK, A!AwsTypeOK, awsVars, MainPoint
<1>2. ScannerInv' /\ ScanStays'
  BY ScannerRests DEF IInv, MainInv, ScanStays, scannerVars
<1>3. Stopped' /\ Turned' /\ Owned'
  BY DEF IInv, MainInv, Stopped, Turned, Owned, Undeleted
<1>4. ASSUME main' = "exit", NEW c \in Catalog PROVE point[c] = "off"
  <2>1. deleted \in Nat /\ ~Undeleted(c)
    BY <1>4 DEF IInv, TypeOK, Undeleted
  <2> QED
    BY <2>1 DEF IInv, MainInv, Owned
<1>5. /\ Known' /\ Undisturbed' /\ PutAgainOnlyOnOverlapOrMiss'
      /\ RegistryIsExact' /\ RequestsEndBeforeTheirDestination'
  BY <1>4, WorkersRest
<1> QED
  BY <1>1, <1>2, <1>3, <1>5 DEF IInv, MainInv

LEMMA LeaveKeeps == ASSUME IInv, Leave \/ AllDeleted PROVE IInv'
<1>1. /\ UNCHANGED DeleteUnchanged /\ deleted' = deleted /\ point' = point
      /\ turn' = turn /\ cancel' = cancel
      /\ main \in {"wait", "delete"} /\ main' \in {"delete", "exit"}
      /\ main' = "exit" => deleted = Len(synchronizers)
  BY DEF Leave, AllDeleted, Goto
<1>2. turn \in Catalog \cup {NoCatalog} /\ cancel \in [Catalog -> BOOLEAN]
  BY DEF IInv, TypeOK
<1> QED
  BY <1>1, <1>2, DeleteStep

LEMMA DeleteKeeps == ASSUME IInv, Delete PROVE IInv'
<1>1. /\ UNCHANGED DeleteUnchanged /\ deleted' = deleted /\ point' = point
      /\ deleted < Len(synchronizers) /\ turn' = synchronizers[deleted + 1]
      /\ main = "delete" /\ main' \in {"join", "unwatch"}
      /\ cancel' = cancel \/ cancel' = [cancel EXCEPT ![turn'] = TRUE]
  BY DEF Delete, Goto
<1>2. cancel \in [Catalog -> BOOLEAN] /\ synchronizers \in Seq(Catalog)
      /\ deleted \in 0 .. Len(synchronizers)
  BY DEF IInv, TypeOK
<1>3. turn' \in Catalog
  BY <1>1, <1>2
<1>4. cancel' \in [Catalog -> BOOLEAN]
  BY <1>1, <1>2, <1>3, Zenon
<1> QED
  BY <1>1, <1>3, <1>4, DeleteStep

LEMMA JoinKeeps == ASSUME IInv, Join PROVE IInv'
<1>1. /\ main = "join" /\ main' = "unwatch" /\ point[turn] = "exited"
      /\ point' = [point EXCEPT ![turn] = "none"]
      /\ UNCHANGED DeleteUnchanged /\ deleted' = deleted /\ turn' = turn /\ cancel' = cancel
  BY DEF Join, Goto, Moves
<1> USE DEF DeleteUnchanged
<1>2. /\ synchronizers \in Seq(Catalog) /\ deleted \in 0 .. Len(synchronizers)
      /\ deleted < Len(synchronizers) /\ turn = synchronizers[deleted + 1]
  BY <1>1 DEF IInv, TypeOK, MainInv, Turned
<1>3. turn \in Catalog
  BY <1>2
<1>4. /\ point' \in [Catalog -> Point] /\ point'[turn] = "none"
      /\ \A d \in Catalog \ {turn} : point'[d] = point[d]
      /\ ScannerInv' /\ ScanStays' /\ Known' /\ Undisturbed'
      /\ PutAgainOnlyOnOverlapOrMiss'
      /\ RegistryIsExact' /\ RequestsEndBeforeTheirDestination'
  BY <1>1, <1>3, PlaceKeeps
<1>5. TypeOK'
  BY <1>1, <1>4 DEF IInv, TypeOK, A!AwsTypeOK, awsVars, MainPoint
<1>6. Stopped' /\ Turned'
  BY <1>1, <1>2 DEF Stopped, Turned
<1>7. Owned'
  BY <1>1, <1>4 DEF IInv, MainInv, Owned, Undeleted
<1> QED
  BY <1>4, <1>5, <1>6, <1>7 DEF IInv, MainInv

LEMMA DeletedKeeps == ASSUME IInv, Deleted PROVE IInv'
<1>1. /\ main = "unwatch" /\ main' = "delete" /\ point[turn] = "none"
      /\ point' = [point EXCEPT ![turn] = "off"]
      /\ deleted' = deleted + 1 /\ turn' = NoCatalog
      /\ known' = [known EXCEPT ![turn] = {}] /\ cancel' = [cancel EXCEPT ![turn] = FALSE]
      /\ UNCHANGED <<scannerVars, awsVars, synchronizers, job, at, cached>>
  BY DEF Deleted, Goto, Moves
<1>2. /\ synchronizers \in Seq(Catalog) /\ deleted \in 0 .. Len(synchronizers)
      /\ deleted < Len(synchronizers) /\ turn = synchronizers[deleted + 1]
      /\ known \in [Catalog -> SUBSET Uuid] /\ cancel \in [Catalog -> BOOLEAN]
  BY <1>1 DEF IInv, TypeOK, MainInv, Turned
<1>3. turn \in Catalog /\ deleted' \in 0 .. Len(synchronizers)
  BY <1>1, <1>2
<1>4. /\ known' \in [Catalog -> SUBSET Uuid] /\ cancel' \in [Catalog -> BOOLEAN]
      /\ \A d \in Catalog : known'[d] \subseteq known[d]
  BY <1>1, <1>2, <1>3
<1>5. /\ point' \in [Catalog -> Point] /\ point'[turn] = "off"
      /\ \A d \in Catalog \ {turn} : point'[d] = point[d]
      /\ ScannerInv' /\ ScanStays' /\ Known' /\ Undisturbed'
      /\ PutAgainOnlyOnOverlapOrMiss'
      /\ RegistryIsExact' /\ RequestsEndBeforeTheirDestination'
  BY <1>1, <1>3, <1>4, PlaceKeeps
<1>6. TypeOK'
  BY <1>1, <1>3, <1>4, <1>5 DEF IInv, TypeOK, A!AwsTypeOK, awsVars, MainPoint
<1>7. Stopped' /\ Turned'
  BY <1>1 DEF Stopped, Turned
<1>8. ASSUME NEW d \in Catalog, point'[d] # "off" PROVE Undeleted(d)'
  <2>1. d # turn /\ Undeleted(d)
    BY <1>1, <1>5, <1>8 DEF IInv, MainInv, Owned
  <2>2. PICK i \in deleted + 1 .. Len(synchronizers) : synchronizers[i] = d
    BY <2>1 DEF Undeleted
  <2>3. i \in deleted' + 1 .. Len(synchronizers')
    BY <1>1, <1>2, <2>1, <2>2
  <2> QED
    BY <1>1, <2>2, <2>3 DEF Undeleted
<1>9. Owned'
  BY <1>8 DEF Owned
<1> QED
  BY <1>5, <1>6, <1>7, <1>9 DEF IInv, MainInv

-----------------------------------------------------------------------------
(* Every step.                                                              *)

LEMMA EndsKeep == ASSUME IInv, Exit \/ Crash \/ Restart \/ DeletedRunning PROVE IInv'
<1>1. Afresh /\ main' \in {"setup", "done", "ended"}
  BY DEF Exit, Crash, Restart, DeletedRunning, Goto
<1> QED
  BY <1>1, AfreshInv

LEMMA StutterKeeps == ASSUME IInv, UNCHANGED vars PROVE IInv'
<1> USE DEF vars, mainVars, workerVars
<1>1. TypeOK'
  BY DEF IInv, TypeOK, A!AwsTypeOK, awsVars
<1>2. ScannerInv' /\ ScanStays'
  BY ScannerRests DEF IInv, MainInv, ScanStays, scannerVars
<1>3. Stopped' /\ Turned' /\ Owned'
  BY DEF IInv, MainInv, Stopped, Turned, Owned, Undeleted
<1>4. /\ Known' /\ Undisturbed' /\ PutAgainOnlyOnOverlapOrMiss'
      /\ RegistryIsExact' /\ RequestsEndBeforeTheirDestination'
  BY NobodyLeft, WorkersRest
<1> QED
  BY <1>1, <1>2, <1>3, <1>4 DEF IInv, MainInv

LEMMA StepKeeps == ASSUME IInv, [Next]_vars PROVE IInv'
<1>1. CASE Client
  BY <1>1, ClientKeeps, StartScanKeeps DEF Client
<1>2. CASE Main
  BY <1>2, ScanKeeps, ScanReturnsKeeps, BeginOpensKeeps, BeginFailsKeeps, AllBegunKeeps,
     FirstScanKeeps, ScanFailsKeeps, LeaveKeeps, DeleteKeeps, JoinKeeps, DeletedKeeps, EndsKeep
     DEF Main, NothingToWaitFor
<1>3. CASE Signal \/ Crash \/ Restart
  BY <1>3, LeaveKeeps, EndsKeep DEF Signal
<1>4. ASSUME NEW c \in Catalog, Threads(c) \/ Notice(c) PROVE IInv'
  BY <1>4, WorkerKeeps, ScanAgainKeeps, ScanFailsKeeps, NoticeKeeps DEF Threads
<1>5. CASE UNCHANGED vars
  BY <1>5, StutterKeeps
<1> QED
  BY <1>1, <1>2, <1>3, <1>4, <1>5 DEF Next

LEMMA Invariance == Spec => []IInv
<1>1. Init => IInv
  BY InitInv
<1>2. IInv /\ [Next]_vars => IInv'
  BY StepKeeps
<1> QED
  BY <1>1, <1>2, PTL DEF Spec

-----------------------------------------------------------------------------
(* The deletions.  A synchronizer is in the vector once because main begins   *)
(* none that is there.                                                      *)

\* A synchronizer is in the vector once and alive until its turn, and main joins a worker
\* that is there (stopAndCleanup, the last loop of main).
NoDeletionWaitsInVain ==
  /\ main = "join" => point[turn] \in WorkerPoint \cup {"exited"}
  /\ main = "unwatch" => point[turn] # "off"
  /\ \A i, j \in deleted + 1 .. Len(synchronizers) :
       /\ point[synchronizers[i]] # "off"
       /\ synchronizers[i] = synchronizers[j] => i = j

Deleting == NoDeletionWaitsInVain /\ (main = "first" => ~Undeleted(turn))

\* The vector, its synchronizers and their places rest.
LEMMA VectorRests ==
  ASSUME Deleting, UNCHANGED <<synchronizers, deleted, turn, point>>,
         main' \notin {"first", "join", "unwatch"}
  PROVE  Deleting'
  BY DEF Deleting, NoDeletionWaitsInVain

\* One of the synchronizers goes somewhere else.
LEMMA PlaceChanges ==
  ASSUME IInv, Deleting, NEW c \in Catalog, NEW to \in Point \ {"off"},
         point'[c] = to, \A d \in Catalog \ {c} : point'[d] = point[d],
         UNCHANGED <<main, synchronizers, deleted, turn>>,
         main = "join" /\ turn = c => to \in WorkerPoint \cup {"exited"}
  PROVE  Deleting'
<1>1. /\ synchronizers \in Seq(Catalog) /\ deleted \in 0 .. Len(synchronizers)
      /\ main \in {"join", "unwatch"} => turn = synchronizers[deleted + 1] /\ deleted < Len(synchronizers)
  BY DEF IInv, TypeOK, MainInv, Turned
<1>2. \A i \in deleted + 1 .. Len(synchronizers) : synchronizers[i] \in Catalog
  BY <1>1
<1>3. main \in {"join", "unwatch"} => turn \in Catalog
  BY <1>1
<1>4. main' = "join" => point'[turn'] \in WorkerPoint \cup {"exited"}
  BY <1>3 DEF Deleting, NoDeletionWaitsInVain
<1>5. main' = "unwatch" => point'[turn'] # "off"
  BY <1>3 DEF Deleting, NoDeletionWaitsInVain
<1>6. ASSUME NEW i \in deleted' + 1 .. Len(synchronizers') PROVE point'[synchronizers'[i]] # "off"
  BY <1>2 DEF Deleting, NoDeletionWaitsInVain
<1>7. \A i, j \in deleted' + 1 .. Len(synchronizers') :
        synchronizers'[i] = synchronizers'[j] => i = j
  BY DEF Deleting, NoDeletionWaitsInVain
<1>8. main' = "first" => ~Undeleted(turn)'
  BY DEF Deleting, Undeleted
<1> QED
  BY <1>4, <1>5, <1>6, <1>7, <1>8 DEF Deleting, NoDeletionWaitsInVain

LEMMA BeginDeletes == ASSUME IInv, Deleting, BeginOpens PROVE Deleting'
<1>1. PICK c \in Catalog : /\ point[c] = "off" /\ turn' = c
                           /\ point' = [point EXCEPT ![c] = "scan"]
  BY DEF BeginOpens
<1>2. /\ main' = "first" /\ synchronizers' = synchronizers /\ deleted' = deleted
      /\ point \in [Catalog -> Point] /\ synchronizers \in Seq(Catalog)
      /\ deleted \in 0 .. Len(synchronizers)
  BY DEF BeginOpens, Goto, IInv, TypeOK
<1>3. ~Undeleted(c)
  BY <1>1 DEF Undeleted, Deleting, NoDeletionWaitsInVain
<1>4. ASSUME NEW i \in deleted + 1 .. Len(synchronizers) PROVE point'[synchronizers[i]] # "off"
  <2>1. synchronizers[i] \in Catalog /\ synchronizers[i] # c
    BY <1>2, <1>3 DEF Undeleted
  <2> QED
    BY <1>1, <1>2, <2>1 DEF Deleting, NoDeletionWaitsInVain
<1> QED
  BY <1>1, <1>2, <1>3, <1>4 DEF Deleting, NoDeletionWaitsInVain, Undeleted

LEMMA FirstScanDeletes == ASSUME IInv, Deleting, NEW c \in Catalog, FirstScan(c) PROVE Deleting'
<1>1. /\ main = "first" /\ turn = c /\ main' = "begin" /\ deleted' = deleted
      /\ synchronizers' = Append(synchronizers, c)
      /\ \E p \in {"none", "take"} : point' = [point EXCEPT ![c] = p]
  BY DEF FirstScan, ByMain, ProcessChanges
<1>2. /\ point \in [Catalog -> Point] /\ synchronizers \in Seq(Catalog)
      /\ deleted \in 0 .. Len(synchronizers)
  BY DEF IInv, TypeOK
<1>3. ~Undeleted(c)
  BY <1>1 DEF Deleting
<1>4. /\ Len(synchronizers') = Len(synchronizers) + 1
      /\ synchronizers'[Len(synchronizers) + 1] = c
      /\ \A i \in 1 .. Len(synchronizers) : synchronizers'[i] = synchronizers[i]
  BY <1>1, <1>2
<1>5. \A i \in deleted' + 1 .. Len(synchronizers') :
        i \in deleted + 1 .. Len(synchronizers) \/ i = Len(synchronizers) + 1
  BY <1>1, <1>2, <1>4
<1>6. \A i \in deleted + 1 .. Len(synchronizers) :
        synchronizers'[i] = synchronizers[i] /\ synchronizers[i] \in Catalog \ {c}
  BY <1>2, <1>3, <1>4 DEF Undeleted
<1>7. \A i \in deleted' + 1 .. Len(synchronizers') : point'[synchronizers'[i]] # "off"
  BY <1>1, <1>2, <1>4, <1>5, <1>6 DEF Deleting, NoDeletionWaitsInVain
<1>8. \A i, j \in deleted' + 1 .. Len(synchronizers') :
        synchronizers'[i] = synchronizers'[j] => i = j
  BY <1>4, <1>5, <1>6 DEF Deleting, NoDeletionWaitsInVain
<1> QED
  BY <1>1, <1>7, <1>8 DEF Deleting, NoDeletionWaitsInVain

LEMMA ScanFailsDeletes == ASSUME IInv, Deleting, NEW c \in Catalog, ScanFails(c) PROVE Deleting'
<1>1. /\ point[c] = "scan" /\ synchronizers' = synchronizers /\ deleted' = deleted
      /\ point \in [Catalog -> Point] /\ synchronizers \in Seq(Catalog)
      /\ deleted \in 0 .. Len(synchronizers)
  BY DEF ScanFails, IInv, TypeOK
<1>2. CASE ByMain(c) /\ main' = "begin" /\ point' = [point EXCEPT ![c] = "off"]
  <2>1. ~Undeleted(c)
    BY <1>2 DEF Deleting, ByMain
  <2>2. \A i \in deleted + 1 .. Len(synchronizers) : synchronizers[i] \in Catalog \ {c}
    BY <1>1, <2>1 DEF Undeleted
  <2> QED
    BY <1>1, <1>2, <2>2 DEF Deleting, NoDeletionWaitsInVain
<1>3. CASE main' = main /\ turn' = turn /\ point' = [point EXCEPT ![c] = "none"]
  <2>1. "none" \in Point \ {"off"}
    BY DEF Point
  <2>2. ~(main = "join" /\ turn = c)
    BY <1>1 DEF Deleting, NoDeletionWaitsInVain, WorkerPoint
  <2>3. point'[c] = "none" /\ \A d \in Catalog \ {c} : point'[d] = point[d]
    BY <1>1, <1>3
  <2> QED
    BY <1>1, <1>3, <2>1, <2>2, <2>3, PlaceChanges
<1> QED
  BY <1>2, <1>3 DEF ScanFails

LEMMA WatcherDeletes ==
  ASSUME IInv, Deleting, NEW c \in Catalog, ScanAgain(c) \/ Notice(c)
  PROVE  Deleting'
<1>1. /\ main' = main /\ synchronizers' = synchronizers /\ deleted' = deleted /\ turn' = turn
      /\ point \in [Catalog -> Point]
  BY DEF ScanAgain, Notice, ProcessChanges, mainVars, IInv, TypeOK
<1>2. PICK to \in {"none", "take", "scan"} : point' = [point EXCEPT ![c] = to]
  BY DEF ScanAgain, Notice, ProcessChanges
<1>3. to \in Point \ {"off"}
  BY DEF Point, WorkerPoint
<1>4. ~(main = "join" /\ turn = c)
  BY DEF ScanAgain, Notice, ProcessChanges, Deleting, NoDeletionWaitsInVain, WorkerPoint
<1>5. point'[c] = to /\ \A d \in Catalog \ {c} : point'[d] = point[d]
  BY <1>1, <1>2
<1> QED
  BY <1>1, <1>3, <1>4, <1>5, PlaceChanges

LEMMA WorkerDeletes == ASSUME IInv, Deleting, NEW c \in Catalog, Worker(c) PROVE Deleting'
<1>1. /\ main' = main /\ synchronizers' = synchronizers /\ deleted' = deleted /\ turn' = turn
      /\ point \in [Catalog -> Point]
  BY DEF Worker, Take, LoopEnds, CreateRequest, NoDestination, Transfer, FreeRequest, Mark,
         WorkerUnchanged, RequestUnchanged, mainVars, IInv, TypeOK
<1>2. PICK to \in WorkerPoint \cup {"exited"} : point' = [point EXCEPT ![c] = to]
  BY DEF Worker, Take, LoopEnds, CreateRequest, NoDestination, Transfer, FreeRequest, Mark,
         Moves, WorkerPoint
<1>3. to \in Point \ {"off"}
  BY DEF Point, WorkerPoint
<1>4. point'[c] = to /\ \A d \in Catalog \ {c} : point'[d] = point[d]
  BY <1>1, <1>2
<1> QED
  BY <1>1, <1>3, <1>4, PlaceChanges

LEMMA DeleteDeletes == ASSUME IInv, Deleting, Delete PROVE Deleting'
<1>1. /\ deleted < Len(synchronizers) /\ turn' = synchronizers[deleted + 1]
      /\ UNCHANGED <<synchronizers, deleted, point>>
      /\ \/ point[turn'] \in {"none", "scan"} /\ main' = "unwatch"
         \/ point[turn'] \notin {"none", "scan"} /\ main' = "join"
  BY DEF Delete, DeleteUnchanged, Goto
<1>2. /\ point \in [Catalog -> Point]
      /\ synchronizers \in Seq(Catalog) /\ deleted \in 0 .. Len(synchronizers)
  BY DEF IInv, TypeOK
<1>3. deleted + 1 \in deleted + 1 .. Len(synchronizers) /\ turn' \in Catalog
  BY <1>1, <1>2
<1>4. point[turn'] # "off"
  BY <1>1, <1>3 DEF Deleting, NoDeletionWaitsInVain
<1>5. main' = "join" => point'[turn'] \in WorkerPoint \cup {"exited"}
  BY <1>1, <1>2, <1>3, <1>4 DEF Point
<1> QED
  BY <1>1, <1>4, <1>5 DEF Deleting, NoDeletionWaitsInVain

LEMMA JoinDeletes == ASSUME IInv, Deleting, Join PROVE Deleting'
<1>1. /\ main = "join" /\ main' = "unwatch" /\ UNCHANGED <<synchronizers, deleted, turn>>
      /\ point' = [point EXCEPT ![turn] = "none"]
  BY DEF Join, DeleteUnchanged, Goto, Moves
<1>2. /\ point \in [Catalog -> Point] /\ synchronizers \in Seq(Catalog)
      /\ deleted \in 0 .. Len(synchronizers)
      /\ turn = synchronizers[deleted + 1] /\ deleted < Len(synchronizers)
  BY <1>1 DEF IInv, TypeOK, MainInv, Turned
<1>3. turn \in Catalog /\ \A i \in deleted + 1 .. Len(synchronizers) : synchronizers[i] \in Catalog
  BY <1>2
<1>4. point'[turn] = "none" /\ \A d \in Catalog \ {turn} : point'[d] = point[d]
  BY <1>1, <1>2, <1>3
<1> QED
  BY <1>1, <1>3, <1>4 DEF Deleting, NoDeletionWaitsInVain

LEMMA DeletedDeletes == ASSUME IInv, Deleting, Deleted PROVE Deleting'
<1>1. /\ main = "unwatch" /\ main' = "delete" /\ synchronizers' = synchronizers
      /\ deleted' = deleted + 1 /\ point' = [point EXCEPT ![turn] = "off"]
  BY DEF Deleted, Goto, Moves
<1>2. /\ point \in [Catalog -> Point] /\ synchronizers \in Seq(Catalog)
      /\ deleted \in 0 .. Len(synchronizers)
      /\ turn = synchronizers[deleted + 1] /\ deleted < Len(synchronizers)
  BY <1>1 DEF IInv, TypeOK, MainInv, Turned
<1>3. \A i \in deleted' + 1 .. Len(synchronizers) :
        i \in deleted + 1 .. Len(synchronizers) /\ i # deleted + 1 /\ synchronizers[i] \in Catalog
  BY <1>1, <1>2
<1>4. deleted + 1 \in deleted + 1 .. Len(synchronizers)
  BY <1>2
<1>5. \A i \in deleted' + 1 .. Len(synchronizers) : synchronizers[i] # turn
  BY <1>2, <1>3, <1>4 DEF Deleting, NoDeletionWaitsInVain
<1> QED
  BY <1>1, <1>2, <1>3, <1>5 DEF Deleting, NoDeletionWaitsInVain

LEMMA DeletionsHold == ASSUME IInv, Deleting, [Next]_vars PROVE Deleting'
<1>1. CASE Client \/ Scan \/ ScanReturns \/ BeginFails \/ AllBegun \/ Leave \/ AllDeleted
  BY <1>1, VectorRests
     DEF Client, Initialise, LoadProfiles, StartScan, TearDown, ClientUnchanged, ScanUnchanged,
         Scan, ScanReturns, BeginFails, AllBegun, Leave, AllDeleted, DeleteUnchanged, Goto,
         mainVars, workerVars
<1>2. CASE Exit \/ Crash \/ Restart \/ DeletedRunning
  <2>1. synchronizers' = <<>> /\ deleted' = 0 /\ main' \in {"setup", "done", "ended"}
    BY <1>2 DEF Exit, Crash, Restart, DeletedRunning, Afresh, Goto
  <2> QED
    BY <2>1 DEF Deleting, NoDeletionWaitsInVain
<1>3. CASE Main
  BY <1>1, <1>2, <1>3, BeginDeletes, FirstScanDeletes, ScanFailsDeletes, DeleteDeletes, JoinDeletes,
     DeletedDeletes DEF Main, NothingToWaitFor
<1>4. ASSUME NEW c \in Catalog, Threads(c) \/ Notice(c) PROVE Deleting'
  BY <1>4, WorkerDeletes, WatcherDeletes, ScanFailsDeletes DEF Threads
<1>5. CASE UNCHANGED vars
  BY <1>5 DEF vars, mainVars, workerVars, Deleting, NoDeletionWaitsInVain, Undeleted
<1> QED
  BY <1>1, <1>2, <1>3, <1>4, <1>5 DEF Next, Signal

-----------------------------------------------------------------------------
(* Program implements SharedSync.                                           *)

EntryPoint == {"create", "insert", "request", "free", "erase", "mark"}

\* A worker's entry is still on its batch.
Within == \A c \in Catalog : point[c] \in EntryPoint => at[c] \in Items(job[c])

Shares == Within' /\ (Shared!Next \/ UNCHANGED <<cached, work>>)

\* Only places change, none of them into or out of a worker's.
LEMMA Quiet ==
  ASSUME Within, cached' = cached, job' = job, at' = at,
         \A c \in Catalog : /\ point'[c] \in WorkerPoint <=> point[c] \in WorkerPoint
                            /\ point'[c] \in EntryPoint => point[c] \in EntryPoint
  PROVE  Shares
<1>1. Within'
  BY DEF Within
<1>2. work' = work
  BY DEF work
<1> QED
  BY <1>1, <1>2 DEF Shares

\* What is left of the other batches is as it was.
LEMMA WorkOfOne ==
  ASSUME NEW c \in Catalog,
         \A d \in Catalog \ {c} : job'[d] = job[d] /\ point'[d] = point[d]
  PROVE  work' = [work EXCEPT ![c] = IF point'[c] \in WorkerPoint THEN job'[c] ELSE NoBatch]
  BY DEF work

LEMMA WithinOthers ==
  ASSUME Within, NEW c \in Catalog, point'[c] \notin EntryPoint,
         \A d \in Catalog \ {c} : job'[d] = job[d] /\ point'[d] = point[d] /\ at'[d] = at[d]
  PROVE  Within'
  BY DEF Within

LEMMA SamePlaces ==
  ASSUME Within, UNCHANGED <<cached, job, at, point>>
  PROVE  Shares
  BY Quiet

\* A place that is no worker's becomes another.
LEMMA IdlePlaces ==
  ASSUME IInv, Within, UNCHANGED <<cached, job, at>>, NEW c,
         NEW to \in {"off", "none", "scan", "exited"}, point' = [point EXCEPT ![c] = to],
         point[c] \in {"off", "none", "scan", "exited"}
  PROVE  Shares
<1>1. point \in [Catalog -> Point]
  BY DEF IInv, TypeOK
<1>2. \A d \in Catalog : point'[d] = point[d] \/ (d = c /\ point'[d] = to)
  BY <1>1
<1>3. \A d \in Catalog : /\ point'[d] \in WorkerPoint <=> point[d] \in WorkerPoint
                         /\ point'[d] \in EntryPoint => point[d] \in EntryPoint
  BY <1>2 DEF WorkerPoint, EntryPoint
<1> QED
  BY <1>3, Quiet

LEMMA AfreshShares == ASSUME Afresh PROVE Shares
<1>1. cached' = cached /\ job' = Everywhere(NoBatch) /\ point' = Everywhere("off")
  BY DEF Afresh
<1>2. Within'
  BY <1>1 DEF Within, EntryPoint, Everywhere
<1>3. work' = Shared!Idle
  BY <1>1 DEF work, WorkerPoint, Everywhere, Shared!Idle, Shared!NoWork, NoBatch
<1> QED
  BY <1>1, <1>2, <1>3 DEF Shares, Shared!Next, Shared!AbandonAll

LEMMA ProcessChangesShares ==
  ASSUME IInv, Within, NEW c \in Catalog, ProcessChanges(c)
  PROVE  Shares
<1>1. PICK rows \in SUBSET Own[c], read \in SUBSET cached :
        LET w == Difference(rows, read) IN
          /\ job' = [job EXCEPT ![c] = w]
          /\ point' = [point EXCEPT ![c] = IF w = NoBatch THEN "none" ELSE "take"]
  BY DEF ProcessChanges
<1>2. /\ point[c] = "scan" /\ cached' = cached /\ at' = at /\ TypeOK
      /\ job \in [Catalog -> Batch] /\ point \in [Catalog -> Point]
  BY DEF ProcessChanges, IInv, TypeOK
<1> DEFINE w == Difference(rows, read)
<1>3. /\ w \in Batch /\ w.add \subseteq Own[c] /\ w.add \cap cached \subseteq w.missed
      /\ w.missed \subseteq cached /\ w.remove \subseteq cached
  BY <1>2, DifferenceIsBatch
<1> HIDE DEF w
<1>5. /\ job'[c] = w /\ point'[c] \in {"none", "take"} /\ (point'[c] = "none" <=> w = NoBatch)
      /\ \A d \in Catalog \ {c} : job'[d] = job[d] /\ point'[d] = point[d]
  BY <1>1, <1>2 DEF w
<1>6. Within'
  BY <1>2, <1>5, WithinOthers DEF EntryPoint
<1>7. work' = [work EXCEPT ![c] = w]
  <2>1. work' = [work EXCEPT ![c] = IF point'[c] \in WorkerPoint THEN job'[c] ELSE NoBatch]
    BY <1>5, WorkOfOne
  <2>2. (IF point'[c] \in WorkerPoint THEN job'[c] ELSE NoBatch) = w
    BY <1>5 DEF WorkerPoint
  <2> QED
    BY <2>1, <2>2
<1>8. work[c] = Shared!NoWork
  BY <1>2 DEF work, WorkerPoint, Shared!NoWork, NoBatch
<1>9. w \in Shared!Work
  BY <1>3 DEF Shared!Work, Batch
<1>10. Shared!DrawUp(c)
  BY <1>2, <1>3, <1>7, <1>8, <1>9 DEF Shared!DrawUp
<1> QED
  BY <1>6, <1>10 DEF Shares, Shared!Next

\* The worker goes past an entry, and may have recorded it.
LEMMA GoesPastShares ==
  ASSUME IInv, Within, NEW c \in Catalog, NEW u \in Items(job[c]), GoesPast(c, u),
         point[c] \in WorkerPoint, point' = [point EXCEPT ![c] = "take"],
         cached' = cached \/ (u \in Own[c] /\ cached' = cached \cup {u})
  PROVE  Shares
<1>1. TypeOK /\ job \in [Catalog -> Batch] /\ point \in [Catalog -> Point]
  BY DEF IInv, TypeOK
<1>2. u \in Uuid
  BY <1>1 DEF Items, Batch
<1>3. /\ at'[c] = 0 /\ \A d \in Catalog \ {c} : job'[d] = job[d] /\ at'[d] = at[d]
      /\ job' = [job EXCEPT ![c] = Without(@, u)]
  BY <1>1, <1>2, GoesPastKeeps DEF GoesPast
<1>4. point'[c] = "take" /\ \A d \in Catalog \ {c} : point'[d] = point[d]
  BY <1>1
<1>5. Within'
  BY <1>3, <1>4, WithinOthers DEF EntryPoint
<1>6. work[c] = job[c] /\ job'[c] = Shared!Without(work[c], u)
  BY <1>1, <1>3 DEF work, Without, Shared!Without
<1>7. work' = [work EXCEPT ![c] = Shared!Without(@, u)]
  <2>1. work' = [work EXCEPT ![c] = IF point'[c] \in WorkerPoint THEN job'[c] ELSE NoBatch]
    BY <1>3, <1>4, WorkOfOne
  <2>2. (IF point'[c] \in WorkerPoint THEN job'[c] ELSE NoBatch) = Shared!Without(work[c], u)
    BY <1>4, <1>6 DEF WorkerPoint
  <2> QED
    BY <2>1, <2>2
<1>8. u \in Shared!Items(work[c])
  BY <1>6 DEF Items, Shared!Items
<1>9. Shared!Skip(c, u) \/ Shared!Settle(c, u)
  BY <1>7, <1>8 DEF Shared!Skip, Shared!Settle
<1> QED
  BY <1>2, <1>5, <1>9 DEF Shares, Shared!Next

LEMMA TakeShares == ASSUME IInv, Within, NEW c \in Catalog, Take(c) PROVE Shares
<1>1. PICK u \in Items(job[c]) :
        \/ /\ at' = [at EXCEPT ![c] = u] /\ Moves(c, "take", "create") /\ job' = job
        \/ GoesPast(c, u) /\ Moves(c, "take", "take")
  BY DEF Take
<1>2. cached' = cached /\ point \in [Catalog -> Point] /\ at \in [Catalog -> Uuid \cup {0}]
  BY DEF Take, IInv, TypeOK
<1>3. CASE at' = [at EXCEPT ![c] = u] /\ Moves(c, "take", "create") /\ job' = job
  <2>1. /\ point[c] = "take" /\ point'[c] = "create" /\ at'[c] = u
        /\ \A d \in Catalog \ {c} : point'[d] = point[d] /\ at'[d] = at[d]
    BY <1>2, <1>3 DEF Moves
  <2>2. Within'
    BY <1>3, <2>1 DEF Within
  <2>3. work' = work
    BY <1>3, <2>1 DEF work, WorkerPoint
  <2> QED
    BY <1>2, <2>2, <2>3 DEF Shares
<1>4. CASE GoesPast(c, u) /\ Moves(c, "take", "take")
  BY <1>2, <1>4, GoesPastShares DEF Moves, WorkerPoint
<1> QED
  BY <1>1, <1>3, <1>4

LEMMA MarkShares == ASSUME IInv, Within, NEW c \in Catalog, Mark(c) PROVE Shares
<1>1. /\ point[c] = "mark" /\ point' = [point EXCEPT ![c] = "take"] /\ GoesPast(c, at[c])
      /\ cached' = cached \cup {at[c]} \/ cached' = cached
  BY DEF Mark, Moves
<1>2. at[c] \in Items(job[c]) /\ at[c] \in Own[c]
  BY <1>1 DEF IInv, Known, Within, EntryPoint
<1> QED
  BY <1>1, <1>2, GoesPastShares DEF WorkerPoint

LEMMA LoopEndsShares == ASSUME IInv, Within, NEW c \in Catalog, LoopEnds(c) PROVE Shares
<1>1. /\ job' = [job EXCEPT ![c] = NoBatch] /\ at' = [at EXCEPT ![c] = 0] /\ cached' = cached
      /\ point' = [point EXCEPT ![c] = "exited"]
      /\ job \in [Catalog -> Batch] /\ at \in [Catalog -> Uuid \cup {0}] /\ point \in [Catalog -> Point]
  BY DEF LoopEnds, Moves, IInv, TypeOK
<1>2. /\ point'[c] = "exited"
      /\ \A d \in Catalog \ {c} : job'[d] = job[d] /\ point'[d] = point[d] /\ at'[d] = at[d]
  BY <1>1
<1>3. Within'
  BY <1>2, WithinOthers DEF EntryPoint
<1>4. work' = [work EXCEPT ![c] = NoBatch]
  BY <1>2, WorkOfOne DEF WorkerPoint
<1>5. Shared!Abandon(c)
  BY <1>1, <1>4 DEF Shared!Abandon, Shared!NoWork, NoBatch
<1> QED
  BY <1>3, <1>5 DEF Shares, Shared!Next

\* The steps around a request change neither the batch nor the cache.
LEMMA RequestShares ==
  ASSUME IInv, Within, NEW c \in Catalog,
         CreateRequest(c) \/ NoDestination(c) \/ Transfer(c) \/ FreeRequest(c)
  PROVE  Shares
<1>1. /\ UNCHANGED <<cached, job, at>> /\ point \in [Catalog -> Point]
  BY DEF CreateRequest, NoDestination, Transfer, FreeRequest, RequestUnchanged, IInv, TypeOK
<1>2. PICK from, to \in EntryPoint : Moves(c, from, to)
  BY DEF CreateRequest, NoDestination, Transfer, FreeRequest, EntryPoint
<1>3. \A d \in Catalog : point'[d] = point[d] \/ (point[d] \in EntryPoint /\ point'[d] \in EntryPoint)
  BY <1>1, <1>2 DEF Moves
<1>4. \A d \in Catalog : /\ point'[d] \in WorkerPoint <=> point[d] \in WorkerPoint
                         /\ point'[d] \in EntryPoint => point[d] \in EntryPoint
  BY <1>3 DEF EntryPoint, WorkerPoint
<1> QED
  BY <1>1, <1>4, Quiet

LEMMA WatcherShares ==
  ASSUME IInv, Within, NEW c \in Catalog,
         FirstScan(c) \/ ScanAgain(c) \/ ScanFails(c) \/ Notice(c)
  PROVE  Shares
<1>1. CASE FirstScan(c) \/ ScanAgain(c)
  BY <1>1, ProcessChangesShares DEF FirstScan, ScanAgain
<1>2. CASE ScanFails(c)
  <2>1. /\ UNCHANGED <<cached, job, at>> /\ point[c] = "scan"
        /\ \E to \in {"off", "none"} : point' = [point EXCEPT ![c] = to]
    BY <1>2 DEF ScanFails
  <2> QED
    BY <2>1, IdlePlaces
<1>3. CASE Notice(c)
  <2>1. /\ UNCHANGED <<cached, job, at>> /\ point[c] = "exited"
        /\ point' = [point EXCEPT ![c] = "scan"]
    BY <1>3 DEF Notice
  <2> QED
    BY <2>1, IdlePlaces
<1> QED
  BY <1>1, <1>2, <1>3

LEMMA DeleteShares ==
  ASSUME IInv, Within, BeginOpens \/ Join \/ Deleted
  PROVE  Shares
<1>1. UNCHANGED <<cached, job, at>>
  BY DEF BeginOpens, Join, Deleted, DeleteUnchanged
<1>2. \E c : /\ point[c] \in {"off", "none", "exited"}
             /\ \E to \in {"off", "none", "scan"} : point' = [point EXCEPT ![c] = to]
  BY DEF BeginOpens, Join, Deleted, Moves
<1> QED
  BY <1>1, <1>2, IdlePlaces

LEMMA StepShares == ASSUME IInv, Within, [Next]_vars PROVE Shares
<1>1. CASE \/ Client \/ Scan \/ ScanReturns \/ BeginFails \/ AllBegun \/ Leave \/ Delete \/ AllDeleted
           \/ UNCHANGED vars
  <2>1. UNCHANGED <<cached, job, at, point>>
    BY <1>1
       DEF Client, Initialise, LoadProfiles, StartScan, TearDown, ClientUnchanged, ScanUnchanged,
           Scan, ScanReturns, BeginFails, AllBegun, Leave, Delete, AllDeleted, DeleteUnchanged,
           workerVars, vars
  <2> QED
    BY <2>1, SamePlaces
<1>2. CASE Exit \/ Crash \/ Restart \/ DeletedRunning
  BY <1>2, AfreshShares DEF Exit, Crash, Restart, DeletedRunning
<1>3. CASE Main
  BY <1>1, <1>2, <1>3, DeleteShares, WatcherShares DEF Main, NothingToWaitFor
<1>4. ASSUME NEW c \in Catalog, Threads(c) \/ Notice(c) PROVE Shares
  BY <1>4, TakeShares, LoopEndsShares, RequestShares, MarkShares, WatcherShares DEF Threads, Worker
<1> QED
  BY <1>1, <1>2, <1>3, <1>4 DEF Next, Signal

-----------------------------------------------------------------------------
(* What is proved.                                                          *)

\* Every variable of the program keeps its type.
THEOREM ProgramTypeCorrect == Spec => []TypeOK
<1>1. IInv => TypeOK
  BY DEF IInv
<1> QED
  BY <1>1, Invariance, PTL

\* In whatever order the directory is read, no pair has a half of another, and none
\* lacks a half that is there.
THEOREM ProgramPairsFiles == Spec => []HalvesBelongTogether
<1>1. IInv => HalvesBelongTogether
  BY DEF IInv, ScannerInv
<1> QED
  BY <1>1, Invariance, PTL

\* For any directory and any shape of the tree: what the set keeps is in order, and it
\* drops a pair only for one that it clashes with.
THEOREM ProgramDropsOnlyClashes == Spec => []OnlyClashesAreLeftOut
<1>1. IInv => OnlyClashesAreLeftOut
  BY DEF IInv, ScannerInv
<1> QED
  BY <1>1, Invariance, PTL

\* However many synchronizers share the cache, a preview that it holds is left on a batch
\* only if the scan found the cache busy and missed it, or if another catalog holds it too.
THEOREM ProgramPutsAgainOnlyOnOverlapOrMiss == Spec => []PutAgainOnlyOnOverlapOrMiss
<1>1. IInv => PutAgainOnlyOnOverlapOrMiss
  BY DEF IInv
<1> QED
  BY <1>1, Invariance, PTL

\* No synchronizer requests or records a preview of a foreign catalog.
THEOREM ProgramLeavesForeignPreviews == Spec => []ForeignPreviewsStay
<1>1. IInv => ForeignPreviewsStay
  BY DEF IInv, Known, ForeignPreviewsStay, Holds
<1> QED
  BY <1>1, Invariance, PTL

\* With one synchronizer the registry is exact, through every cancelled or failed
\* request and every restart.
THEOREM ProgramRegistryIsExact == Spec => []RegistryIsExact
<1>1. IInv => RegistryIsExact
  BY DEF IInv
<1> QED
  BY <1>1, Invariance, PTL

\* However many synchronizers there are, each is joined before the destinations go.
THEOREM ProgramRequestsEndFirst == Spec => []RequestsEndBeforeTheirDestination
<1>1. IInv => RequestsEndBeforeTheirDestination
  BY DEF IInv
<1> QED
  BY <1>1, Invariance, PTL

\* What a file gives the registry is what it describes, whatever is wrong with the
\* rest of it (ProfilesAreLoaded).
THEOREM ProgramProfilesAreLoaded == Spec => []ProfilesAreLoaded
<1>1. ProfilesAreLoaded
  BY AcceptedIsDescribed, ProgramAssumption DEF ProfilesAreLoaded, ProgramAssumption
<1> QED
  BY <1>1, PTL

\* Each deletion of main finds what it waits for, and no scan of the watcher takes back
\* that its worker is to stop, for any number of synchronizers.
THEOREM ProgramDeletionsFindTheirThread == Spec => []NoDeletionWaitsInVain
<1>1. Init => Deleting
  BY DEF Init, Deleting, NoDeletionWaitsInVain
<1>2. IInv /\ Deleting /\ [Next]_vars => Deleting'
  BY DeletionsHold
<1>3. Deleting => NoDeletionWaitsInVain
  BY DEF Deleting
<1> QED
  BY <1>1, <1>2, <1>3, Invariance, PTL DEF Spec

\* Any number of synchronizers over one cache keep the promise of SharedSync, whatever
\* main, the client and the operating system do to them, and however often the cache is
\* busy when they read it.
THEOREM ProgramImplementsSharedSync == Spec => ImplementsSharedSync
<1>1. Init => Within /\ Shared!Init
  BY DEF Init, Within, EntryPoint, Everywhere, Shared!Init, Shared!Idle, Shared!NoWork, work,
         WorkerPoint, NoBatch
<1>2. IInv /\ Within /\ [Next]_vars => Within' /\ [Shared!Next]_(Shared!vars)
  BY StepShares DEF Shares, Shared!vars
<1> QED
  BY <1>1, <1>2, Invariance, PTL DEF Spec, Shared!Spec, ImplementsSharedSync

\* What SharedSync promises is enough to keep the synchronizers apart: whoever keeps to it,
\* two of them get in each other's way only over a preview that both catalogs hold, and one
\* repeats its own work only where its reading of the cache missed it.
THEOREM SharedSyncKeepsApart == Shared!Spec => []Shared!CollisionsNeedOverlap
<1> DEFINE Typed == work \in [Catalog -> Shared!Work]
           Inv == Typed /\ Shared!CollisionsNeedOverlap
<1>1. Shared!Init => Inv
  BY DEF Shared!Init, Shared!Idle, Shared!NoWork, Shared!Work, Shared!CollisionsNeedOverlap
<1>2. ASSUME Inv, [Shared!Next]_(Shared!vars) PROVE Inv'
  <2>1. ASSUME NEW c \in Catalog, NEW w \in Shared!Work, work' = [work EXCEPT ![c] = w],
               cached' = cached, w.remove \subseteq cached,
               \A v \in w.add \cap cached :
                 v \in w.missed \/ (v \in work[c].add /\ v \notin work[c].missed)
        PROVE  Inv'
    BY <1>2, <2>1 DEF Shared!CollisionsNeedOverlap
  <2>2. Shared!NoWork \in Shared!Work /\ Shared!NoWork.add = {} /\ Shared!NoWork.remove = {}
    BY DEF Shared!NoWork, Shared!Work
  <2>3. ASSUME NEW c \in Catalog, Shared!DrawUp(c) PROVE Inv'
    BY <2>1, <2>3 DEF Shared!DrawUp
  <2>4. ASSUME NEW c \in Catalog, Shared!Abandon(c) PROVE Inv'
    BY <2>1, <2>2, <2>4 DEF Shared!Abandon
  <2>5. ASSUME NEW c \in Catalog, NEW u \in Uuid
        PROVE  LET w == Shared!Without(work[c], u) IN
                 /\ w \in Shared!Work /\ w.add = work[c].add \ {u} /\ w.remove = work[c].remove \ {u}
                 /\ w.missed = work[c].missed \ {u}
                 /\ work[c].remove \subseteq cached
    BY <1>2 DEF Shared!Without, Shared!Work, Shared!CollisionsNeedOverlap
  <2>6. ASSUME NEW c \in Catalog, NEW u \in Uuid, Shared!Skip(c, u) PROVE Inv'
    <3> DEFINE w == Shared!Without(work[c], u)
    <3>1. work' = [work EXCEPT ![c] = w] /\ cached' = cached
      BY <2>6 DEF Shared!Skip
    <3>2. /\ w \in Shared!Work /\ w.add = work[c].add \ {u} /\ w.missed = work[c].missed \ {u}
          /\ w.remove \subseteq cached
      BY <2>5
    <3> HIDE DEF w
    <3>3. \A v \in w.add : v \in w.missed \/ (v \in work[c].add /\ v \notin work[c].missed)
      BY <3>2
    <3> QED
      BY <2>1, <3>1, <3>2, <3>3
  <2>7. ASSUME NEW c \in Catalog, NEW u \in Uuid, Shared!Settle(c, u) PROVE Inv'
    <3>1. /\ u \in Own[c] /\ cached' = cached \cup {u}
          /\ work' = [work EXCEPT ![c] = Shared!Without(work[c], u)]
      BY <2>7 DEF Shared!Settle
    <3>2. /\ Typed' /\ work'[c].add = work[c].add \ {u} /\ work'[c].remove \subseteq cached
          /\ work'[c].missed = work[c].missed \ {u}
          /\ \A d \in Catalog \ {c} : work'[d] = work[d]
      BY <1>2, <2>5, <3>1
    <3>3. ASSUME NEW d \in Catalog, NEW v \in work'[d].add \cap cached'
          PROVE  v \in work'[d].missed \/ \E e \in Catalog \ {d} : v \in Own[e]
      <4>1. CASE v \in work[d].add \cap cached
        BY <1>2, <3>2, <3>3, <4>1 DEF Shared!CollisionsNeedOverlap
      <4>2. CASE v = u /\ d # c
        BY <3>1, <4>2
      <4> QED
        BY <3>1, <3>2, <3>3, <4>1, <4>2
    <3>4. \A d \in Catalog : work'[d].remove \subseteq cached'
      BY <1>2, <3>1, <3>2 DEF Shared!CollisionsNeedOverlap
    <3> QED
      BY <3>2, <3>3, <3>4 DEF Shared!CollisionsNeedOverlap
  <2>8. CASE Shared!AbandonAll
    BY <2>2, <2>8 DEF Shared!AbandonAll, Shared!Idle, Shared!CollisionsNeedOverlap
  <2>9. CASE UNCHANGED Shared!vars
    BY <1>2, <2>9 DEF Shared!vars, Shared!CollisionsNeedOverlap
  <2> QED
    BY <1>2, <2>3, <2>4, <2>6, <2>7, <2>8, <2>9 DEF Shared!Next
<1> QED
  BY <1>1, <1>2, PTL DEF Shared!Spec
=============================================================================
