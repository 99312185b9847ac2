--------------------------- MODULE ScannerProofs ---------------------------
(***************************************************************************)
(* Lemmas about Scanner: the order of pairs is transitive, so that what is  *)
(* kept of them is in order whatever the tree looks like, and no step of    *)
(* the scan mixes up the halves of a pair.  ProgramProofs puts them         *)
(* together.                                                                *)
(***************************************************************************)
EXTENDS Scanner, SequenceTheorems, TLAPS

Half == Seq(Nat)
Pair == [catalog : Half, previews : Half]

ScannerTypeOK ==
  /\ dir \subseteq Entry /\ unread \subseteq dir
  /\ \A name \in DOMAIN pairs : pairs[name] \in Pair
  /\ copied \subseteq DOMAIN pairs
  /\ filePairs \in Seq(Pair)

\* Every entry that was read and is of a known kind has a pair.
Named == \A e \in dir \ unread : Kind(e) # "unknown" => Name(e) \in DOMAIN pairs

\* Pairs are copied once the directory is read.
ReadFirst == unread # {} => copied = {}

ScannerInv == ScannerTypeOK /\ Named /\ ReadFirst /\ HalvesBelongTogether /\ OnlyClashesAreLeftOut

InOrder(s) == \A i, j \in 1 .. Len(s) : i < j => Precedes(s[i], s[j])

-----------------------------------------------------------------------------
(* The order.                                                               *)

LEMMA BeforeTransitive ==
  ASSUME NEW s \in Seq(Nat), NEW t \in Seq(Nat), NEW u \in Seq(Nat),
         Before(s, t), Before(t, u)
  PROVE  Before(s, u)
<1>1. PICK n \in 0 .. Len(s) : /\ n < Len(t) /\ \A i \in 1 .. n : s[i] = t[i]
                               /\ n = Len(s) \/ s[n + 1] < t[n + 1]
  BY DEF Before
<1>2. PICK m \in 0 .. Len(t) : /\ m < Len(u) /\ \A i \in 1 .. m : t[i] = u[i]
                               /\ m = Len(t) \/ t[m + 1] < u[m + 1]
  BY DEF Before
<1>3. CASE n < m
  <2>1. n < Len(u) /\ \A i \in 1 .. n : s[i] = u[i]
    BY <1>1, <1>2, <1>3
  <2>2. n = Len(s) \/ s[n + 1] < u[n + 1]
    BY <1>1, <1>2, <1>3
  <2> QED
    BY <2>1, <2>2 DEF Before
<1>4. CASE n = m
  <2>1. n < Len(u) /\ \A i \in 1 .. n : s[i] = u[i]
    BY <1>1, <1>2, <1>4
  <2>2. ASSUME n # Len(s) PROVE s[n + 1] < u[n + 1]
    <3>1. s[n + 1] \in Nat /\ t[n + 1] \in Nat /\ u[n + 1] \in Nat
      BY <1>1, <1>2, <1>4, <2>2
    <3> QED
      BY <1>1, <1>2, <1>4, <2>2, <3>1
  <2> QED
    BY <2>1, <2>2 DEF Before
<1>5. CASE m < n
  <2>1. m \in 0 .. Len(s) /\ m < Len(u) /\ \A i \in 1 .. m : s[i] = u[i]
    BY <1>1, <1>2, <1>5
  <2>2. s[m + 1] < u[m + 1]
    BY <1>1, <1>2, <1>5
  <2> QED
    BY <2>1, <2>2 DEF Before
<1> QED
  BY <1>3, <1>4, <1>5

LEMMA PrecedesTransitive ==
  ASSUME NEW p \in Pair, NEW q \in Pair, NEW r \in Pair, Precedes(p, q), Precedes(q, r)
  PROVE  Precedes(p, r)
<1>1. /\ p.catalog \in Seq(Nat) /\ q.catalog \in Seq(Nat) /\ r.catalog \in Seq(Nat)
      /\ p.previews \in Seq(Nat) /\ q.previews \in Seq(Nat) /\ r.previews \in Seq(Nat)
  BY DEF Pair, Half
<1>2. Before(p.catalog, r.catalog)
  BY <1>1, BeforeTransitive DEF Precedes
<1>3. Before(p.previews, r.previews)
  BY <1>1, BeforeTransitive DEF Precedes
<1> QED
  BY <1>2, <1>3 DEF Precedes

\* t is s with p behind its n-th element.
HasBehind(t, s, n, p) ==
  /\ Len(t) = Len(s) + 1
  /\ \A k \in 1 .. Len(s) + 1 :
       t[k] = IF k <= n THEN s[k] ELSE IF k = n + 1 THEN p ELSE s[k - 1]

Keeps(t, s) == \A i \in 1 .. Len(s) : \E j \in 1 .. Len(t) : t[j] = s[i]

LEMMA InsertAtShifts ==
  ASSUME NEW S, NEW s \in Seq(S), NEW p \in S, NEW n \in 0 .. Len(s)
  PROVE  /\ InsertAt(s, n + 1, p) \in Seq(S)
         /\ HasBehind(InsertAt(s, n + 1, p), s, n, p)
<1> DEFINE front == SubSeq(s, 1, n)
           back  == SubSeq(s, n + 1, Len(s))
<1>1. front \in Seq(S) /\ Len(front) = n /\ \A k \in 1 .. n : front[k] = s[k]
  OBVIOUS
<1>2. /\ back \in Seq(S) /\ Len(back) = Len(s) - n
      /\ \A k \in 1 .. Len(s) - n : back[k] = s[n + k]
  OBVIOUS
<1>3. <<p>> \in Seq(S) /\ Len(<<p>>) = 1 /\ <<p>>[1] = p
  OBVIOUS
<1>4. InsertAt(s, n + 1, p) = (front \o <<p>>) \o back
  <2>1. (n + 1) - 1 = n
    OBVIOUS
  <2> QED
    BY <2>1 DEF InsertAt
<1> HIDE DEF front, back
<1>5. /\ front \o <<p>> \in Seq(S) /\ Len(front \o <<p>>) = n + 1
      /\ \A k \in 1 .. n + 1 : (front \o <<p>>)[k] = IF k <= n THEN s[k] ELSE p
  BY <1>1, <1>3
<1> DEFINE most == front \o <<p>>
<1> HIDE DEF most
<1>6. InsertAt(s, n + 1, p) = most \o back
  BY <1>4 DEF most
<1>7. /\ most \in Seq(S) /\ Len(most) = n + 1
      /\ \A k \in 1 .. n + 1 : most[k] = IF k <= n THEN s[k] ELSE p
  BY <1>5 DEF most
<1>8. most \o back \in Seq(S) /\ Len(most \o back) = Len(s) + 1
  BY <1>2, <1>7
<1>9. ASSUME NEW k \in 1 .. Len(s) + 1
      PROVE  (most \o back)[k] = IF k <= n THEN s[k] ELSE IF k = n + 1 THEN p ELSE s[k - 1]
  <2>1. CASE k <= n + 1
    BY <1>2, <1>7, <2>1
  <2>2. CASE k > n + 1
    <3>1. (most \o back)[k] = back[k - (n + 1)]
      BY <1>2, <1>7, <2>2
    <3>2. k - (n + 1) \in 1 .. Len(s) - n /\ n + (k - (n + 1)) = k - 1
      BY <2>2
    <3> QED
      BY <1>2, <2>2, <3>1, <3>2
  <2>3. k <= n + 1 \/ k > n + 1
    OBVIOUS
  <2> QED
    BY <2>1, <2>2, <2>3, Zenon
<1>10. HasBehind(most \o back, s, n, p)
  BY <1>8, <1>9 DEF HasBehind
<1> QED
  BY <1>6, <1>8, <1>10

LEMMA InsertAtKeepsMembers ==
  ASSUME NEW s \in Seq(Pair), NEW p \in Pair, NEW n \in 0 .. Len(s),
         NEW t \in Seq(Pair), HasBehind(t, s, n, p)
  PROVE  Keeps(t, s) /\ \E j \in 1 .. Len(t) : t[j] = p
<1>1. /\ t \in Seq(Pair) /\ Len(t) = Len(s) + 1
      /\ \A k \in 1 .. Len(s) + 1 :
           t[k] = IF k <= n THEN s[k] ELSE IF k = n + 1 THEN p ELSE s[k - 1]
  BY DEF HasBehind
<1>2. ASSUME NEW i \in 1 .. Len(s) PROVE \E j \in 1 .. Len(t) : t[j] = s[i]
  <2>1. CASE i <= n
    <3>1. i \in 1 .. Len(t) /\ t[i] = s[i]
      BY <1>1, <2>1
    <3> QED
      BY <3>1
  <2>2. CASE i > n
    <3>1. i + 1 \in 1 .. Len(t) /\ t[i + 1] = s[i]
      BY <1>1, <2>2
    <3> QED
      BY <3>1
  <2> QED
    BY <2>1, <2>2
<1>3. n + 1 \in 1 .. Len(t) /\ t[n + 1] = p
  BY <1>1
<1> QED
  BY <1>2, <1>3 DEF Keeps

LEMMA InsertAtKeepsOrder ==
  ASSUME NEW s \in Seq(Pair), InOrder(s), NEW p \in Pair, NEW n \in 0 .. Len(s),
         n # 0 => Precedes(s[n], p), n # Len(s) => Precedes(p, s[n + 1]),
         NEW t \in Seq(Pair), HasBehind(t, s, n, p)
  PROVE  InOrder(t)
<1>1. /\ t \in Seq(Pair) /\ Len(t) = Len(s) + 1
      /\ \A k \in 1 .. Len(s) + 1 :
           t[k] = IF k <= n THEN s[k] ELSE IF k = n + 1 THEN p ELSE s[k - 1]
  BY DEF HasBehind
<1>2. ASSUME NEW i \in 1 .. n PROVE Precedes(s[i], p)
  <2>1. s[i] \in Pair /\ s[n] \in Pair /\ Precedes(s[n], p)
    OBVIOUS
  <2>2. i = n \/ Precedes(s[i], s[n])
    BY DEF InOrder
  <2> QED
    BY <2>1, <2>2, PrecedesTransitive
<1>3. ASSUME NEW j \in n + 1 .. Len(s) PROVE Precedes(p, s[j])
  <2>1. s[j] \in Pair /\ s[n + 1] \in Pair /\ Precedes(p, s[n + 1])
    OBVIOUS
  <2>2. j = n + 1 \/ Precedes(s[n + 1], s[j])
    BY DEF InOrder
  <2> QED
    BY <2>1, <2>2, PrecedesTransitive
<1>4. ASSUME NEW i \in 1 .. Len(s) + 1, NEW j \in 1 .. Len(s) + 1, i < j
      PROVE  Precedes(t[i], t[j])
  <2>1. CASE j <= n
    <3>1. t[i] = s[i] /\ t[j] = s[j] /\ i \in 1 .. Len(s) /\ j \in 1 .. Len(s)
      BY <1>1, <1>4, <2>1
    <3> QED
      BY <1>4, <3>1 DEF InOrder
  <2>2. CASE j = n + 1
    BY <1>1, <1>2, <1>4, <2>2
  <2>3. CASE j > n + 1 /\ i <= n
    <3>1. t[i] = s[i] /\ t[j] = s[j - 1] /\ i < j - 1 /\ j - 1 \in 1 .. Len(s)
      BY <1>1, <2>3
    <3> QED
      BY <3>1 DEF InOrder
  <2>4. CASE j > n + 1 /\ i = n + 1
    <3>1. t[i] = p /\ t[j] = s[j - 1] /\ j - 1 \in n + 1 .. Len(s)
      BY <1>1, <2>4
    <3> QED
      BY <1>3, <3>1
  <2>5. CASE i > n + 1
    <3>1. t[i] = s[i - 1] /\ t[j] = s[j - 1]
      BY <1>1, <1>4, <2>5
    <3>2. i - 1 \in 1 .. Len(s) /\ j - 1 \in 1 .. Len(s) /\ i - 1 < j - 1
      BY <1>4, <2>5
    <3> QED
      BY <3>1, <3>2 DEF InOrder
  <2> QED
    BY <2>1, <2>2, <2>3, <2>4, <2>5
<1> QED
  BY <1>1, <1>4 DEF InOrder

-----------------------------------------------------------------------------
(* The halves.                                                              *)

LEMMA PathIsHalf == ASSUME ScannerAssumption, NEW e \in Entry PROVE Path(e) \in Half
<1>1. e \in Seq(Nat) /\ Database \in Nat
  BY DEF ScannerAssumption
<1>2. Append(e, Database) \in Seq(Nat)
  BY <1>1
<1> QED
  BY <1>1, <1>2 DEF Path, Half

LEMMA KindIsKnown ==
  ASSUME NEW e, Kind(e) # "unknown" PROVE Kind(e) \in {"catalog", "previews"}
  BY DEF Kind

LEMMA NoPairIsPair == NoPair \in Pair /\ \A kind \in {"catalog", "previews"} : NoPair[kind] = NoFile
<1>1. <<>> \in Seq(Nat)
  OBVIOUS
<1> QED
  BY <1>1 DEF NoPair, NoFile, Pair, Half

\* Only the half of the entry's kind is replaced.
LEMMA PairedReplacesOneHalf ==
  ASSUME ScannerAssumption, NEW e \in Entry, Kind(e) # "unknown",
         \A name \in DOMAIN pairs : pairs[name] \in Pair
  PROVE  /\ Paired(e) \in Pair
         /\ \A kind \in {"catalog", "previews"} :
              Paired(e)[kind] = IF kind = Kind(e) THEN Path(e)
                                ELSE IF Name(e) \in DOMAIN pairs THEN pairs[Name(e)][kind] ELSE NoFile
<1> DEFINE old == IF Name(e) \in DOMAIN pairs THEN pairs[Name(e)] ELSE NoPair
<1>1. old \in Pair /\ \A kind \in {"catalog", "previews"} :
        old[kind] = IF Name(e) \in DOMAIN pairs THEN pairs[Name(e)][kind] ELSE NoFile
  BY NoPairIsPair
<1>2. Paired(e) = [old EXCEPT ![Kind(e)] = Path(e)]
  BY DEF Paired
<1>3. Path(e) \in Half /\ Kind(e) \in {"catalog", "previews"}
  BY PathIsHalf, KindIsKnown
<1> HIDE DEF old
<1> QED
  BY <1>1, <1>2, <1>3 DEF Pair

LEMMA ReadEntryKeeps ==
  ASSUME ScannerAssumption, ScannerInv, NEW e \in unread, ReadEntry(e)
  PROVE  ScannerInv'
<1> USE DEF ScannerInv
<1>1. e \in Entry /\ e \in dir /\ copied = {}
  BY DEF ScannerTypeOK, ReadFirst
<1>2. /\ dir' = dir /\ unread' = unread \ {e} /\ copied' = copied /\ filePairs' = filePairs
      /\ dir' \ unread' = (dir \ unread) \cup {e}
  BY <1>1 DEF ReadEntry
<1>3. OnlyClashesAreLeftOut' /\ ReadFirst'
  BY <1>1, <1>2 DEF OnlyClashesAreLeftOut, ReadFirst
<1>4. CASE Kind(e) = "unknown"
  <2>1. pairs' = pairs
    BY <1>4 DEF ReadEntry
  <2>2. ScannerTypeOK' /\ Named'
    BY <1>2, <1>4, <2>1 DEF ScannerTypeOK, Named
  <2>3. ASSUME NEW name, NEW kind \in {"catalog", "previews"}
        PROVE  {f \in dir' \ unread' : Kind(f) = kind /\ Name(f) = name}
                 = {f \in dir \ unread : Kind(f) = kind /\ Name(f) = name}
    BY <1>2, <1>4
  <2>4. HalvesBelongTogether'
    BY <2>1, <2>3 DEF HalvesBelongTogether
  <2> QED
    BY <1>3, <2>2, <2>4
<1>5. CASE Kind(e) # "unknown"
  <2>1. pairs' = [name \in DOMAIN pairs \cup {Name(e)} |->
                    IF name = Name(e) THEN Paired(e) ELSE pairs[name]]
    BY <1>5 DEF ReadEntry
  <2>2. /\ Paired(e) \in Pair
        /\ \A kind \in {"catalog", "previews"} :
             Paired(e)[kind] = IF kind = Kind(e) THEN Path(e)
                               ELSE IF Name(e) \in DOMAIN pairs THEN pairs[Name(e)][kind] ELSE NoFile
    BY <1>1, <1>5, PairedReplacesOneHalf DEF ScannerTypeOK
  <2>3. DOMAIN pairs' = DOMAIN pairs \cup {Name(e)}
    BY <2>1
  <2>4. ScannerTypeOK'
    <3>1. \A name \in DOMAIN pairs' : pairs'[name] \in Pair
      BY <2>1, <2>2 DEF ScannerTypeOK
    <3> QED
      BY <1>2, <2>3, <3>1 DEF ScannerTypeOK
  <2>5. Named'
    BY <1>2, <2>3 DEF Named
  <2>6. ASSUME NEW name \in DOMAIN pairs', NEW kind \in {"catalog", "previews"}
        PROVE  LET found == {f \in dir' \ unread' : Kind(f) = kind /\ Name(f) = name}
               IN  IF found = {} THEN pairs'[name][kind] = NoFile
                                 ELSE \E f \in found : pairs'[name][kind] = Path(f)
    <3> DEFINE found == {f \in dir \ unread : Kind(f) = kind /\ Name(f) = name}
               now   == {f \in dir' \ unread' : Kind(f) = kind /\ Name(f) = name}
    <3>1. name \in DOMAIN pairs => IF found = {} THEN pairs[name][kind] = NoFile
                                   ELSE \E f \in found : pairs[name][kind] = Path(f)
      BY DEF HalvesBelongTogether
    <3>2. CASE name # Name(e)
      <4>1. now = found
        BY <1>2, <3>2
      <4>2. name \in DOMAIN pairs /\ pairs'[name] = pairs[name]
        BY <2>1, <2>3, <3>2
      <4> QED
        BY <3>1, <4>1, <4>2
    <3>3. CASE name = Name(e) /\ kind = Kind(e)
      <4>1. e \in now
        BY <1>2, <3>3
      <4>2. pairs'[name][kind] = Path(e)
        BY <2>1, <2>2, <3>3
      <4> QED
        BY <4>1, <4>2
    <3>4. CASE name = Name(e) /\ kind # Kind(e)
      <4>1. now = found
        BY <1>2, <3>4
      <4>2. pairs'[name][kind] = IF name \in DOMAIN pairs THEN pairs[name][kind] ELSE NoFile
        BY <2>1, <2>2, <3>4
      <4>3. name \notin DOMAIN pairs => found = {}
        BY DEF Named
      <4> QED
        BY <3>1, <4>1, <4>2, <4>3
    <3> QED
      BY <3>2, <3>3, <3>4
  <2>7. HalvesBelongTogether'
    BY <2>6 DEF HalvesBelongTogether
  <2> QED
    BY <1>3, <2>4, <2>5, <2>7
<1> QED
  BY <1>4, <1>5

-----------------------------------------------------------------------------
(* The other steps.                                                         *)

LEMMA InsertedKeeps ==
  ASSUME ScannerInv, NEW p \in Pair, NEW n \in Ends(p), filePairs' = Inserted(p, n)
  PROVE  /\ filePairs' \in Seq(Pair) /\ InOrder(filePairs')
         /\ Keeps(filePairs', filePairs)
         /\ \E j \in 1 .. Len(filePairs') : filePairs'[j] = p \/ Clash(filePairs'[j], p)
<1>1. /\ filePairs \in Seq(Pair) /\ InOrder(filePairs) /\ n \in 0 .. Len(filePairs)
      /\ n # 0 => ~Precedes(p, filePairs[n])
      /\ n # Len(filePairs) => Precedes(p, filePairs[n + 1])
  BY DEF ScannerInv, ScannerTypeOK, OnlyClashesAreLeftOut, InOrder, Ends
<1>2. CASE n = 0 \/ Precedes(filePairs[n], p)
  <2>1. filePairs' = InsertAt(filePairs, n + 1, p)
    BY <1>2 DEF Inserted
  <2>2. filePairs' \in Seq(Pair) /\ HasBehind(filePairs', filePairs, n, p)
    BY <1>1, <2>1, InsertAtShifts
  <2>3. InOrder(filePairs')
    BY <1>1, <1>2, <2>2, InsertAtKeepsOrder
  <2>4. Keeps(filePairs', filePairs) /\ \E j \in 1 .. Len(filePairs') : filePairs'[j] = p
    BY <1>1, <2>2, InsertAtKeepsMembers
  <2> QED
    BY <2>2, <2>3, <2>4
<1>3. CASE n # 0 /\ ~Precedes(filePairs[n], p)
  <2>1. filePairs' = filePairs
    BY <1>3 DEF Inserted
  <2>2. n \in 1 .. Len(filePairs) /\ Clash(filePairs[n], p)
    BY <1>1, <1>3 DEF Clash
  <2> QED
    BY <1>1, <2>1, <2>2 DEF Keeps
<1> QED
  BY <1>2, <1>3

LEMMA CopyPairKeeps ==
  ASSUME ScannerInv, NEW name \in DOMAIN pairs, CopyPair(name)
  PROVE  ScannerInv'
<1>1. /\ dir' = dir /\ unread' = unread /\ pairs' = pairs /\ copied' = copied \cup {name}
      /\ unread = {}
  BY DEF CopyPair
<1>2. pairs[name] \in Pair
  BY DEF ScannerInv, ScannerTypeOK
<1>3. PICK n \in Ends(pairs[name]) : filePairs' = Inserted(pairs[name], n)
  BY DEF CopyPair
<1>4. /\ filePairs' \in Seq(Pair) /\ InOrder(filePairs')
      /\ Keeps(filePairs', filePairs)
      /\ \E j \in 1 .. Len(filePairs') : filePairs'[j] = pairs[name] \/ Clash(filePairs'[j], pairs[name])
  BY <1>2, <1>3, InsertedKeeps
<1>5. ScannerTypeOK' /\ Named' /\ ReadFirst' /\ HalvesBelongTogether'
  <2>1. ScannerTypeOK'
    BY <1>1, <1>4 DEF ScannerInv, ScannerTypeOK
  <2>2. Named' /\ ReadFirst'
    BY <1>1 DEF ScannerInv, Named, ReadFirst
  <2>3. HalvesBelongTogether'
    <3>1. ASSUME NEW other, NEW kind
          PROVE  {f \in dir' \ unread' : Kind(f) = kind /\ Name(f) = other}
                   = {f \in dir \ unread : Kind(f) = kind /\ Name(f) = other}
      BY <1>1
    <3> QED
      BY <1>1, <3>1 DEF ScannerInv, HalvesBelongTogether
  <2> QED
    BY <2>1, <2>2, <2>3
<1>6. ASSUME NEW other \in copied'
      PROVE  \E j \in 1 .. Len(filePairs') :
               filePairs'[j] = pairs'[other] \/ Clash(filePairs'[j], pairs'[other])
  <2>1. CASE other = name
    BY <1>1, <1>4, <2>1
  <2>2. CASE other \in copied
    <3>1. PICK i \in 1 .. Len(filePairs) :
            filePairs[i] = pairs[other] \/ Clash(filePairs[i], pairs[other])
      BY <2>2 DEF ScannerInv, OnlyClashesAreLeftOut
    <3>2. PICK j \in 1 .. Len(filePairs') : filePairs'[j] = filePairs[i]
      BY <1>4 DEF Keeps
    <3> QED
      BY <1>1, <3>1, <3>2
  <2> QED
    BY <1>1, <2>1, <2>2
<1>7. OnlyClashesAreLeftOut'
  BY <1>4, <1>6 DEF OnlyClashesAreLeftOut, InOrder
<1> QED
  BY <1>5, <1>7 DEF ScannerInv

\* With nothing copied only the order of what is kept matters.
LEMMA OpenDirectoryKeeps ==
  ASSUME ScannerInv, ScannerIdle, NEW entries \in SUBSET Entry, OpenDirectory(entries)
  PROVE  ScannerInv'
  BY DEF ScannerInv, ScannerTypeOK, Named, ReadFirst, HalvesBelongTogether, OnlyClashesAreLeftOut,
         ScannerIdle, OpenDirectory

LEMMA ReturnKeeps == ASSUME ScannerInv, Return PROVE ScannerInv'
  BY DEF ScannerInv, ScannerTypeOK, Named, ReadFirst, HalvesBelongTogether, OnlyClashesAreLeftOut,
         Return

LEMMA ScannerRests == ASSUME ScannerInv, UNCHANGED scannerVars PROVE ScannerInv'
<1> USE DEF scannerVars
<1>1. ScannerTypeOK' /\ Named' /\ ReadFirst' /\ OnlyClashesAreLeftOut'
  BY DEF ScannerInv, ScannerTypeOK, Named, ReadFirst, OnlyClashesAreLeftOut
<1>2. ASSUME NEW name, NEW kind
      PROVE  {f \in dir' \ unread' : Kind(f) = kind /\ Name(f) = name}
               = {f \in dir \ unread : Kind(f) = kind /\ Name(f) = name}
  OBVIOUS
<1>3. HalvesBelongTogether'
  BY <1>2 DEF ScannerInv, HalvesBelongTogether
<1> QED
  BY <1>1, <1>3 DEF ScannerInv

LEMMA IdleScannerInv == ASSUME ScannerIdle PROVE ScannerInv
  BY DEF ScannerIdle, ScannerInv, ScannerTypeOK, Named, ReadFirst, HalvesBelongTogether,
         OnlyClashesAreLeftOut

\* main's iterator goes on over what is left of the pairs.
LEMMA NextPairKeeps ==
  ASSUME ScannerInv, copied = {}, filePairs # <<>>,
         filePairs' = Tail(filePairs), UNCHANGED <<dir, unread, pairs, copied>>
  PROVE  ScannerInv'
<1>1. /\ filePairs \in Seq(Pair)
      /\ \A i, j \in 1 .. Len(filePairs) : i < j => Precedes(filePairs[i], filePairs[j])
  BY DEF ScannerInv, ScannerTypeOK, OnlyClashesAreLeftOut
<1>2. /\ filePairs' \in Seq(Pair) /\ Len(filePairs') = Len(filePairs) - 1
      /\ \A i \in 1 .. Len(filePairs') : filePairs'[i] = filePairs[i + 1]
  BY <1>1
<1>3. ASSUME NEW i \in 1 .. Len(filePairs'), NEW j \in 1 .. Len(filePairs'), i < j
      PROVE  Precedes(filePairs'[i], filePairs'[j])
  <2>1. i + 1 \in 1 .. Len(filePairs) /\ j + 1 \in 1 .. Len(filePairs) /\ i + 1 < j + 1
    BY <1>1, <1>2, <1>3
  <2> QED
    BY <1>1, <1>2, <2>1
<1>4. OnlyClashesAreLeftOut'
  BY <1>3 DEF OnlyClashesAreLeftOut
<1> QED
  BY <1>2, <1>4 DEF ScannerInv, ScannerTypeOK, Named, ReadFirst, HalvesBelongTogether
=============================================================================
