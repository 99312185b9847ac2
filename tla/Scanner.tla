------------------------------ MODULE Scanner ------------------------------
(***************************************************************************)
(* lib::Scanner (src/src/scanner.cpp): the entries of a directory, read in  *)
(* any order, are paired by name in a std::map, and the pairs are copied to *)
(* a std::set whose order (LightroomFilePair::operator<) is not a strict    *)
(* weak one.  A name is a sequence of tokens, numbered in the order of      *)
(* their characters, none of which begins with another: names compare like  *)
(* the strings they stand for.                                              *)
(***************************************************************************)
EXTENDS Naturals, Sequences, SequencesExt

CONSTANTS Entry,      \* the names an entry of the directory may have
          Lrcat, Lrdat, Database, Previews  \* the tokens the code looks for

ScannerAssumption ==
  /\ Entry \subseteq Seq(Nat)
  /\ {Lrcat, Lrdat, Database, Previews} \subseteq Nat

VARIABLES dir,        \* the entries of the directory being scanned
          unread,     \* those readdir() has not returned
          pairs,      \* the local map, from names to pairs
          copied,     \* the names whose pair has been copied
          filePairs   \* _filePairs, in the order of its iterators

scannerVars == <<dir, unread, pairs, copied, filePairs>>

NoFile == <<>>
NoPair == [catalog |-> NoFile, previews |-> NoFile]

-----------------------------------------------------------------------------
(* The order of strings and of pairs.                                       *)

Before(s, t) ==
  \E n \in 0 .. Len(s) :
    /\ n < Len(t) /\ \A i \in 1 .. n : s[i] = t[i]
    /\ n = Len(s) \/ s[n + 1] < t[n + 1]

Precedes(p, q) == Before(p.catalog, q.catalog) /\ Before(p.previews, q.previews)

\* Neither is before the other: to the set they are the same pair.
Clash(p, q) == ~Precedes(p, q) /\ ~Precedes(q, p)

-----------------------------------------------------------------------------
(* The name and the kind of an entry.                                       *)

Has(e, token) == token \in ToSet(e)

Kind(e) == IF Has(e, Lrcat) THEN "catalog" ELSE IF Has(e, Lrdat) THEN "previews" ELSE "unknown"

Extension(e) == IF Kind(e) = "catalog" THEN Lrcat ELSE Lrdat

Stem(e) == SubSeq(e, 1, SelectInSeq(e, LAMBDA token : token = Extension(e)) - 1)

\* What is before the last "Previews", and the character between them; a name that
\* begins with it stays, as the length wraps around.
Name(e) == LET at == SelectLastInSeq(Stem(e), LAMBDA token : token = Previews)
           IN  IF at <= 1 THEN Stem(e) ELSE SubSeq(Stem(e), 1, at - 2)

Path(e) == IF Kind(e) = "catalog" THEN e ELSE Append(e, Database)

-----------------------------------------------------------------------------
(* scanForLightroomFilesAtPath.                                             *)

ScannerIdle == dir = {} /\ unread = {} /\ pairs = <<>> /\ copied = {} /\ filePairs = <<>>

OpenDirectory(entries) ==
  /\ dir' = entries /\ unread' = entries
  /\ UNCHANGED <<pairs, copied, filePairs>>

\* (mutant) a name that is found again gets a new pair
PairedAnew(e) == [NoPair EXCEPT ![Kind(e)] = Path(e)]

\* The pair of e's name with its half replaced.
Paired(e) ==
  [(IF Name(e) \in DOMAIN pairs THEN pairs[Name(e)] ELSE NoPair) EXCEPT ![Kind(e)] = Path(e)]

ReadEntry(e) ==
  /\ e \in unread
  /\ unread' = unread \ {e}
  /\ pairs' = IF Kind(e) = "unknown" THEN pairs
              ELSE [name \in DOMAIN pairs \cup {Name(e)} |->
                      IF name = Name(e) THEN Paired(e) ELSE pairs[name]]
  /\ UNCHANGED <<dir, copied, filePairs>>

\* (mutant) the search does not look at the pair in front of the place it ends at
InsertedUnseen(p, n) == InsertAt(filePairs, n + 1, p)

\* std::set::insert, its search ended behind the n-th pair.
Inserted(p, n) ==
  IF n = 0 \/ Precedes(filePairs[n], p) THEN InsertAt(filePairs, n + 1, p) ELSE filePairs

\* Where the search for p can end, whatever the shape of the tree: it has compared p
\* with the two pairs around that place.
Ends(p) == {n \in 0 .. Len(filePairs) :
              /\ n # 0 => ~Precedes(p, filePairs[n])
              /\ n # Len(filePairs) => Precedes(p, filePairs[n + 1])}

CopyPair(name) ==
  /\ unread = {}
  /\ name \in DOMAIN pairs \ copied
  /\ \A other \in DOMAIN pairs \ copied : ~Before(other, name)
  /\ \E n \in Ends(pairs[name]) : filePairs' = Inserted(pairs[name], n)
  /\ copied' = copied \cup {name}
  /\ UNCHANGED <<dir, unread, pairs>>

\* The local map is gone; the result is pairs.size() > 0.
Return ==
  /\ unread = {} /\ copied = DOMAIN pairs
  /\ dir' = {} /\ pairs' = <<>> /\ copied' = {}
  /\ UNCHANGED <<unread, filePairs>>

-----------------------------------------------------------------------------
\* In whatever order the directory is read: the halves of a pair are entries of the
\* directory that have the pair's name, and a half is missing only if there is no
\* such entry (scanForLightroomFilesAtPath).
HalvesBelongTogether ==
  \A name \in DOMAIN pairs, kind \in {"catalog", "previews"} :
    LET found == {e \in dir \ unread : Kind(e) = kind /\ Name(e) = name}
    IN  IF found = {} THEN pairs[name][kind] = NoFile
                      ELSE \E e \in found : pairs[name][kind] = Path(e)

\* The pairs that are kept are in order in both halves, whatever the shape of the
\* tree, and a pair is left out only if one that is kept is neither before nor after
\* it; then its catalog is never synchronized (std::set over operator<).
OnlyClashesAreLeftOut ==
  /\ \A i, j \in 1 .. Len(filePairs) : i < j => Precedes(filePairs[i], filePairs[j])
  /\ \A name \in copied : \E i \in 1 .. Len(filePairs) :
       filePairs[i] = pairs[name] \/ Clash(filePairs[i], pairs[name])
=============================================================================
