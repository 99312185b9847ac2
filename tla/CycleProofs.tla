---------------------------- MODULE CycleProofs ----------------------------
(***************************************************************************)
(* Proofs about PreviewCycle, for any previews and versions, any order of   *)
(* the rows and every set of faults: the type invariant, that a scan finds  *)
(* the difference of the two databases as it reads them, that what was read *)
(* of the cache is not uploaded, and that the data path implements          *)
(* BatchSync.                                                               *)
(***************************************************************************)
EXTENDS PreviewCycle, TLAPS

-----------------------------------------------------------------------------
(* The inductive invariant.                                                 *)

\* The worker is at a preview of its batch.  Behind the first query the digest is a
\* version, behind the second there is an entry.
Looked ==
  /\ pc \in {"levels", "extract", "request", "mark"} => at \in Items
  /\ pc = "levels" => at \in Uuid /\ digest \in Version
  /\ pc \in {"extract", "request"} => at \in Uuid /\ entries[at] \in D!Entry
  /\ pc = "mark" => at \in Uuid

Present == {u \in Uuid : row[u] # 0}
Read    == Present \ unread

\* What the scan has read of the cache.
Seen    == marked \ todo.missed

\* The rows read so far, struck out in both directions.
Reading ==
  pc = "rows" =>
    unread \subseteq Present /\ todo.add = Read \ Seen /\ todo.remove = Seen \ Read

\* What is still to be put is not in the cache, unless the scan missed it there; what is
\* still to be deleted is in the cache.
Pending ==
  /\ todo.add \cap marked \subseteq todo.missed
  /\ todo.missed \subseteq marked /\ (todo.missed # {} => May("cache"))
  /\ todo.remove \subseteq marked

IInv == TypeOK /\ Looked /\ Reading /\ Pending

\* The types, member by member, as the steps need them.
LEMMA TypesInside ==
  ASSUME TypeOK
  PROVE  /\ row \in [Uuid -> Version \cup {0}]
         /\ entries \in [Uuid -> D!Entry \cup {D!NoEntry}]
         /\ unread \subseteq Uuid /\ digest \in Version \cup {0}
         /\ marked \subseteq Uuid
         /\ todo.add \subseteq Uuid /\ todo.remove \subseteq Uuid /\ todo.missed \subseteq Uuid
         /\ todo = [add |-> todo.add, remove |-> todo.remove, missed |-> todo.missed]
  BY DEF TypeOK, Actions, D!TypeOK, C!TypeOK

-----------------------------------------------------------------------------
(* The steps.                                                               *)

LEMMA InitIInv == ASSUME Init PROVE IInv
<1> USE DEF Init, D!Init, D!Constructed, C!Init, Nothing
<1>1. D!TypeOK /\ C!TypeOK
  BY DEF D!TypeOK, C!TypeOK
<1>2. TypeOK
  BY <1>1 DEF TypeOK, Actions, Point
<1> QED
  BY <1>2 DEF IInv, Looked, Reading, Pending, Items

\* Lightroom's variables, and what the databases keep, are free to change as long as
\* the synchronizer is between two previews.
LEMMA BetweenKeeps ==
  ASSUME TypeOK', Pending',
         pc' \notin {"rows", "levels", "extract", "request", "mark"}
  PROVE  IInv'
  BY DEF IInv, Looked, Reading, Pending, Items

LEMMA BeginKeeps == ASSUME IInv, Begin PROVE IInv'
<1>1. TypeOK'
  BY DEF IInv, TypeOK, D!TypeOK, C!TypeOK, Begin, Goto, D!Open, cacheVars, Point
<1>2. Pending' /\ pc' \in {"load", "idle"}
  BY DEF IInv, Pending, Begin, Goto, cacheVars
<1> QED
  BY <1>1, <1>2, BetweenKeeps

LEMMA LoadCacheKeeps == ASSUME IInv, LoadCache \/ CreateTable PROVE IInv'
<1> USE DEF LoadCache, CreateTable, Goto, C!LoadExisting, C!CreateFile, C!LoadFails,
            C!CreateTable, lightroomVars, databaseVars
<1>1. D!TypeOK'
  BY DEF IInv, TypeOK, D!TypeOK
<1>2. C!TypeOK'
  BY DEF IInv, TypeOK, C!TypeOK
<1>3. TypeOK'
  BY <1>1, <1>2 DEF IInv, TypeOK, Point
<1>4. Pending' /\ pc' \in {"reopen", "table", "idle"}
  BY DEF IInv, Pending
<1> QED
  BY <1>3, <1>4, BetweenKeeps

LEMMA ReopenKeeps == ASSUME IInv, Reopen PROVE IInv'
<1>1. TypeOK'
  BY DEF IInv, TypeOK, D!TypeOK, C!TypeOK, Reopen, Goto, D!Reopen, D!Open, cacheVars, Point
<1>2. Pending' /\ pc' \in {"scan", "wait"}
  BY DEF IInv, Pending, Reopen, Goto, cacheVars
<1> QED
  BY <1>1, <1>2, BetweenKeeps

\* What the scan reads of the cache is in it, and all of it unless the reading fails;
\* without its table there is nothing to read, and nothing in it.
LEMMA ProxyIsMarked ==
  ASSUME C!TypeOK, NEW read \in C!Proxies(May("cache"))
  PROVE  read \subseteq marked /\ (marked \ read # {} => May("cache"))
  BY DEF C!TypeOK, C!Proxies

LEMMA ScanKeeps == ASSUME IInv, Scan PROVE IInv'
<1>1. ASSUME Goto("scan", "rows"), D!SelectUuids, NEW read \in C!Proxies(May("cache")),
             todo' = [add |-> {}, remove |-> read, missed |-> marked \ read]
      PROVE  IInv'
  <2> USE <1>1 DEF Goto, D!SelectUuids
  <2>1. /\ read \subseteq marked /\ (marked \ read # {} => May("cache"))
        /\ marked' = marked /\ marked \subseteq Uuid
    BY ProxyIsMarked, TypesInside DEF IInv, TypeOK, Scan, cacheVars
  <2>2. D!TypeOK'
    BY DEF IInv, TypeOK, D!TypeOK
  <2>3. C!TypeOK'
    BY DEF IInv, TypeOK, C!TypeOK, Scan, cacheVars
  <2>4. todo' \in Actions
    BY <2>1 DEF Actions
  <2>5. TypeOK'
    BY <2>2, <2>3, <2>4 DEF IInv, TypeOK, Scan, Point
  <2>6. Read' = {} /\ unread' \subseteq Present' /\ Seen' = read
    BY <2>1 DEF Read, Present, Seen
  <2>7. Reading'
    BY <2>1, <2>6 DEF Reading
  <2>8. Pending'
    BY <2>1 DEF Pending
  <2> QED
    BY <2>1, <2>5, <2>7, <2>8 DEF IInv, Looked
<1>2. CASE Goto("scan", "wait") /\ UNCHANGED <<row, databaseVars, todo>>
  <2>1. TypeOK'
    BY <1>2 DEF IInv, TypeOK, D!TypeOK, C!TypeOK, Scan, Goto, databaseVars, cacheVars, Point
  <2>2. Pending' /\ pc' = "wait"
    BY <1>2 DEF IInv, Pending, Scan, Goto, cacheVars
  <2> QED
    BY <2>1, <2>2, BetweenKeeps
<1> QED
  BY <1>1, <1>2 DEF Scan

LEMMA ScanRowKeeps == ASSUME IInv, ScanRow PROVE IInv'
<1> USE DEF ScanRow, Goto, D!StepRow, cacheVars
<1>1. PICK u \in unread : D!StepRow(u) /\ todo' = D!ScanRow(todo, u)
  OBVIOUS
<1>2. u \in Present /\ u \notin Read /\ u \in Uuid
  BY DEF IInv, Reading, Read, Present
<1>3. Present' = Present /\ Read' = Read \cup {u} /\ marked' = marked
  BY <1>1, <1>2 DEF Read, Present
<1>4. /\ todo.add = Read \ Seen /\ todo.remove = Seen \ Read
      /\ todo = [add |-> todo.add, remove |-> todo.remove, missed |-> todo.missed]
  BY TypesInside DEF IInv, Reading
<1>5. /\ todo'.missed = todo.missed /\ Seen' = Seen
      /\ todo'.add = Read' \ Seen' /\ todo'.remove = Seen' \ Read'
      /\ todo' = [add |-> todo'.add, remove |-> todo'.remove, missed |-> todo'.missed]
  <2>1. CASE u \in Seen
    <3>1. todo' = [todo EXCEPT !.remove = @ \ {u}]
      BY <1>1, <1>2, <1>4, <2>1 DEF D!ScanRow
    <3>2. /\ todo'.add = todo.add /\ todo'.missed = todo.missed
          /\ todo'.remove = todo.remove \ {u}
          /\ todo' = [add |-> todo'.add, remove |-> todo'.remove, missed |-> todo'.missed]
      BY <1>4, <3>1
    <3> QED
      BY <1>3, <1>4, <2>1, <3>2 DEF Seen
  <2>2. CASE u \notin Seen
    <3>1. todo' = [todo EXCEPT !.add = @ \cup {u}]
      BY <1>1, <1>4, <2>2 DEF D!ScanRow
    <3>2. /\ todo'.add = todo.add \cup {u} /\ todo'.missed = todo.missed
          /\ todo'.remove = todo.remove
          /\ todo' = [add |-> todo'.add, remove |-> todo'.remove, missed |-> todo'.missed]
      BY <1>4, <3>1
    <3> QED
      BY <1>3, <1>4, <2>2, <3>2 DEF Seen
  <2> QED
    BY <2>1, <2>2
<1>6. unread' \subseteq Present' /\ Read' \subseteq Uuid /\ marked \subseteq Uuid
  BY <1>1, <1>3, TypesInside DEF IInv, Reading, Read, Present
<1>7. D!TypeOK'
  BY <1>1 DEF IInv, TypeOK, D!TypeOK
<1>8. C!TypeOK'
  BY DEF IInv, TypeOK, C!TypeOK
<1>9. TypeOK'
  <2>1. todo'.add \subseteq Uuid /\ todo'.remove \subseteq Uuid /\ todo'.missed \subseteq Uuid
    BY <1>3, <1>5, <1>6, TypesInside DEF IInv, Seen
  <2>2. todo' \in Actions
    BY <1>5, <2>1 DEF Actions
  <2> QED
    BY <2>2, <1>7, <1>8 DEF IInv, TypeOK
<1>10. Pending'
  BY <1>3, <1>5 DEF IInv, Pending, Seen
<1> QED
  BY <1>3, <1>5, <1>6, <1>9, <1>10 DEF IInv, Looked, Reading

LEMMA ScanEndsKeeps == ASSUME IInv, ScanEnds PROVE IInv'
<1>1. /\ todo'.add = todo.add /\ todo'.remove = todo.remove
      /\ todo'.missed = todo.missed \cap todo.add
      /\ todo' \in Actions
  BY TypesInside DEF IInv, ScanEnds, Actions
<1>2. TypeOK'
  BY <1>1 DEF IInv, TypeOK, D!TypeOK, C!TypeOK, ScanEnds, Goto, D!FinalizeRows, cacheVars, Point
<1>3. Pending' /\ pc' \in {"wait", "next"}
  BY <1>1 DEF IInv, Pending, ScanEnds, Goto, cacheVars
<1> QED
  BY <1>2, <1>3, BetweenKeeps

\* What is gone past leaves less to do.
LEMMA WithoutType ==
  ASSUME IInv, NEW u
  PROVE  /\ Without(u) \in Actions
         /\ Without(u).add \cap (marked \cup {u}) \subseteq Without(u).missed
         /\ Without(u).missed \subseteq marked /\ (Without(u).missed # {} => May("cache"))
         /\ Without(u).remove \subseteq marked
<1>1. /\ todo.add \subseteq Uuid /\ todo.remove \subseteq Uuid /\ todo.missed \subseteq Uuid
      /\ Pending
  BY TypesInside DEF IInv
<1> QED
  BY <1>1 DEF Without, Pending, Actions

LEMMA TakeKeeps == ASSUME IInv, Take PROVE IInv'
<1>1. PICK u \in Items :
        \/ /\ D!Known(u) /\ at' = u /\ pc' = "extract" /\ UNCHANGED <<row, databaseVars, todo>>
        \/ D!SelectDigest(u) /\ at' = u /\ pc' = "levels" /\ UNCHANGED todo
        \/ D!NoSuchEntry(u) /\ GoPast(u, "next")
  BY DEF Take
<1>2. u \in Uuid
  BY TypesInside DEF IInv, Items
<1>3. C!TypeOK' /\ marked' = marked
  BY DEF IInv, TypeOK, C!TypeOK, Take, cacheVars
<1>4. CASE /\ D!Known(u) /\ at' = u /\ pc' = "extract" /\ UNCHANGED <<row, databaseVars, todo>>
  <2>1. entries[u] \in D!Entry
    BY <1>2, <1>4, TypesInside DEF IInv, D!Known
  <2>2. TypeOK'
    BY <1>2, <1>3, <1>4 DEF IInv, TypeOK, D!TypeOK, Take, databaseVars, Point
  <2> QED
    BY <1>2, <1>3, <1>4, <2>1, <2>2 DEF IInv, Looked, Reading, Pending, Items, databaseVars
<1>5. CASE D!SelectDigest(u) /\ at' = u /\ pc' = "levels" /\ UNCHANGED todo
  <2>1. digest' \in Version
    BY <1>2, <1>5, TypesInside DEF IInv, D!SelectDigest
  <2>2. D!TypeOK'
    BY <1>5, <2>1 DEF IInv, TypeOK, D!TypeOK, D!SelectDigest
  <2>3. TypeOK'
    BY <1>2, <1>3, <1>5, <2>2 DEF IInv, TypeOK, Take, Point
  <2> QED
    BY <1>2, <1>3, <1>5, <2>1, <2>3 DEF IInv, Looked, Reading, Pending, Items
<1>6. CASE D!NoSuchEntry(u) /\ GoPast(u, "next")
  <2>1. D!TypeOK'
    BY <1>6 DEF IInv, TypeOK, D!TypeOK, D!NoSuchEntry
  <2>2. TypeOK'
    BY <1>3, <1>6, <2>1, WithoutType DEF IInv, TypeOK, Take, GoPast, Goto, Point
  <2>3. Pending' /\ pc' = "next"
    BY <1>3, <1>6, WithoutType DEF GoPast, Goto, Pending
  <2> QED
    BY <2>2, <2>3, BetweenKeeps
<1> QED
  BY <1>1, <1>4, <1>5, <1>6

LEMMA LevelsKeeps == ASSUME IInv, Levels PROVE IInv'
<1>1. C!TypeOK' /\ marked' = marked /\ at \in Uuid /\ digest \in Version
  BY DEF IInv, TypeOK, C!TypeOK, Looked, Levels, cacheVars
<1>2. CASE D!SelectLevels(at) /\ Goto("levels", "extract") /\ UNCHANGED <<todo, at>>
  <2>1. row[at] \in Version
    BY <1>1, <1>2, TypesInside DEF IInv, D!SelectLevels
  <2>2. [digest |-> digest, levels |-> row[at]] \in D!Entry
    BY <1>1, <2>1 DEF D!Entry
  <2>3. entries' \in [Uuid -> D!Entry \cup {D!NoEntry}] /\ entries'[at] \in D!Entry
    BY <1>1, <1>2, <2>2, TypesInside DEF IInv, D!SelectLevels
  <2>4. D!TypeOK'
    BY <1>2, <2>3 DEF IInv, TypeOK, D!TypeOK, D!SelectLevels
  <2>5. TypeOK'
    BY <1>1, <1>2, <2>4 DEF IInv, TypeOK, Levels, Goto, Point
  <2> QED
    BY <1>1, <1>2, <2>3, <2>5 DEF IInv, Looked, Reading, Pending, Items, Goto
<1>3. CASE D!NoSuchEntry(at) /\ GoPast(at, "levels")
  <2>1. D!TypeOK'
    BY <1>3 DEF IInv, TypeOK, D!TypeOK, D!NoSuchEntry
  <2>2. TypeOK'
    BY <1>1, <1>3, <2>1, WithoutType DEF IInv, TypeOK, Levels, GoPast, Goto, Point
  <2>3. Pending' /\ pc' = "next"
    BY <1>1, <1>3, WithoutType DEF GoPast, Goto, Pending
  <2> QED
    BY <2>2, <2>3, BetweenKeeps
<1> QED
  BY <1>2, <1>3 DEF Levels

LEMMA ExtractKeeps == ASSUME IInv, Extract PROVE IInv'
<1>1. D!TypeOK' /\ C!TypeOK' /\ marked' = marked /\ entries' = entries
  BY DEF IInv, TypeOK, D!TypeOK, C!TypeOK, Extract, lightroomVars, databaseVars, cacheVars
<1>2. CASE Goto("extract", "request") /\ UNCHANGED <<todo, at>>
  <2>1. TypeOK'
    BY <1>1, <1>2 DEF IInv, TypeOK, Extract, Goto, lightroomVars, Point
  <2> QED
    BY <1>1, <1>2, <2>1 DEF IInv, Looked, Reading, Pending, Items, Goto
<1>3. CASE GoPast(at, "extract")
  <2>1. TypeOK'
    BY <1>1, <1>3, WithoutType DEF IInv, TypeOK, Extract, GoPast, Goto, lightroomVars, Point
  <2>2. Pending' /\ pc' = "next"
    BY <1>1, <1>3, WithoutType DEF GoPast, Goto, Pending
  <2> QED
    BY <2>1, <2>2, BetweenKeeps
<1> QED
  BY <1>2, <1>3 DEF Extract

LEMMA RequestKeeps == ASSUME IInv, Request PROVE IInv'
<1>1. D!TypeOK' /\ C!TypeOK' /\ marked' = marked
  BY DEF IInv, TypeOK, D!TypeOK, C!TypeOK, Request, lightroomVars, databaseVars, cacheVars
<1>2. Key(at) \in Uuid \X Version
  BY DEF IInv, Looked, Request, Goto, Key, D!Entry
<1>3. bucket' \subseteq Uuid \X Version
  BY <1>2 DEF IInv, TypeOK, Request
<1>4. TypeOK'
  BY <1>1, <1>3 DEF IInv, TypeOK, Request, Goto, lightroomVars, Point
<1> QED
  BY <1>1, <1>4 DEF IInv, Looked, Reading, Pending, Items, Request, Goto

LEMMA MarkKeeps == ASSUME IInv, Mark PROVE IInv'
<1>1. at \in Uuid /\ pc' = "next" /\ at' = 0 /\ todo' = Without(at)
  BY DEF IInv, Looked, Mark, GoPast, Goto
<1>2. marked' \in {marked, marked \cup {at}} /\ C!TypeOK'
  BY <1>1 DEF IInv, TypeOK, C!TypeOK, Mark, C!Mark, cacheVars
<1>3. D!TypeOK'
  BY DEF IInv, TypeOK, D!TypeOK, Mark, lightroomVars, databaseVars
<1>4. TypeOK'
  BY <1>1, <1>2, <1>3, WithoutType DEF IInv, TypeOK, Mark, lightroomVars, Point
<1>5. Pending'
  BY <1>1, <1>2, WithoutType DEF Pending
<1> QED
  BY <1>1, <1>4, <1>5, BetweenKeeps

LEMMA RestKeeps == ASSUME IInv, BatchEnds \/ Notice PROVE IInv'
<1>1. TypeOK'
  BY DEF IInv, TypeOK, D!TypeOK, C!TypeOK, BatchEnds, Notice, Goto, lightroomVars,
         databaseVars, cacheVars, Point
<1>2. Pending' /\ pc' \in {"wait", "reopen"}
  BY DEF IInv, Pending, BatchEnds, Notice, Goto, cacheVars
<1> QED
  BY <1>1, <1>2, BetweenKeeps

LEMMA GoneKeeps == ASSUME IInv, Gone PROVE IInv'
<1> USE DEF Gone, C!Close, lightroomVars, Nothing, Actions
<1>1. D!TypeOK'
  BY DEF IInv, TypeOK, D!TypeOK
<1>2. C!TypeOK'
  BY DEF IInv, TypeOK, C!TypeOK
<1>3. TypeOK'
  BY <1>1, <1>2 DEF IInv, TypeOK, Point
<1> QED
  BY <1>3, BetweenKeeps DEF Pending

LEMMA CommitKeeps == ASSUME IInv, Commit PROVE IInv'
<1>1. PICK u \in Uuid, v \in Version \cup {0} : D!Commit(u, v)
  BY CycleAssumption DEF Commit
<1>2. D!TypeOK' /\ UNCHANGED databaseVars
  BY <1>1 DEF IInv, TypeOK, D!TypeOK, D!Commit, D!databaseVars, databaseVars
<1>3. C!TypeOK' /\ marked' = marked
  BY DEF IInv, TypeOK, C!TypeOK, Commit, cacheVars
<1>4. TypeOK'
  BY <1>2, <1>3 DEF IInv, TypeOK, Commit
<1> QED
  BY <1>2, <1>3, <1>4 DEF IInv, Looked, Reading, Pending, Items, Commit, databaseVars

LEMMA FilesKeep == ASSUME IInv, WriteFile \/ RemoveFile PROVE IInv'
<1>1. disk' \subseteq Uuid \X Version
  <2>1. disk \subseteq Uuid \X Version
    BY DEF IInv, TypeOK
  <2>2. CASE WriteFile
    <3>1. PICK u \in Uuid, v \in Version : disk' = disk \cup {<<u, v>>}
      BY <2>2, CycleAssumption DEF WriteFile
    <3> QED
      BY <2>1, <3>1
  <2>3. CASE RemoveFile
    BY <2>1, <2>3 DEF RemoveFile
  <2> QED
    BY <2>2, <2>3
<1>2. UNCHANGED <<row, changed, databaseVars, cacheVars, bucket, todo, at, pc>>
  BY DEF WriteFile, RemoveFile
<1>3. TypeOK'
  BY <1>1, <1>2 DEF IInv, TypeOK, D!TypeOK, C!TypeOK, databaseVars, cacheVars
<1> QED
  BY <1>2, <1>3 DEF IInv, Looked, Reading, Pending, Items, Read, Present, Seen, databaseVars, cacheVars

LEMMA StutterKeeps == ASSUME IInv, UNCHANGED vars PROVE IInv'
<1>1. TypeOK'
  BY DEF IInv, TypeOK, D!TypeOK, C!TypeOK, vars, lightroomVars, databaseVars, cacheVars
<1> QED
  BY <1>1 DEF IInv, Looked, Reading, Pending, Items, Read, Present, Seen, vars, lightroomVars,
              databaseVars, cacheVars

LEMMA StepKeeps == ASSUME IInv, [Next]_vars PROVE IInv'
  BY BeginKeeps, LoadCacheKeeps, ReopenKeeps, ScanKeeps, ScanRowKeeps, ScanEndsKeeps,
     TakeKeeps, LevelsKeeps, ExtractKeeps, RequestKeeps, MarkKeeps, RestKeeps, GoneKeeps,
     CommitKeeps, FilesKeep, StutterKeeps DEF Next, Synchronizer, Stop, Crash

LEMMA Invariance == Spec => []IInv
  BY InitIInv, StepKeeps, PTL DEF Spec

-----------------------------------------------------------------------------
(* The theorems.                                                            *)

\* Through any scans, batches, crashes and restarts every variable keeps its type; in
\* particular rows are in the cache only if its table is there.
THEOREM CycleTypeCorrect == Spec => []TypeOK
<1>1. IInv => TypeOK
  BY DEF IInv
<1> QED
  BY <1>1, Invariance, PTL

\* For any number of previews, in whatever order the rows come, and however much of the
\* cache could be read: when the rows have been read to their end, uuidActions is the
\* difference of previews.db and that reading (checkEntriesAgainstCachedPreviews).
THEOREM CycleScanIsDifference == Spec => []ScanIsDifference
<1>1. ASSUME IInv PROVE ScanIsDifference
  BY <1>1 DEF IInv, Reading, Pending, Read, Present, Seen, ScanIsDifference
<1> QED
  BY <1>1, Invariance, PTL

\* Whatever fails, whenever Lightroom commits and wherever the process ends: a preview is
\* put into the bucket while the cache holds it only if generateProxy() failed and left it
\* out, for which previewsdatabase.cpp:129 does not look (crunchAndUpload).
THEOREM CyclePutsAgainOnlyIfMissed == Spec => PutAgainOnlyIfMissed
<1> DEFINE Allowed(key) == key[1] \in marked => May("cache") /\ key[1] \in todo.missed
<1>1. ASSUME IInv, Next PROVE \A key \in bucket' \ bucket : Allowed(key)
  <2>1. CASE Request
    <3>1. ASSUME NEW key \in bucket' \ bucket PROVE Allowed(key)
      <4>1. key = Key(at) /\ at \in todo.add
        BY <2>1, <3>1 DEF Request
      <4> QED
        BY <1>1, <4>1 DEF IInv, Pending, Key
    <3> QED
      BY <3>1
  <2>2. CASE ~Request
    <3>1. bucket' = bucket
      BY <1>1, <2>2 DEF Next, Synchronizer, Begin, LoadCache, CreateTable, Reopen, Scan, ScanRow,
         ScanEnds, Take, Levels, Extract, Mark, BatchEnds, Notice, Stop, Crash, Gone, Commit,
         WriteFile, RemoveFile
    <3> QED
      BY <3>1
  <2> QED
    BY <2>1, <2>2
<1>2. IInv /\ [Next]_vars => [\A key \in bucket' \ bucket : Allowed(key)]_vars
  BY <1>1
<1> QED
  BY <1>2, Invariance, PTL DEF Spec, PutAgainOnlyIfMissed

-----------------------------------------------------------------------------
(* The abstract step each action takes.                                     *)

BatchVars == <<marked, remote, work>>

\* Outside a batch nothing is left to do, and within one nothing is lost.
LEMMA SameWork ==
  ASSUME UNCHANGED <<marked, bucket>>,
         \/ pc \notin WorkerPoint /\ pc' \notin WorkerPoint
         \/ pc \in WorkerPoint /\ pc' \in WorkerPoint /\ UNCHANGED todo
  PROVE  UNCHANGED BatchVars
  BY DEF BatchVars, remote, work

LEMMA BeforeBatch ==
  ASSUME IInv, \/ Begin \/ LoadCache \/ CreateTable \/ Reopen \/ Scan \/ ScanRow \/ Notice
               \/ Commit \/ WriteFile \/ RemoveFile
  PROVE  UNCHANGED BatchVars
<1>1. CASE Begin \/ LoadCache \/ CreateTable \/ Reopen \/ Scan \/ ScanRow \/ Notice
  <2>1. UNCHANGED <<marked, bucket>> /\ pc \notin WorkerPoint /\ pc' \notin WorkerPoint
    BY <1>1 DEF Begin, LoadCache, CreateTable, Reopen, Scan, ScanRow, Notice, Goto, cacheVars,
                C!LoadExisting, C!CreateFile, C!CreateTable, C!LoadFails, WorkerPoint
  <2> QED
    BY <2>1, SameWork
<1>2. CASE Commit \/ WriteFile \/ RemoveFile
  BY <1>2, SameWork DEF Commit, WriteFile, RemoveFile, cacheVars
<1> QED
  BY <1>1, <1>2

\* The end of a scan that found something draws up the batch.
LEMMA ScanEndsStep ==
  ASSUME IInv, ScanEnds
  PROVE  B!Next \/ UNCHANGED BatchVars
<1>1. UNCHANGED <<marked, bucket>> /\ pc = "rows"
  BY DEF ScanEnds, Goto, cacheVars
<1>2. CASE pc' = "wait"
  BY <1>1, <1>2, SameWork DEF WorkerPoint
<1>3. CASE pc' = "next"
  <2>1. work = B!NoWork /\ work' = todo' /\ remote' = remote
    BY <1>1, <1>3 DEF work, WorkerPoint, Nothing, B!NoWork, remote
  <2>2. IInv'
    BY ScanEndsKeeps
  <2>3. todo' \in B!Work
    BY <2>2 DEF IInv, TypeOK, Actions, B!Work
  <2>4. B!DrawUp
    BY <1>1, <2>1, <2>2, <2>3 DEF B!DrawUp, IInv, Pending
  <2> QED
    BY <2>4 DEF B!Next
<1> QED
  BY <1>2, <1>3 DEF ScanEnds, Goto

\* A preview that is gone past is skipped, or settled if it is recorded.
LEMMA GoPastStep ==
  ASSUME IInv, NEW u \in Items, NEW from \in WorkerPoint, GoPast(u, from),
         UNCHANGED bucket
  PROVE  /\ marked' = marked => B!Next
         /\ marked' = marked \cup {u} => B!Next
<1>1. u \in Uuid
  BY TypesInside DEF IInv, Items
<1>2. /\ work = todo /\ work' = Without(u) /\ remote' = remote
  BY DEF GoPast, Goto, work, WorkerPoint, remote
<1>3. u \in B!Items(work) /\ work' = B!Without(work, u)
  BY <1>2 DEF Items, Without, B!Items, B!Without
<1>4. ASSUME marked' = marked PROVE B!Next
  BY <1>1, <1>2, <1>3, <1>4 DEF B!Skip, B!Next
<1>5. ASSUME marked' = marked \cup {u} PROVE B!Next
  BY <1>1, <1>2, <1>3, <1>5 DEF B!Settle, B!Next
<1> QED
  BY <1>4, <1>5

LEMMA BatchStep ==
  ASSUME IInv, Take \/ Levels \/ Extract \/ Mark \/ BatchEnds
  PROVE  B!Next \/ UNCHANGED BatchVars
<1> USE DEF WorkerPoint, cacheVars
<1>1. CASE Take
  <2>1. PICK u \in Items : (pc' \in {"extract", "levels"} /\ UNCHANGED todo) \/ GoPast(u, "next")
    BY <1>1 DEF Take
  <2>2. UNCHANGED <<marked, bucket>> /\ pc = "next"
    BY <1>1 DEF Take
  <2> QED
    BY <2>1, <2>2, SameWork, GoPastStep
<1>2. CASE Levels
  <2>1. UNCHANGED <<marked, bucket>> /\ pc = "levels" /\ at \in Items
    BY <1>2 DEF Levels, IInv, Looked
  <2>2. (pc' = "extract" /\ UNCHANGED todo) \/ GoPast(at, "levels")
    BY <1>2 DEF Levels, Goto
  <2> QED
    BY <2>1, <2>2, SameWork, GoPastStep
<1>3. CASE Extract
  <2>1. UNCHANGED <<marked, bucket>> /\ pc = "extract" /\ at \in Items
    BY <1>3 DEF Extract, IInv, Looked
  <2>2. (pc' = "request" /\ UNCHANGED todo) \/ GoPast(at, "extract")
    BY <1>3 DEF Extract, Goto
  <2> QED
    BY <2>1, <2>2, SameWork, GoPastStep
<1>4. CASE Mark
  <2>1. UNCHANGED bucket /\ at \in Items /\ GoPast(at, "mark")
    BY <1>4 DEF Mark, GoPast, Goto, IInv, Looked
  <2>2. marked' = marked \/ marked' = marked \cup {at}
    BY <1>4 DEF Mark, C!Mark
  <2> QED
    BY <2>1, <2>2, GoPastStep
<1>5. CASE BatchEnds
  <2>1. work' = B!NoWork /\ UNCHANGED <<marked, remote>>
    BY <1>5 DEF BatchEnds, Goto, work, Nothing, B!NoWork, remote
  <2> QED
    BY <2>1 DEF B!Abandon, B!Next
<1> QED
  BY <1>1, <1>2, <1>3, <1>4, <1>5

\* A request puts or deletes the object of one version.  Deleting it leaves those of the
\* other versions: then nothing has happened to the preview.
LEMMA RequestStep ==
  ASSUME IInv, Request
  PROVE  B!Next \/ UNCHANGED BatchVars
<1>1. /\ UNCHANGED marked /\ work = todo /\ work' = todo /\ at \in Uuid
  BY DEF Request, Goto, cacheVars, work, WorkerPoint, IInv, Looked
<1>2. Key(at)[1] = at
  BY DEF Key
<1>3. CASE at \in todo.add /\ bucket' = bucket \cup {Key(at)}
  <2>1. remote' = remote \cup {at}
    BY <1>2, <1>3 DEF remote
  <2> QED
    BY <1>1, <1>3, <2>1 DEF B!Put, B!Next
<1>4. CASE at \in todo.remove /\ bucket' = bucket \ {Key(at)}
  <2>1. remote' = remote \/ remote' = remote \ {at}
    BY <1>2, <1>4 DEF remote
  <2> QED
    BY <1>1, <1>4, <2>1 DEF B!Delete, B!Next, BatchVars
<1>5. CASE UNCHANGED bucket
  BY <1>1, <1>5 DEF BatchVars, remote
<1> QED
  BY <1>3, <1>4, <1>5 DEF Request

LEMMA GoneStep == Gone => B!Next
  BY DEF Gone, C!Close, work, WorkerPoint, Nothing, B!NoWork, remote, B!Abandon, B!Next

\* For any previews, versions and faults the data path implements BatchSync, over any
\* number of runs of the program (processChanges, crunchAndUpload, markAsCached).
THEOREM CycleImplementsBatchSync == Spec => ImplementsBatchSync
<1>1. Init => B!Init
  BY DEF Init, C!Init, B!Init, work, WorkerPoint, Nothing, B!NoWork, remote
<1>2. ASSUME IInv, [Next]_vars PROVE [B!Next]_B!vars
  <2>1. CASE Next
    BY <1>2, <2>1, BeforeBatch, ScanEndsStep, BatchStep, RequestStep, GoneStep
       DEF Next, Synchronizer, Stop, Crash, BatchVars, B!vars
  <2>2. CASE UNCHANGED vars
    BY <2>2 DEF vars, cacheVars, B!vars, remote, work
  <2> QED
    BY <1>2, <2>1, <2>2
<1> QED
  BY <1>1, <1>2, Invariance, PTL DEF Spec, ImplementsBatchSync, B!Spec
=============================================================================
