---------------------------- MODULE PreviewCycle ----------------------------
(***************************************************************************)
(* The data that one PreviewsSynchronizer moves: from previews.db           *)
(* (PreviewsDatabase.tla) and the .lrprev files beside it, to the bucket,   *)
(* with previewscache.db (CachedPreviews.tla) as its memory from one run of *)
(* the program to the next.  PreviewsSynchronizer.tla shows that scan and   *)
(* worker never overlap: here they are one sequence of steps, and what is   *)
(* followed is what each query, file and request sees while Lightroom       *)
(* commits and writes files in between, and what a crash leaves.            *)
(***************************************************************************)
EXTENDS Naturals, FiniteSets

CONSTANTS Uuid,     \* numbered in the order std::map visits them
          Version,  \* versions of a preview: the digest in its file name
          Rendered, \* the versions in which each preview may come
          MaxFiles, \* bound on the .lrprev files that are there at once
          Faults    \* the operations that may fail, see below

\*  "open"    a database file cannot be opened or made
\*  "lock"    previews.db is busy: a query fails to prepare, or its first or a later
\*            step returns SQLITE_BUSY
\*  "cache"   the rows of previewscache.db cannot be read, or not to their end
\*  "local"   a file cannot be opened, extracted, decoded or compressed
\*  "request" there is no request, or the request fails
\*  "mark"    a preview cannot be written to the cache
FaultKinds == {"open", "lock", "cache", "local", "request", "mark"}

ASSUME CycleAssumption ==
  /\ Uuid \subseteq Nat
  /\ Version \subseteq Nat \ {0}
  /\ Rendered \in [Uuid -> SUBSET Version]
  /\ MaxFiles \in Nat
  /\ Faults \subseteq FaultKinds

VARIABLES row, handle, entries, unread, digest,   \* PreviewsDatabase
          file, marked, conn,                     \* CachedPreviews
          disk,     \* the .lrprev files <<uuid, digest>> beside previews.db
          bucket,   \* the objects <<uuid, digest>> in the bucket
          todo,     \* uuidActions not yet gone past, and "missed": which of them the
                    \* cache held although the scan did not read them there
          at,       \* the uuid the worker is at, 0 between two
          changed,  \* previews.db was written since the watcher last noticed
          pc        \* where the synchronizer is

D == INSTANCE PreviewsDatabase
C == INSTANCE CachedPreviews

databaseVars == <<handle, entries, unread, digest>>
cacheVars    == <<file, marked, conn>>
lightroomVars == <<row, disk, changed>>
vars == <<lightroomVars, databaseVars, cacheVars, bucket, todo, at, pc>>

Actions == [add : SUBSET Uuid, remove : SUBSET Uuid, missed : SUBSET Uuid]
Nothing == [add |-> {}, remove |-> {}, missed |-> {}]
Items   == todo.add \cup todo.remove
Without(u) == [add |-> todo.add \ {u}, remove |-> todo.remove \ {u}, missed |-> todo.missed \ {u}]
May(fault) == fault \in Faults

Point == {"idle", "load", "table", "reopen", "scan", "rows", "next", "levels",
          "extract", "request", "mark", "wait"}

TypeOK ==
  /\ D!TypeOK /\ C!TypeOK
  /\ disk \subseteq Uuid \X Version /\ bucket \subseteq Uuid \X Version
  /\ todo \in Actions
  /\ at \in Uuid \cup {0}
  /\ changed \in BOOLEAN
  /\ pc \in Point

Init ==
  /\ D!Init /\ C!Init
  /\ disk = {} /\ bucket = {}
  /\ todo = Nothing /\ at = 0 /\ changed = FALSE /\ pc = "idle"

Goto(from, to) == pc = from /\ pc' = to

-----------------------------------------------------------------------------
(* beginSynchronizingFile.                                                  *)

Begin ==
  /\ \/ Goto("idle", "load") /\ D!Open(TRUE)
     \/ May("open") /\ Goto("idle", "idle") /\ D!Open(FALSE)
  /\ UNCHANGED <<disk, changed, cacheVars, bucket, todo, at>>

LoadCache ==
  /\ \/ Goto("load", "reopen") /\ C!LoadExisting
     \/ Goto("load", "table") /\ C!CreateFile
     \/ May("open") /\ Goto("load", "idle") /\ C!LoadFails
  /\ UNCHANGED <<lightroomVars, databaseVars, bucket, todo, at>>

CreateTable ==
  /\ \/ Goto("table", "reopen") /\ C!CreateTable
     \/ May("open") /\ Goto("table", "idle") /\ C!LoadFails
  /\ UNCHANGED <<lightroomVars, databaseVars, bucket, todo, at>>

-----------------------------------------------------------------------------
(* processChanges.                                                          *)

Reopen ==
  /\ \/ Goto("reopen", "scan") /\ D!Reopen(TRUE)
     \/ May("open") /\ Goto("reopen", "wait") /\ D!Reopen(FALSE)
  /\ UNCHANGED <<disk, changed, cacheVars, bucket, todo, at>>

Scan ==
  /\ \/ /\ Goto("scan", "rows") /\ D!SelectUuids
        /\ \E read \in C!Proxies(May("cache")) :
             todo' = [add |-> {}, remove |-> read, missed |-> marked \ read]
     \/ May("lock") /\ Goto("scan", "wait") /\ UNCHANGED <<row, databaseVars, todo>>
  /\ UNCHANGED <<disk, changed, cacheVars, bucket, at>>

ScanRow ==
  /\ Goto("rows", "rows")
  /\ \E u \in unread : D!StepRow(u) /\ todo' = D!ScanRow(todo, u)
  /\ UNCHANGED <<disk, changed, cacheVars, bucket, at>>

\* A busy step ends the rows like their end.  A missed preview that no row added is in
\* no way part of the batch.
ScanEnds ==
  /\ unread = {} \/ May("lock")
  /\ D!FinalizeRows
  /\ todo' = [todo EXCEPT !.missed = @ \cap todo.add]
  /\ Goto("rows", IF Items = {} THEN "wait" ELSE "next")
  /\ UNCHANGED <<disk, changed, cacheVars, bucket, at>>

-----------------------------------------------------------------------------
(* crunchAndUpload.                                                         *)

GoPast(u, from) == todo' = Without(u) /\ at' = 0 /\ Goto(from, "next")

Take ==
  /\ pc = "next"
  /\ \E u \in Items :
       /\ \A v \in Items : u <= v
       /\ \/ /\ D!Known(u) /\ at' = u /\ pc' = "extract"
             /\ UNCHANGED <<row, databaseVars, todo>>
          \/ /\ D!SelectDigest(u) /\ at' = u /\ pc' = "levels"
             /\ UNCHANGED todo
          \/ /\ ~D!Known(u) /\ (row[u] = 0 \/ May("lock"))
             /\ D!NoSuchEntry(u) /\ GoPast(u, "next")
  /\ UNCHANGED <<disk, changed, cacheVars, bucket>>

Levels ==
  /\ pc = "levels"
  /\ \/ D!SelectLevels(at) /\ Goto("levels", "extract") /\ UNCHANGED <<todo, at>>
     \/ (row[at] = 0 \/ May("lock")) /\ D!NoSuchEntry(at) /\ GoPast(at, "levels")
  /\ UNCHANGED <<disk, changed, cacheVars, bucket>>

Key(u) == <<u, entries[u].digest>>

\* The file the entry names is read and reencoded, each of which may fail.  Its levels
\* are those of the file's version, the level is chosen by the entry's: they may not fit.
Extract ==
  /\ pc = "extract"
  /\ \/ Goto("extract", "request") /\ Key(at) \in disk /\ UNCHANGED <<todo, at>>
     \/ /\ Key(at) \notin disk \/ entries[at].levels # entries[at].digest \/ May("local")
        /\ GoPast(at, "extract")
  /\ UNCHANGED <<lightroomVars, databaseVars, cacheVars, bucket>>

\* (mutant) the two cases of the switch are swapped
RequestSwapped ==
  /\ Goto("request", "mark")
  /\ \/ at \in todo.remove /\ bucket' = bucket \cup {Key(at)}
     \/ at \in todo.add    /\ bucket' = bucket \ {Key(at)}
     \/ May("request")     /\ UNCHANGED bucket
  /\ UNCHANGED <<lightroomVars, databaseVars, cacheVars, todo, at>>

Request ==
  /\ Goto("request", "mark")
  /\ \/ at \in todo.add    /\ bucket' = bucket \cup {Key(at)}
     \/ at \in todo.remove /\ bucket' = bucket \ {Key(at)}
     \/ May("request")     /\ UNCHANGED bucket
  /\ UNCHANGED <<lightroomVars, databaseVars, cacheVars, todo, at>>

Mark ==
  /\ GoPast(at, "mark")
  /\ \/ C!Mark(at)
     \/ (file # "table" \/ May("mark")) /\ UNCHANGED cacheVars
  /\ UNCHANGED <<lightroomVars, databaseVars, bucket>>

BatchEnds ==
  /\ Items = {} /\ Goto("next", "wait")
  /\ UNCHANGED <<lightroomVars, databaseVars, cacheVars, bucket, todo, at>>

\* The watcher reports a change.
Notice ==
  /\ changed /\ changed' = FALSE
  /\ Goto("wait", "reopen")
  /\ UNCHANGED <<row, disk, databaseVars, cacheVars, bucket, todo, at>>

\* The object is destroyed at rest, or its process ends anywhere.
Gone ==
  /\ handle' = "none" /\ entries' = [u \in Uuid |-> D!NoEntry]
  /\ unread' = {} /\ digest' = 0
  /\ C!Close
  /\ todo' = Nothing /\ at' = 0 /\ pc' = "idle"
  /\ UNCHANGED <<lightroomVars, bucket>>

Stop  == pc \in {"next", "wait"} /\ Gone
Crash == pc \notin {"idle", "next", "wait"} /\ Gone

-----------------------------------------------------------------------------
(* Lightroom renders a preview again, forgets one, and writes its files at  *)
(* its own time.  What is committed while rows are read comes after them.   *)

Commit ==
  /\ pc # "rows"
  /\ \E u \in Uuid : \E v \in Rendered[u] \cup {0} : v # row[u] /\ D!Commit(u, v)
  /\ changed' = TRUE
  /\ UNCHANGED <<disk, cacheVars, bucket, todo, at, pc>>

WriteFile ==
  /\ Cardinality(disk) < MaxFiles
  /\ \E u \in Uuid : \E v \in Rendered[u] : <<u, v>> \notin disk /\ disk' = disk \cup {<<u, v>>}
  /\ UNCHANGED <<row, changed, databaseVars, cacheVars, bucket, todo, at, pc>>

RemoveFile ==
  /\ \E key \in disk : disk' = disk \ {key}
  /\ UNCHANGED <<row, changed, databaseVars, cacheVars, bucket, todo, at, pc>>

Synchronizer == \/ LoadCache \/ CreateTable \/ Reopen \/ Scan \/ ScanRow \/ ScanEnds
                \/ Take \/ Levels \/ Extract \/ Request \/ Mark \/ BatchEnds \/ Notice

Next == \/ Begin \/ Synchronizer \/ Stop \/ Crash
        \/ Commit \/ WriteFile \/ RemoveFile

Spec == Init /\ [][Next]_vars /\ WF_vars(Synchronizer)

-----------------------------------------------------------------------------
\* One pass over the rows, striking out what was read of the cache, finds exactly the
\* difference of previews.db and that reading in both directions, whatever order the
\* rows come in (checkEntriesAgainstCachedPreviews).
ScanIsDifference ==
  LET present == {u \in Uuid : row[u] # 0}
      read    == marked \ todo.missed
  IN  pc = "rows" /\ unread = {} =>
        /\ todo.add = present \ read /\ todo.remove = read \ present
        /\ May("cache") \/ read = marked

\* A recorded preview goes up again only if its record could not be read when the batch
\* was drawn up: neither a crash between the request and its record, nor a commit of
\* Lightroom in the middle of a batch, nor a busy previews.db does that.
PutAgainOnlyIfMissed ==
  [][\A key \in bucket' \ bucket : key[1] \in marked => May("cache") /\ key[1] \in todo.missed]_vars

\* The previews that have an object, and what is left of the batch, as BatchSync sees
\* them: the map is a batch only once the scan is over.
remote == {key[1] : key \in bucket}

WorkerPoint == {"next", "levels", "extract", "request", "mark"}

work == IF pc \in WorkerPoint THEN todo ELSE Nothing

B == INSTANCE BatchSync WITH cached <- marked, MayMiss <- May("cache")

\* The data path keeps the promise that the threads are shown to keep: read row by row,
\* with versions, commits in between and a process that may end anywhere, what happens
\* to the cache and the bucket is still one batch after another.
ImplementsBatchSync == B!Spec

-----------------------------------------------------------------------------
(* What the repository's tests say, and the code does not do.               *)

\* "KeepPreviewsSynchronized" (test/integration/lib/syncpreviews_test.cpp): when a
\* commit has been noticed, a preview that the cache does not hold and whose file is
\* there is uploaded and recorded, unless it is changed again or the run ends.
RenderedPreviewIsUploaded ==
  \A u \in Uuid, v \in Version :
    (/\ pc = "wait" /\ changed /\ file = "table"
     /\ row[u] = v /\ <<u, v>> \in disk /\ u \notin marked)
      ~> (u \in marked \/ row[u] # v \/ <<u, v>> \notin disk \/ pc = "idle")
=============================================================================
