------------------------------ MODULE Program ------------------------------
(***************************************************************************)
(* The whole program (main in src/src/cli.cpp): it scans a directory        *)
(* (Scanner.tla), begins one synchronizer for each pair of files, waits for *)
(* a signal and deletes them one after the other.  All of them share one    *)
(* previewscache.db and one registry of requests (Aws.tla).                 *)
(* The CLI goes straight to the scan; a client like the integration tests   *)
(* first initialises the registry, perhaps from a file of profiles          *)
(* (AwsProfilesLoader.tla), and shuts it down at the end.  Of each          *)
(* synchronizer the worker is kept with what it shares with the others, and *)
(* the watcher as the thread that scans again (PreviewsSynchronizer.tla has *)
(* their details); a termination found there is one of the Crashes here.    *)
(***************************************************************************)
EXTENDS Scanner, AwsProfilesLoader, FiniteSets

CONSTANTS Catalog,       \* the paths at which there is a previews.db
          Uuid,          \* preview uuids, numbered in the order std::map visits them
          Own,           \* the uuids each catalog may hold
          Destination,   \* argv[2]
          Identifier,    \* identifiers of destinations
          Profile,       \* names of access profiles
          Files,         \* the profile files a client may load
          MaxEntries     \* bound on the entries of the directory

VARIABLES initialised, destinations, requests, view,  \* the registry
          main,          \* where main is
          synchronizers, \* main's vector
          deleted,       \* how many of them main has deleted
          turn,          \* the catalog main is beginning or deleting
          known,         \* per catalog: the keys of its synchronizer's _cachedEntries
          job,           \* what its worker has not gone past, and "missed": which of it
                         \* the cache held although the scan did not read it there
          at,            \* the entry its worker is at, or 0
          cancel,        \* _cancelWorking
          point,         \* where its worker is, and if there is none its watcher
          cached         \* the uuids of previewscache.db

A == INSTANCE Aws WITH Caller <- Catalog

ProgramAssumption ==
  /\ Uuid \subseteq Nat \ {0} /\ Catalog \subseteq Seq(Nat) \ {<<>>}
  /\ Own \in [Catalog -> SUBSET Uuid]
  /\ Destination \in Identifier
  /\ Files \subseteq ProfileFile(Identifier, Profile)

ASSUME ScannerAssumption
ASSUME ProgramAssumption

awsVars    == <<initialised, destinations, requests, view>>
mainVars   == <<synchronizers, deleted, turn>>
workerVars == <<known, job, at, cancel, point>>
vars == <<scannerVars, awsVars, main, mainVars, workerVars, cached>>

-----------------------------------------------------------------------------
Batch   == [add : SUBSET Uuid, remove : SUBSET Uuid, missed : SUBSET Uuid]
NoBatch == [add |-> {}, remove |-> {}, missed |-> {}]
Items(b)      == b.add \cup b.remove
Without(b, u) == [add |-> b.add \ {u}, remove |-> b.remove \ {u}, missed |-> b.missed \ {u}]

NoCatalog == <<>>

MainPoint == {"setup", "read", "begin", "first", "wait", "delete", "join", "unwatch",
              "exit", "done", "ended"}
\* "off"   there is no synchronizer          "exited"  it has, and was not joined
\* "none"  its worker never was or is joined "scan"    a scan by main or the watcher
\* and the places of a worker, "insert" and "erase" inside the set of requests
WorkerPoint == {"take", "create", "insert", "request", "free", "erase", "mark"}
Point == WorkerPoint \cup {"off", "none", "scan", "exited"}

TypeOK ==
  /\ A!AwsTypeOK
  /\ main \in MainPoint
  /\ synchronizers \in Seq(Catalog) /\ deleted \in 0 .. Len(synchronizers)
  /\ turn \in Catalog \cup {NoCatalog}
  /\ known \in [Catalog -> SUBSET Uuid]
  /\ job \in [Catalog -> Batch] /\ at \in [Catalog -> Uuid \cup {0}]
  /\ cancel \in [Catalog -> BOOLEAN] /\ point \in [Catalog -> Point]
  /\ cached \subseteq Uuid

Everywhere(value) == [c \in Catalog |-> value]

Init ==
  /\ ScannerIdle /\ A!AwsInit
  /\ main = "setup"
  /\ synchronizers = <<>> /\ deleted = 0 /\ turn = NoCatalog
  /\ known = Everywhere({})
  /\ job = Everywhere(NoBatch) /\ at = Everywhere(0)
  /\ cancel = Everywhere(FALSE) /\ point = Everywhere("off")
  /\ cached = {}

Goto(from, to) == main = from /\ main' = to

\* A process has nothing of the one before.
Afresh ==
  /\ dir' = {} /\ unread' = {} /\ pairs' = <<>> /\ copied' = {} /\ filePairs' = <<>>
  /\ initialised' = FALSE /\ destinations' = {} /\ requests' = {} /\ view' = Everywhere({})
  /\ synchronizers' = <<>> /\ deleted' = 0 /\ turn' = NoCatalog
  /\ known' = Everywhere({})
  /\ job' = Everywhere(NoBatch) /\ at' = Everywhere(0)
  /\ cancel' = Everywhere(FALSE) /\ point' = Everywhere("off")
  /\ UNCHANGED cached

Running == main \notin {"setup", "done", "ended"}

-----------------------------------------------------------------------------
(* What a client does before and after main's own steps.                    *)

ClientUnchanged == <<scannerVars, mainVars, workerVars, cached>>

Initialise ==
  /\ Goto("setup", "setup") /\ A!Initialise
  /\ UNCHANGED ClientUnchanged

\* A client that has initialised the registry gives it destinations.
LoadProfiles ==
  /\ Goto("setup", "setup") /\ initialised
  /\ \E file \in Files : A!InitialiseDestinations(Accepted(file))
  /\ UNCHANGED ClientUnchanged

TearDown ==
  /\ Goto("exit", "exit")
  /\ A!Shutdown \/ A!RemoveDestination(Destination) \/ A!RemoveAllDestinations
  /\ UNCHANGED ClientUnchanged

\* The destructor of the registry asserts that no request is left; the process ends
\* either way.
Exit == Goto("exit", "done") /\ Afresh

-----------------------------------------------------------------------------
(* The directory.                                                           *)

ScanUnchanged == <<awsVars, mainVars, workerVars, cached>>

StartScan ==
  /\ \/ /\ Goto("setup", "read")
        /\ \E entries \in SUBSET Entry :
             Cardinality(entries) <= MaxEntries /\ OpenDirectory(entries)
     \/ Goto("setup", "exit") /\ UNCHANGED scannerVars
  /\ UNCHANGED ScanUnchanged

Scan ==
  /\ Goto("read", "read")
  /\ \/ \E e \in unread : ReadEntry(e)
     \/ \E name \in DOMAIN pairs : CopyPair(name)
  /\ UNCHANGED ScanUnchanged

ScanReturns ==
  /\ Goto("read", IF DOMAIN pairs = {} THEN "exit" ELSE "begin")
  /\ Return
  /\ UNCHANGED ScanUnchanged

-----------------------------------------------------------------------------
(* beginSynchronizingFile for each pair.                                    *)

\* The iterator goes on.
Begun == filePairs' = Tail(filePairs) /\ UNCHANGED <<dir, unread, pairs, copied>>

\* (mutant) a previews.db that cannot be opened is gone on with
BeginUnopened ==
  /\ filePairs # <<>> /\ Goto("begin", "first")
  /\ turn' = Head(filePairs).previews
  /\ point' = [c \in Catalog |-> IF c = turn' THEN "scan" ELSE point[c]]
  /\ Begun
  /\ UNCHANGED <<awsVars, synchronizers, deleted, known, job, at, cancel, cached>>

\* Both databases open and the watcher is started.  No two pairs have the same previews.
BeginOpens ==
  /\ filePairs # <<>> /\ Goto("begin", "first")
  /\ LET c == Head(filePairs).previews IN
       /\ c \in Catalog /\ point[c] = "off"
       /\ turn' = c
       /\ point' = [point EXCEPT ![c] = "scan"]
  /\ Begun
  /\ UNCHANGED <<awsVars, synchronizers, deleted, known, job, at, cancel, cached>>

\* It returns false, and the object is deleted.
BeginFails ==
  /\ filePairs # <<>> /\ Goto("begin", "begin")
  /\ Begun
  /\ UNCHANGED <<awsVars, mainVars, workerVars, cached>>

AllBegun ==
  /\ filePairs = <<>> /\ Goto("begin", "wait")
  /\ UNCHANGED <<scannerVars, awsVars, mainVars, workerVars, cached>>

-----------------------------------------------------------------------------
(* processChanges, by main when it begins and by the watcher later.         *)
(* Lightroom commits between any two queries, so each finds any of the      *)
(* previews that the catalog may hold; a busy database reads as an empty    *)
(* one.  previewscache.db is busy while another worker writes to it: then   *)
(* nothing or a part of it is read, and the scan goes on with that.         *)

ByMain(c)    == main = "first" /\ turn = c
ByWatcher(c) == ~ByMain(c)

Missed(rows, read) == (cached \ read) \cap rows

\* (mutant) a row that was read in the cache is not struck out
DifferenceKeeping(rows, read) ==
  [add |-> rows, remove |-> read \ rows, missed |-> Missed(rows, read)]

Difference(rows, read) ==
  [add |-> rows \ read, remove |-> read \ rows, missed |-> Missed(rows, read)]

ProcessChanges(c) ==
  /\ point[c] = "scan"
  /\ \E rows \in SUBSET Own[c], read \in SUBSET cached :
       LET found == Difference(rows, read) IN
         /\ job' = [job EXCEPT ![c] = found]
         /\ point' = [point EXCEPT ![c] = IF found = NoBatch THEN "none" ELSE "take"]
         /\ cancel' = [cancel EXCEPT ![c] = IF found = NoBatch THEN @ ELSE FALSE]
  /\ UNCHANGED <<scannerVars, awsVars, deleted, known, at, cached>>

FirstScan(c) ==
  /\ ByMain(c) /\ ProcessChanges(c)
  /\ main' = "begin" /\ synchronizers' = Append(synchronizers, c) /\ turn' = NoCatalog

ScanAgain(c) ==
  /\ ByWatcher(c) /\ ProcessChanges(c)
  /\ UNCHANGED <<main, synchronizers, turn>>

\* reopen() or the query fails: main deletes the object, the watcher goes on.
ScanFails(c) ==
  /\ point[c] = "scan"
  /\ \/ /\ ByMain(c) /\ main' = "begin" /\ turn' = NoCatalog
        /\ point' = [point EXCEPT ![c] = "off"]
     \/ /\ ByWatcher(c) /\ UNCHANGED <<main, turn>>
        /\ point' = [point EXCEPT ![c] = "none"]
  /\ UNCHANGED <<scannerVars, awsVars, synchronizers, deleted, known, job, at,
                 cancel, cached>>

\* (mutant) the watcher is not told to stop
NoticeUnstopped(c) ==
  /\ point[c] = "exited" /\ ~(main = "join" /\ turn = c)
  /\ point' = [point EXCEPT ![c] = "scan"]
  /\ UNCHANGED <<scannerVars, awsVars, main, mainVars, known, job, at, cancel, cached>>

\* fileHasChanged: the worker has ended, the watcher joins it.  If main is joining it
\* too the process ends; once the watcher is told to stop it begins no other scan.
Notice(c) ==
  /\ point[c] = "exited" /\ ~(main \in {"join", "unwatch"} /\ turn = c)
  /\ point' = [point EXCEPT ![c] = "scan"]
  /\ UNCHANGED <<scannerVars, awsVars, main, mainVars, known, job, at, cancel, cached>>

-----------------------------------------------------------------------------
(* crunchAndUpload.                                                         *)

WorkerUnchanged == <<scannerVars, main, mainVars>>

GoesPast(c, u) == /\ job' = [job EXCEPT ![c] = Without(@, u)]
                  /\ at' = [at EXCEPT ![c] = 0]

Moves(c, from, to) == point[c] = from /\ point' = [point EXCEPT ![c] = to]

\* (mutant) a preview that no entry is found for is gone on with
TakeUnfound(c) ==
  /\ ~cancel[c]
  /\ \E u \in Items(job[c]) :
       /\ \A v \in Items(job[c]) : u <= v
       /\ known' = [known EXCEPT ![c] = @ \cup {u}]
       /\ at' = [at EXCEPT ![c] = u]
       /\ Moves(c, "take", "create") /\ UNCHANGED job
  /\ UNCHANGED <<WorkerUnchanged, awsVars, cancel, cached>>

\* An entry is found in memory or in previews.db, or nothing is found there (it may
\* be busy).  A preview that cannot be loaded or reencoded is gone past as well.
Take(c) ==
  /\ ~cancel[c]
  /\ \E u \in Items(job[c]) :
       /\ \A v \in Items(job[c]) : u <= v
       /\ \/ /\ u \in known[c] \cup Own[c]
             /\ known' = [known EXCEPT ![c] = @ \cup {u}]
             /\ \/ at' = [at EXCEPT ![c] = u] /\ Moves(c, "take", "create") /\ UNCHANGED job
                \/ GoesPast(c, u) /\ Moves(c, "take", "take")
          \/ /\ u \notin known[c]
             /\ GoesPast(c, u) /\ Moves(c, "take", "take") /\ UNCHANGED known
  /\ UNCHANGED <<WorkerUnchanged, awsVars, cancel, cached>>

\* The end of the loop, or a break out of it.
LoopEnds(c) ==
  /\ \/ cancel[c] /\ \E from \in {"take", "create"} : Moves(c, from, "exited")
     \/ Items(job[c]) = {} /\ Moves(c, "take", "exited")
  /\ job' = [job EXCEPT ![c] = NoBatch] /\ at' = [at EXCEPT ![c] = 0]
  /\ UNCHANGED <<WorkerUnchanged, awsVars, known, cancel, cached>>

RequestUnchanged == <<WorkerUnchanged, known, job, at, cancel>>

CreateRequest(c) ==
  /\ \/ ~cancel[c] /\ A!CreateBegins(c, Destination) /\ Moves(c, "create", "insert")
     \/ A!CreateEnds(c) /\ Moves(c, "insert", "request")
  /\ UNCHANGED <<RequestUnchanged, cached>>

NoDestination(c) ==
  /\ ~cancel[c] /\ Destination \notin destinations /\ Moves(c, "create", "mark")
  /\ UNCHANGED <<RequestUnchanged, awsVars, cached>>

\* putObject or removeObject; a failure is only logged.  The bucket is in the models of
\* one synchronizer: here nothing depends on it.
Transfer(c) ==
  /\ Moves(c, "request", "free")
  /\ UNCHANGED <<RequestUnchanged, awsVars, cached>>

FreeRequest(c) ==
  /\ \/ A!FreeBegins(c) /\ Moves(c, "free", "erase")
     \/ A!FreeEnds(c) /\ Moves(c, "erase", "mark")
     \/ c \notin requests /\ Moves(c, "free", "mark") /\ UNCHANGED awsVars
  /\ UNCHANGED <<RequestUnchanged, cached>>

\* processedUuid; previewscache.db may be busy.
Mark(c) ==
  /\ Moves(c, "mark", "take")
  /\ cached' = cached \cup {at[c]} \/ UNCHANGED cached
  /\ GoesPast(c, at[c])
  /\ UNCHANGED <<WorkerUnchanged, awsVars, known, cancel>>

Worker(c) == \/ Take(c) \/ LoopEnds(c) \/ CreateRequest(c) \/ NoDestination(c)
             \/ Transfer(c) \/ FreeRequest(c) \/ Mark(c)

-----------------------------------------------------------------------------
(* The signal, which main looks at only while it waits, and the             *)
(* synchronizers deleted in the order they were begun.                      *)

DeleteUnchanged == <<scannerVars, awsVars, synchronizers, known, job, at, cached>>

Leave ==
  /\ Goto("wait", "delete")
  /\ UNCHANGED <<DeleteUnchanged, deleted, turn, cancel, point>>

NothingToWaitFor == synchronizers = <<>> /\ Leave
Signal           == synchronizers # <<>> /\ Leave

\* (mutant) the worker is told to stop and not joined
DeleteUnjoined ==
  /\ deleted < Len(synchronizers)
  /\ turn' = synchronizers[deleted + 1]
  /\ cancel' = [cancel EXCEPT ![turn'] = TRUE]
  /\ Goto("delete", "delete") /\ deleted' = deleted + 1
  /\ UNCHANGED <<DeleteUnchanged, point>>

\* stopAndCleanup looks for a worker to join and sets its flag.  The watcher may have
\* come in between and started another worker, and with it cleared the flag.
Delete ==
  /\ deleted < Len(synchronizers)
  /\ turn' = synchronizers[deleted + 1]
  /\ \/ point[turn'] \in {"none", "scan"} /\ Goto("delete", "unwatch") /\ UNCHANGED cancel
     \/ /\ point[turn'] \notin {"none", "scan"} /\ Goto("delete", "join")
        /\ cancel' \in {cancel, [cancel EXCEPT ![turn'] = TRUE]}
  /\ UNCHANGED <<DeleteUnchanged, deleted, point>>

Join ==
  /\ Goto("join", "unwatch")
  /\ Moves(turn, "exited", "none")
  /\ UNCHANGED <<DeleteUnchanged, deleted, turn, cancel>>

\* The watcher has returned from its last scan and is joined.
Deleted ==
  /\ Goto("unwatch", "delete")
  /\ Moves(turn, "none", "off")
  /\ deleted' = deleted + 1 /\ turn' = NoCatalog
  /\ known' = [known EXCEPT ![turn] = {}]
  /\ cancel' = [cancel EXCEPT ![turn] = FALSE]
  /\ UNCHANGED <<scannerVars, awsVars, synchronizers, job, at, cached>>

\* That scan has started a worker: a joinable thread is destroyed.
DeletedRunning ==
  /\ main = "unwatch" /\ point[turn] \notin {"none", "scan"}
  /\ main' = "ended" /\ Afresh

AllDeleted ==
  /\ deleted = Len(synchronizers) /\ Goto("delete", "exit")
  /\ UNCHANGED <<DeleteUnchanged, deleted, turn, cancel, point>>

-----------------------------------------------------------------------------
Crash == Running /\ main' = "ended" /\ Afresh

Restart == main \in {"done", "ended"} /\ main' = "setup" /\ Afresh

Main == \/ Scan \/ ScanReturns \/ BeginOpens \/ BeginFails \/ AllBegun
        \/ \E c \in Catalog : FirstScan(c) \/ (ByMain(c) /\ ScanFails(c))
        \/ NothingToWaitFor \/ Delete \/ Join \/ Deleted \/ DeletedRunning \/ AllDeleted \/ Exit

\* The worker of a synchronizer and, once it has been joined, its watcher.
Threads(c) == Worker(c) \/ ScanAgain(c) \/ (ByWatcher(c) /\ ScanFails(c))

Client == Initialise \/ LoadProfiles \/ StartScan \/ TearDown

Next == \/ Client \/ Main \/ Signal \/ Crash \/ Restart
        \/ \E c \in Catalog : Threads(c) \/ Notice(c)

\* The scheduler runs every thread, and calls into libraries return.
Spec == Init /\ [][Next]_vars /\ WF_vars(Main) /\ \A c \in Catalog : WF_vars(Threads(c))

-----------------------------------------------------------------------------
\* A file with faulty objects in it still gives every destination that it describes
\* completely, and no other (loadProfilesFromPath).
ProfilesAreLoaded ==
  main = "setup" => \A file \in Files : \A name \in Identifier :
                      name \in Accepted(file) <=> Describes(file, name)

Synchronized(d) == \E i \in DOMAIN synchronizers : synchronizers[i] = d

\* What a worker still has to put is not in the cache, unless its scan found the cache
\* busy and missed it there, or another synchronizer has recorded it since: then both
\* catalogs hold it.  What it has to remove is in the cache
\* (checkEntriesAgainstCachedPreviews over one previewscache.db).
PutAgainOnlyOnOverlapOrMiss ==
  \A c \in Catalog :
    /\ \A u \in job[c].add \cap cached :
         u \in job[c].missed \/ \E d \in Catalog \ {c} : u \in Own[d] /\ Synchronized(d)
    /\ job[c].remove \subseteq cached

Holds(c) == point[c] \in {"request", "free", "erase"}

\* Every scan lists what other catalogs have recorded as removed.  Still a synchronizer
\* sends requests for previews of its own catalog only, and records only those
\* (entryForUuid finds no others).
ForeignPreviewsStay ==
  \A c \in Catalog : Holds(c) \/ point[c] = "mark" => at[c] \in Own[c]

\* With one synchronizer the registry holds exactly the requests in use: none is lost
\* and none is left.  With two it need not (createRequestForDestination, freeRequest).
RegistryIsExact ==
  Len(synchronizers) <= 1 => requests = {c \in Catalog : Holds(c)}

\* A request points into the destinations and uses libcurl: there is none once main has
\* deleted the synchronizers and the client removes the one and shuts down the other.
RequestsEndBeforeTheirDestination ==
  \A c \in Catalog : Holds(c) \/ point[c] = "insert" =>
    Destination \in destinations /\ main \notin {"setup", "exit", "done", "ended"}

\* What is left of each batch, as SharedSync sees it.
work == [c \in Catalog |-> IF point[c] \in WorkerPoint THEN job[c] ELSE NoBatch]

Shared == INSTANCE SharedSync

\* Any number of synchronizers on one cache file, begun, signalled, deleted and crashed
\* in any order, keep to the promise of SharedSync.
ImplementsSharedSync == Shared!Spec

\* main gets to its loop, and a signal, or that there is nothing to synchronize, ends
\* the program: each deletion returns, whatever the other synchronizers are doing.
ProgramEnds ==
  main # "setup" ~> (main \in {"done", "ended"} \/ (main = "wait" /\ synchronizers # <<>>))
=============================================================================
