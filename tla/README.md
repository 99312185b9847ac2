# TLA+ models of Enlighten Desktop

Enlighten Desktop watches the preview databases of Lightroom catalogs, reencodes the previews that are
new and puts them into an S3 bucket; what it has handled it remembers in a cache database. This directory
holds TLA+ models of the program, the TLC configurations that check them and proofs for TLAPS.
`PROJECT.json` maps every definition to the lines it stands for.

## Inventory

| Component | State | Operations | Talks to |
|---|---|---|---|
| `Watcher` (`src/src/watcher.cpp`) | `_shouldPoll`, `_workerThread`, the thread's baseline time | begin, stop, poll loop | the file (two `stat()` calls), its delegate |
| `PreviewsSynchronizer` (`src/src/synchronizers/`) | `_state`, worker thread, promise, cancel flag, file, watcher | begin, stop, destructor, `fileHasChanged`, `processChanges`, `crunchAndUpload` | everything below |
| `PreviewsDatabase` | SQLite handle, `_cachedEntries` | open, reopen, scan against the cache, `entryForUuid` | previews.db, written by Lightroom |
| `CachedPreviews` | SQLite handle; the table PreviewsCache | load or create, `generateProxy`, `markAsCached` | previewscache.db, shared by all catalogs |
| `AwsRequest` | state, cancel flag, response, data pointers and counters, curl handle | HEAD, GET, PUT, DELETE, cancel, reset | libcurl's callbacks, the caller's buffers |
| `Aws` | destinations, set of live requests | initialise, add and remove destinations, create and free requests | `AwsRequest` |
| CLI (`src/src/cli.cpp`) | the synchronizers | start one per catalog, stop all on a signal | `Scanner`, `PreviewsSynchronizer` |
| `Scanner` | the set of file pairs | scan a directory | the directory, CLI |
| `AwsProfilesLoader` | the parsed file | load profiles | `Aws` |
| `LrPrev`, `PreviewEntry` | the open .lrprev file and its position; the levels of a preview | open, extract the image of a level; choose a level | `PreviewsSynchronizer`, the files Lightroom writes |
| `Jpeg`, `JpegCruncher` | libjpeg's structures, the output buffer and its write position | decode, encode, write to memory; reduce | libjpeg's callbacks |
| `File`, settings, logger | none that matters between calls | input and output | |

Three threads share one `PreviewsSynchronizer`. *Main* begins, scans once, and later stops or destroys the
object. The *watcher* polls the modification time of previews.db and calls `fileHasChanged`, which scans
again. A scan that finds differences starts the *worker*, which takes the previews one by one: look up,
load, reencode, request, record. The members are shared without a lock; a mutex covers the lookup of one
entry and the recording of one preview only. An exception that leaves a thread ends the process.

What is hard: the three threads with two joins and a promise that gives its future once; Lightroom
committing between any two queries and holding locks that read as an empty table; whole-second times;
steps that fail half way; a process that ends between a request and its record; libcurl's callbacks
against a cancel from another thread; request objects that are used again; a file that is read while it is
written; an output buffer moved between two calls of its writer; rescaling at the edges of an image;
several synchronizers on one cache file and one unlocked registry; a directory read in any order into a
set whose order is not an order.

What makes each part correct:

- Watcher: it lives exactly from begin to stop, reports every later change, never an accepted one again,
  and stops promptly.
- Synchronizer: a scan never runs beside a worker; batches follow one another; what a batch holds agrees
  with what was read of the cache; batches end, and stops whose own join does not throw.
- Database and cache: a scan yields the difference of what it reads; a recorded preview is put again only if
  its record could not be read when the batch was drawn up.
- Request: its outcome is final and belongs to the latest call; success means that the caller has the whole
  body of a GET, and that the server was handed the first chunk of a PUT as it is; cancel ends it.
- Image path: the level chosen is long enough and the bytes extracted are its; the walk over a file ends; the
  reduction of an image of three components reads inside it; what is put is the whole output of the encoder.
- Scanner and loader: the halves of a pair belong together whatever the order of the directory; a pair is
  left out only for one that clashes with it; a faulty object of a profile file costs no other destination.
- Registry and CLI: no request outlives the destination it points into; with one synchronizer none is lost
  or left; synchronizers that share a cache leave each other's objects alone, and put what is recorded there
  only where their catalogs overlap or the file was busy when it was read; a signal ends the program.

## Modules

| Module | Stands for | Kind |
|---|---|---|
| `Watcher` | the watcher with its file | component; its actions are also used by `PreviewsSynchronizer` |
| `MCWatcher` | adds a history variable: delegate calls since the flag was cleared | model |
| `BatchSync` | what a synchronizer promises: one batch at a time, drawn up against what was read of the cache | abstract specification |
| `SharedSync` | what several synchronizers promise that share one cache | abstract specification |
| `PreviewsSynchronizer` | main, watcher and worker; composes `Watcher` (`W`), refines `BatchSync` (`B`) | component |
| `PreviewsDatabase`, `CachedPreviews` | the two databases, as actions without a specification of their own | components |
| `PreviewCycle` | composes them (`D`, `C`) into one synchronizer's data path over several runs of the program; refines `BatchSync` (`B`) | composition |
| `MCPreviewCycle` | the versions each preview of its instance comes in | model |
| `AwsRequest` | one request object with libcurl, the server and a cancelling thread around it | component |
| `LrPrev`, `Jpeg`, `JpegCruncher` | a preview's file, the encoder with its buffer, the arithmetic of the reduction | components |
| `PreviewImage` | composes them (`LrPrev` as `L`) with the choice of a level into one turn of the worker | composition |
| `Scanner`, `AwsProfilesLoader`, `Aws` | the scan of a directory, what a profile file gives, the registry of destinations and requests | components |
| `Program` | composes them (`Aws` as `A`) with main of the CLI and several synchronizers over one cache; refines `SharedSync` (`Shared`) | composition |
| `MCProgram` | the names, catalogs and profile files of its instance | model |
| `WatcherProofs`, `SyncProofs`, `SyncRefinement`, `AwsRequestProofs`, `ImageProofs`, `ScannerProofs`, `ProgramProofs`, `CycleProofs` | theorems | proofs |

**Watcher.** `wpc` is the thread's place in `pollForChanges`; `caller` is the owner's in `stop()`. Each
`stat()` is a step: the second one's result is not checked, so with the file gone in between the time is
any value (an uninitialized `struct stat`); `MaxTime + 1` stands for a value beyond every real time. The
inner wait loop is one step, as both of its exits lead to the outer test. The delegate is open: it returns
with `Return(TRUE)` or `Return(FALSE)`. `_shouldPoll` and `_cancelWorking` are `volatile bool`, formally a
data race; on the platforms the program is built for, a load sees either the old or the new byte, and both
are behaviours of the models.

**PreviewsSynchronizer.** `pc` holds the place of each thread. Where two lines touch state that another thread
uses there are two steps: `get_future` and the look at its status, that and the test, the new promise and the
new thread, the cancel flag and the join. If main has replaced the promise between the first two, the future
is of an abandoned promise, which counts as ready. `Terminate(reason)` stands for `std::terminate`: a second
`get_future`, a join of a thread that is not joinable or is being joined, assignment over or destruction of a
joinable thread. `pathOfPreviewsDatabaseFile()` after main has deleted the file is undefined, and ends the
process here. `Restart` begins again with the stores as they are. A preview is its uuid; `plan` is the map a
scan fills, `job` what the worker has not gone past. The cache may be read in part (the fault `cache`): what a
scan adds although it is recorded is kept in `missed`, here and in every other model of a batch. The request
is one step, as nothing of the synchronizer is touched meanwhile and its result is only logged.

**SharedSync.** Three levels of detail describe the same work: the threads of one synchronizer, the data of
one synchronizer, and many synchronizers in outline. `BatchSync` and `SharedSync` are what they have in
common. A batch drawn up against the cache may meanwhile be overtaken by what another synchronizer records, so
`SharedSync` promises less than `BatchSync` for every catalog would: what is left of a batch may be in the
cache although the reading did not miss it, but only previews of a catalog's own are recorded by it. With one
catalog the two agree about the cache and the batches; the bucket is in `BatchSync` only.

**PreviewCycle** takes the threads as one sequence, which `ScansAlone` justifies, and follows the data
instead: a preview is a version (its digest), with rows in three tables committed together, a file named after
the digest, an entry kept in memory (`entries`) and an object per uuid and digest. A scan takes the rows of
its statement one by one, in any order, and a busy database may end them early. Before that it takes what
`generateProxy` leaves (`Proxies`): all that is recorded, or, as the code ignores a prepare or a step that
fails, any part of it. The statement does not see what is committed while it runs, so a commit comes after it
(`pc # "rows"`). The entry's digest and levels come from two queries with room for a commit between them. A
file that is there and fits its entry may still not be opened, extracted, decoded or compressed (the fault
`local`). `Rendered` are the versions Lightroom makes of each preview. `Crash` may come between any two steps,
also between the creation of the cache file and of its table.

**AwsRequest.** A body is a sequence of blocks tagged with the call they belong to, so a block of an earlier
call or at the wrong place is visible. `stored` is what the server got, `served` what it sent. A callback that
sees the cancel flag makes `curl_easy_perform` fail. A HEAD may receive a body, as the code sets
`CURLOPT_HTTPGET` after `CURLOPT_NOBODY`. The read callback writes behind what it has transferred *in
libcurl's buffer*: from the second chunk on the server gets other memory (`Junk`). What the write past the
buffer destroys is undefined; the model goes on with the transfer, so it says nothing of a process that does
not survive it. That a server answers a PUT with 200 only when it has read every block is an assumption about
the server. `prepareRequest()` has a branch for an object that is not idle; no caller reaches it.

**PreviewImage** follows one preview from its lookup to its request. A file is a sequence of fields (marker,
JSON, per level a descriptor, image and padding) instead of bytes, cut anywhere behind the marker, as it may
be read while Lightroom writes it. Entry and file may be of different versions, so the level wanted need not
be in the file. Where a descriptor is cut off the code parses memory it has not filled: any number, or none.
The body of an image is a sequence of parts, and of `Jpeg`'s output only the number and the order of the bytes
count. `Targets` and the taps of `JpegCruncher` are integers; a product in single precision that is truncated
is the exact value or one less. libjpeg is external: it decodes anything to an image of some size and of one,
three or four components or, for what it cannot read, ends the process (`DecoderExits`). `reencodeJpeg` takes
each image for one of three bytes per pixel. A tap is four bytes of which three are used (`BytesInside`); the
fourth is masked out, and at the last pixel of an image it lies behind the source. The rows and the buffer of
an image of one component end before the bytes used do, and so do the sides of an image one pixel wide or high
that is enlarged: whatever that does, it may end the process (`Overruns`). Sizes are taken to be such that a
buffer has less than 2^32 bytes. The test of `_cancelWorking` between the steps is in `PreviewsSynchronizer`.

**Program** is main of the CLI with everything it starts. `main` is its place; `synchronizers` the vector,
which never shrinks, and `deleted` the index of the cleanup loop; `turn` is the catalog being begun or
deleted. Each synchronizer keeps what it shares with the others or with main: its `job`, the entry it is `at`,
the names it has `known` (`_cachedEntries`), and `point`, where its worker is, or where its watcher is when
there is no worker. The other threads of one synchronizer and the ways they can end the process are the
subject of `PreviewsSynchronizer`; here `Crash` may come at any step, and that the watcher's scan clears the
flag main has just set is a choice in `Delete`. `Own` is what Lightroom may have in a catalog. As it commits
between any two queries, and a busy database reads as an empty one, a scan finds any subset of it. No
connection to the shared cache has a busy timeout, so while one worker writes another's scan may read any part
of what is recorded, and its own record may fail. A client like the integration tests may initialise the
registry and load profiles first, and remove the destination, all destinations or shut down at the end; the
CLI does neither. `applicationSignalStatus` is read only while main waits, so the signal is merged with that
test.

**Aws.** A request is named by the catalog whose worker created it. `_requests` is changed without a lock:
insertion and erasure are two steps each, what was found and what is written, and of two that overlap the
later one wins (`view`). Such a lost update is one outcome of the data race, the end of the process another.

**Scanner.** A name is a sequence of tokens that compare like the strings they stand for (" " before "-2",
"Previews" before "smart"), so that catalog, previews, smart previews, lock files and upgraded catalogs meet
the same tests as in the code. `std::set::insert` only compares along one path of its tree: `Ends` has every
place at which the search can end, whatever the tree's shape, and `Inserted` is what happens there.

**AwsProfilesLoader** is a pure function of a parsed file; `Describes` says the same without the order in
which the code takes the file apart. The JSON parser is external.

The operators marked *(mutant)* are plausible bugs of the definition after them. No specification uses
them: each stands in for that definition to show that a property would notice.

## Runs

| Run | Bounds | Shows |
|---|---|---|
| `watcher` | times up to 3, file may vanish | the watcher's life, `AcceptedTimeGrows`, `ChangeIsReported`, `StopReturns`, at most one late call |
| `sync_safety` | 2 previews, times up to 2, faults at every step and a cache read in part | types, `ScansAlone`, refinement of `BatchSync` |
| `sync_liveness` | 1 preview, times up to 3, object used again, no faults | `BatchIsUploaded`, `LateAdditionIsTakenUp`; `StopReturns`: once past the test of its own join, stop ends unless the watcher's thread throws |
| `aws_request` | 2 calls, a body of 3 blocks in chunks of 2, a response of 2 | the four promises of a request above |
| `preview_cycle` | 2 previews, one in 2 versions, up to 2 files at a time, six kinds of faults | `ScanIsDifference`, `PutAgainOnlyIfMissed`, refinement of `BatchSync` |
| `preview_image` | levels up to 3, images of 1 or 2 fields and of 1, 3 or 4 components, padding of 0 or 1, buffer grown by 2, output up to 5 | the level, the bytes extracted, the taps, the output; that the walk goes forward and ends |
| `program` | directories of up to 4 of 8 entries around 3 catalogs, two of which share a preview; files with up to 2 access profiles and 2 destinations | pairing, `PutAgainOnlyOnOverlapOrMiss` and collisions in the registry, the life of requests, refinement of `SharedSync`, `ProgramEnds` |
| `busy_change`, `stop_throws`, `stop_leaves_worker`, `settled_means_stored` | 1 preview | four statements of the tests the synchronizer does not keep |
| `stale_entry` | 1 preview | a statement of the tests the data path does not keep |

Why the bounds are enough. Two previews are needed for one to be in a batch while another changes, and no
guard counts further. The watcher compares two times; a third value gives a second change while the first is
being handled, and the same second is included as `Write` may keep the time. Two calls show what one leaves
for the next; two blocks of a response show order and append, three of a body in chunks of two a second chunk
that is shorter. In `preview_cycle` a preview in two versions gives an entry that is old, and one more, whose
single version is enough, a batch of two and a cache that is read in part; `MaxFiles = 2` lets both previews,
or both versions of one, have a file at once, and bounds nothing over time. The synchronizer restarts as often
as it likes. `sync_safety` has `MaxTime = 2`: a batch that begins, ends and is followed by another needs one
change of the time. In `preview_image` level 1 is just as long as wanted, which the code does not take, and
levels 2 and 3 are longer; an output of up to 5 with a buffer grown by 2 ends inside an allocation, at its
edge and after two moves; decoded images smaller, as long as and longer than the longest dimension, wide and
high, meet each branch of the reduction. In `program` catalogs A, A-2 (an upgrade of A, with the same preview
1) and B (with preview 2) are the fewest with which two workers collide on a preview, in the registry, and a
third is none of their business; A and A-2 also clash in the order of pairs, so that the set depends on which
of their halves the directory has. Four entries hold two complete pairs, or one with a lock file and smart
previews that overwrite its halves.

Deadlock is checked in every run: each process may be restarted, called or reset again.

**Assumed of the environment.** Fairness is weak and per thread: main, watcher, worker. The code justifies it
by using operating-system threads that are never blocked by a lock held for ever; calls into SQLite, libcurl
and libjpeg are assumed to return. The watcher's delegate returns. Nobody has to begin, to stop, to cancel or
to write the database. `AwsRequest` assumes only that libcurl calls the progress callback while a transfer
lasts, as its documentation says, and that the thread itself runs. The server owes nothing. `PreviewImage` is
fair to `Extract`: the worker's thread runs. `Program` is fair to main and, per catalog, to the worker or the
last scan of the watcher; nobody has to send the signal, and the watcher need not notice a change. In
`PreviewCycle` the synchronizer is one fair sequence; the only property that uses it is violated.

The worker's request ends in `PreviewsSynchronizer` by assumption. In the code it need not: no time limit
is set and stop does not cancel the request, so a silent server blocks stop for as long as it likes.
`CancelEndsCall` shows that calling `cancel()` would end it.

**What the promises leave out.** `ScansAlone` and `ImplementsBatchSync` are stated for `Reuse = FALSE`; types
and stops need no such limit. With `Reuse = TRUE` the worker of `stop_leaves_worker` is still busy when the
next begin scans, and the two overlap (visible by changing the constant in `SyncSafety.cfg`, with `MaxTime =
3`). A list of cached previews that is not read to its end is in the promises, as `missed`: the code goes on
with what it has, and what it has missed is put again. A removal may be wrong where previews.db is busy and
reads as an empty one: the batch then removes what Lightroom still has. `BatchSync` allows that, as it speaks
of the cache only.

## Where code and tests disagree

- `busy_change`: `fileHasChanged` takes the future of one promise once per call. Two changes noticed during
  one batch, or before any batch was started, end the process. The tests say such a change is refused.
- `stop_throws`: main tests `joinable()` and joins three lines further on; a watcher that has found the batch
  finished joins the same worker. Whoever comes second throws `std::system_error`: main out of the stop that the
  tests expect to return true, or the watcher out of its thread, which ends the process.
- `stop_leaves_worker`: main finds no worker, the watcher then starts one, main stops the watcher and is
  done. The object is destroyed with a joinable thread.
- `settled_means_stored`: a preview removed from the bucket is recorded as cached, as is one whose request
  failed. Nothing will upload it again.
- `stale_entry`: `_cachedEntries` survive `reopen()`; a preview that is rendered again is looked for under
  its old name. The same memory is the only way a removal can find the name of the object to delete, so
  objects of previews removed between two runs of the program stay in the bucket.

Met while modelling; no text of the repository says otherwise, so they are no runs:

- A process that ends between the creation of `previewscache.db` and that of its table leaves a file that
  every later run loads with success and none can write.
- The result of `generateProxy` is not looked at: when the cache file is busy or cannot be read, what is
  recorded there is put again. With several synchronizers on one file that takes no failure, only another
  worker that writes.
- `reencodeJpeg` does not look at the number of components: a grayscale preview is read and written as three
  bytes per pixel, past its row and its buffer.
- With two synchronizers the registry may lose a request or keep one that is freed, and the assertion in
  `src/src/aws/aws.cpp:19` need not hold. That is why `RegistryIsExact` speaks of one.
- Two complete pairs like A and A-2 are equivalent to the set of pairs, as "A-2" comes after "A" and
  "A-2 Previews" before "A Previews" or the other way round; one of the catalogs is never synchronized.
- Every scan lists what other catalogs have recorded as removed. Nothing is deleted for it, because
  `entryForUuid` does not find these previews (`ForeignPreviewsStay`), but a uuid in two catalogs that is
  removed from one has its object deleted under the other.
- The CLI never initialises the registry or loads a profile: every request is refused, and every preview
  is recorded as cached.
- `processChanges()` on the watcher's thread clears `_cancelWorking` after main has set it and before main is
  in `join()`: main then waits for a whole batch. It still returns (`StopReturns`).
- A root path with a separator inside and none at its end is joined to the names without one.

## Proofs

TLAPS proves, for every set of previews and all bounds:

- `WatcherTypeCorrect`, `ThreadLife`, `OneLateCall`, `AcceptedTimeNeverFalls` (`WatcherProofs`).
  `ThreadLivesUntilStopped` is not inductive: the thread leaves its loop because of the flag, and the flag is
  down because of the owner. `IInv` adds `FlagMeansStop`, that the flag is up exactly while no `stop()` is under
  way, and `ReportsAreLater` for the times. `OneLateCall` rests on a case split on where the thread is: once
  inside the loop body it can enter the delegate, back at the test it cannot.
- `SyncTypeCorrect`, `StopJoinsWatcher`, `ScansExclude`, `ThreadsImplementBatchSync`, `TransfersStayValid`
  (`SyncProofs`, `SyncRefinement`). The inductive invariant has three layers, and each assumes what it needs
  and no more. `ThreadInv` needs nothing, so types and what stop leaves behind of the watcher are right
  however often an object is used and whatever fails: the worker exists exactly while `_workerThread` is
  joinable, the watcher's thread exactly while there is a `_watcher`, of main and watcher at most one waits
  for the worker (`JoinsInOrder`, of joins that do not throw), and main passes the join of the watcher only
  with its thread gone. `ControlInv` needs `~Reuse`: while main begins or scans there is no worker and the
  watcher is not scanning, and the watcher scans only after it has joined. `BatchInv` rests on the two others:
  what was drawn up agrees with the cache, but for what was missed, when the thread is started (`Agrees`), and
  so does what is left of a job after each record. The refinement maps `work` to the job of an active worker;
  each step of a thread is a step of `BatchSync` or leaves its variables alone, a termination is `Abandon`.
- `ThreadsImplementSharedSync` (`SyncRefinement`), `ProgramImplementsSharedSync` and `SharedSyncKeepsApart`
  (`ProgramProofs`): the threads of one synchronizer in detail and many synchronizers in outline implement the
  same specification, the first (for an object that is used once, `UsedOnce`) with a single catalog that owns
  every preview. So about the cache and the batches the outline claims nothing that the threads do not keep
  to. For one synchronizer each step of `BatchSync` is one of `SharedSync` (`BatchStepIsShared`). For
  `Program` each action is taken through `Shares`; that a worker records a preview of its batch and its
  catalog needs `Within` beside its invariant. `SharedSyncKeepsApart`: what `SharedSync` promises is enough
  for a batch to put what the cache holds only if its reading missed it or two catalogs hold it.
- `RequestTypeCorrect`, `NothingLeftOver`, `SuccessHolds`, `OutcomeStays` (`AwsRequestProofs`), from
  `RequestAssumption` alone. The inductive invariant says what reset() and the callbacks maintain: an idle
  object holds nothing (`IdleIsFresh`), what is kept is what the server sent in the latest call
  (`KeptIsServed`), during a call the counter, the pointers and the buffers agree (`CallAgrees`), and of a PUT
  of any size the server has nothing or at least the first chunk as it is, and after an answer of 200 as many
  blocks as the data has, which is the assumption about the server (`PutAgrees`). `GrownAppends` is the lemma
  behind it: where the counter agrees with the buffer, `writeToBuffer()` appends.
- `JpegTypeCorrect`, `BufferIsOutput`, `TapsStayInside` (`ImageProofs`), from `JpegAssumption` (the buffer
  grows by at least one byte) and nothing about the image. The write position, the free space and the size
  agree at each call of libjpeg (`Filling`) and nothing counts as written before the first (`Unwritten`);
  so a move keeps what was written and the last call cuts off exactly the rest. `TapsStayInside` holds for
  every side of the source but 1, and every target: `QuotientBelow` bounds the truncated product.
- `ImageLevelIsClosest`, `ImageTapsAreInside`, `ImagePutIsAnImage` (`ImageProofs`, of `PreviewImage`), from
  `ImageAssumption`. `Chosen` keeps that the level is the first that is longer; that there is a first one is
  `Least`, from the well-founded order of the natural numbers. `Measured` and `Encoding` tie the place of the
  worker to the decoded image, its target and the phase of the encoder: with a side of 0, or not of three
  components (`Refused`), the target stays empty, so `compress()` fails and nothing is put. `ThickSides` is
  why reducing is safe where enlarging is not: an image of one pixel one way that is reduced has a target of 0
  that way. `PixelStaysInside` turns `TapsStayInside` into bytes and `BytesStayInside` adds the target's; both
  are of images of three components or more.
- `ImageExtractedIsTheLevel`, `ImageTypeCorrect` (`ImageProofs`, of `PreviewImage`), from `ImageAssumption`, for
  files of any number of levels. `FlattenIsJoined` turns the fold that writes a file into the pieces side by
  side (`JoinExists` finds them by a least counterexample), and `Layout` says of a file where each level
  ends (`Ends`). `FileInv` then follows the reader: before each header it stands behind some level, none so
  far being the one wanted (`Behind`), and from there `Descriptor` gives it the fields of the next. A file cut
  off by a writer that is not done is allowed for (`Cut`): of that one only `ImageWalkGoesForward` is promised,
  that each turn ends further on than it began (`TurnGoesForward`, from the same `Descriptor`).
- `CycleTypeCorrect`, `CycleScanIsDifference`, `CyclePutsAgainOnlyIfMissed` (`CycleProofs`), for any previews,
  versions and faults. `Reading` says what the scan has after each row: it has struck out, in both directions,
  exactly the rows read, and began with what was read of the cache (`Seen`). `Looked` ties the place of the
  worker to the digest and the entry it has read, and `Pending`, that nothing still to be put is in the cache
  unless it was missed there, survives crashes because a new process starts with nothing to do.
- `CycleImplementsBatchSync` (`CycleProofs`) carries the promise of the threads over to the data. The map is a
  batch for `BatchSync` from the end of the scan on; then `Reading` gives that it agrees with the cache, as
  nothing records in between. A request puts or deletes the object of one version, so a preview leaves the
  bucket when the last of its objects does. `Stop`, `Crash` and `Gone` abandon what is left.
- `ProgramPairsFiles`, `ProgramDropsOnlyClashes`, `ProgramPutsAgainOnlyOnOverlapOrMiss`,
  `ProgramLeavesForeignPreviews`, `ProgramRegistryIsExact`, `ProgramRequestsEndFirst` and `ProgramTypeCorrect`
  (`ProgramProofs`, on the lemmas of `ScannerProofs`), from `ScannerAssumption` and `ProgramAssumption`: names
  are sequences of tokens, catalogs are paths that are not empty, and a profile file lists objects with known
  names. `ScannerInv` has that a pair is copied only when the directory is read, and that each entry read has
  its pair; the order of what is kept rests on `BeforeTransitive`, the transitivity of the order of strings,
  since the search compares with two neighbours only. `MainInv` ties main to the threads: a synchronizer that
  is not `"off"` is in main's hands or in the undeleted part of the vector (`Owned`), and outside the middle
  of the program that part is empty (`Stopped`); from it follows that no request is left when destinations go.
  `Known` is that a worker keeps entries of its own catalog only. `Undisturbed` is why one synchronizer leaves
  the registry exact: nothing changes the set between what it found and what it writes.
  `ProgramDeletionsFindTheirThread` is that main deletes each synchronizer once and while it is alive, and
  joins only a worker that is there; it rests on main beginning none that is in the vector (`Deleting`).
- `ProgramProfilesAreLoaded` (`ProgramProofs`), from `ProgramAssumption`. `parseAccessProfiles` and
  `parseDestinations` are loops with `insert()`: `FirstStays` says by a least counterexample that such a loop
  ends with the keys that were kept, each with the value that came first, and `FirstExists` that a key
  that was kept has a first. `AcceptedIsDescribed` puts the two loops together.

Only model-checked: every property under fairness (`StopReturns`, `ChangeIsReported`, `BatchIsUploaded`,
`LateAdditionIsTakenUp`, `CancelEndsCall`, `WalkEnds`, `ProgramEnds`), as liveness is out of the prover's
reach here. Of `WalkEnds` the safety part is proved: there are no more turns than fields. Every invariant,
action property and refinement that a run checks is a theorem.

## Not modelled

- SQLite and libb64 (`src/thirdparty/`) are vendored; SQLite appears by its result codes. `sqlite3.c` is more
  than nine tenths of the C and C++ in the repository, so a share of all its lines that the map covers
  says little; of the program's own files nearly every line that changes state is mapped.
- Settings: a map of values that nobody writes while synchronizing. Logger: output only. `LrCatSynchronizer`
  is declared and never implemented.
- `numberOfPreviewEntries`, `uuidForIndex`, `numberOfCachedPreviews` and `isInCache` change nothing and are
  called by tests only. File copying, the tests of the command line and the mixing of colours have no behaviour
  over time. Statements that `CachedPreviews` never finalizes, and memory, are left out.
- An unreadable JPEG ends the process in libjpeg's default error handler: `DecoderExits` in `PreviewImage`, a
  crash in the other models.
- What a data race may do beyond a lost update and the end of the process.

## Plan

Nothing of the program that changes state is left to model in outline. A detailed `Program` that has every
`PreviewsSynchronizer` whole is beyond TLC (two of them with faults have more states than one has
squared); `SharedSync` relates the two levels instead. What it does not relate yet:

- the bucket, which `SharedSync` leaves out: with it, `settled_means_stored` could be stated for several
  catalogs;
- `PreviewCycle` and `Program`, which agree through `BatchSync` and the threads only;
- `ThreadsImplementBatchSync` for an object that is used again: a weaker `BatchSync` in which a batch may be
  drawn up beside another one would hold there.
