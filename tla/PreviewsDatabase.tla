-------------------------- MODULE PreviewsDatabase --------------------------
(***************************************************************************)
(* lib::PreviewsDatabase (src/src/previewsdatabase.cpp): Lightroom's        *)
(* previews.db, opened read-only.  Every query is a statement of its own,   *)
(* so Lightroom may commit between any two of them.  A commit writes the    *)
(* rows of one preview in the tables Pyramid, ImageCacheEntry and           *)
(* PyramidLevel together: they are one version of the preview.  What has    *)
(* been read of an entry is kept in memory for the life of the object.      *)
(***************************************************************************)
EXTENDS Naturals

CONSTANTS Uuid, Version   \* 0 is no Version

VARIABLES row,      \* the committed version of each preview, 0 if it has no rows
          handle,   \* _sqliteDatabase: "none", "open", or "bad" after a failed open
          entries,  \* _cachedEntries: what entryForUuid() has read, or NoEntry
          unread,   \* the rows that the SELECT under way has not returned yet
          digest    \* entryForUuid(): the version of the digest it has just read

databaseVars == <<handle, entries, unread, digest>>

NoEntry == [digest |-> 0, levels |-> 0]
Entry   == [digest : Version, levels : Version]

TypeOK ==
  /\ row \in [Uuid -> Version \cup {0}]
  /\ handle \in {"none", "open", "bad"}
  /\ entries \in [Uuid -> Entry \cup {NoEntry}]
  /\ unread \subseteq Uuid
  /\ digest \in Version \cup {0}

Constructed == handle = "none" /\ entries = [u \in Uuid |-> NoEntry] /\ unread = {} /\ digest = 0

Init == row = [u \in Uuid |-> 0] /\ Constructed

Commit(u, v) == row' = [row EXCEPT ![u] = v] /\ UNCHANGED databaseVars

-----------------------------------------------------------------------------
(* initialiseWithFile and reopen.  sqlite3_open_v2 leaves a handle also     *)
(* when it fails, so a later reopen() tries again.                          *)

Open(ok) ==
  /\ handle' = IF ok THEN "open" ELSE "bad"
  /\ UNCHANGED <<row, entries, unread, digest>>

Reopen(ok) == handle # "none" /\ Open(ok)

-----------------------------------------------------------------------------
(* checkEntriesAgainstCachedPreviews.  The uuids of the cache that a row    *)
(* matches are struck out; the rest is no longer in previews.db.            *)

\* SELECT uuid FROM Pyramid, and one step of it: the rows come in any order.  A
\* commit while they are read is not seen by this statement.
SelectUuids ==
  /\ unread' = {u \in Uuid : row[u] # 0}
  /\ UNCHANGED <<row, handle, entries, digest>>

StepRow(u) ==
  /\ u \in unread
  /\ unread' = unread \ {u}
  /\ UNCHANGED <<row, handle, entries, digest>>

FinalizeRows == unread' = {} /\ UNCHANGED <<row, handle, entries, digest>>

\* (mutant) a uuid that is struck out is added as well
ScanRowAddingAll(actions, u) ==
  [actions EXCEPT !.remove = @ \ {u}, !.add = @ \cup {u}]

\* (mutant) a uuid found in the cache is not struck out
ScanRowKeeping(actions, u) ==
  IF u \in actions.remove THEN actions ELSE [actions EXCEPT !.add = @ \cup {u}]

ScanRow(actions, u) ==
  IF u \in actions.remove THEN [actions EXCEPT !.remove = @ \ {u}]
                          ELSE [actions EXCEPT !.add = @ \cup {u}]

-----------------------------------------------------------------------------
(* entryForUuid.                                                            *)

Known(u) == entries[u] # NoEntry

\* (mutant) the result of the step is not tested for SQLITE_ROW
SelectDigestUntested(u) ==
  /\ ~Known(u)
  /\ handle = "open"
  /\ digest' = row[u]
  /\ UNCHANGED <<row, handle, entries, unread>>

\* SELECT digest FROM ImageCacheEntry
SelectDigest(u) ==
  /\ ~Known(u)
  /\ handle = "open" /\ row[u] # 0
  /\ digest' = row[u]
  /\ UNCHANGED <<row, handle, entries, unread>>

\* SELECT level,longDimension FROM PyramidLevel; the entry is kept
SelectLevels(u) ==
  /\ row[u] # 0
  /\ entries' = [entries EXCEPT ![u] = [digest |-> digest, levels |-> row[u]]]
  /\ digest' = 0
  /\ UNCHANGED <<row, handle, unread>>

\* One of the two queries fails or finds nothing.
NoSuchEntry(u) == digest' = 0 /\ UNCHANGED <<row, handle, entries, unread>>
=============================================================================
