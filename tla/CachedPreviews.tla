--------------------------- MODULE CachedPreviews ---------------------------
(***************************************************************************)
(* lib::CachedPreviews (src/src/cachedpreviews.cpp): previewscache.db, the  *)
(* previews already handled, with one table PreviewsCache.  The file comes  *)
(* into being in two steps: opening it with SQLITE_OPEN_CREATE makes an     *)
(* empty file, a statement then creates the table.  Several rows for one    *)
(* uuid are not told apart.                                                 *)
(***************************************************************************)
CONSTANT Uuid

VARIABLES file,     \* previewscache.db: "absent", "empty" (no table) or "table"
          marked,   \* the uuids in its table
          conn      \* _sqliteDatabase: "none", "creating" or "open"

cacheVars == <<file, marked, conn>>

TypeOK ==
  /\ file \in {"absent", "empty", "table"}
  /\ marked \subseteq Uuid
  /\ conn \in {"none", "creating", "open"}
  /\ marked # {} => file = "table"

Init == file = "absent" /\ marked = {} /\ conn = "none"

-----------------------------------------------------------------------------
(* loadOrCreateDatabase: an existing file is opened without looking into it.*)

LoadExisting ==
  /\ file # "absent"
  /\ conn' = "open"
  /\ UNCHANGED <<file, marked>>

\* createCachedPreviewsDatabase: sqlite3_open_v2 with SQLITE_OPEN_CREATE ...
CreateFile ==
  /\ file = "absent"
  /\ file' = "empty" /\ conn' = "creating"
  /\ UNCHANGED marked

\* ... and CREATE TABLE.
CreateTable ==
  /\ conn = "creating"
  /\ file' = "table" /\ conn' = "open"
  /\ UNCHANGED marked

\* Either step fails, and loadOrCreateDatabase() returns false: nothing uses the
\* handle until it is called again.
LoadFails == conn' = "none" /\ UNCHANGED <<file, marked>>

\* generateProxy: the sets of uuids it may leave in its argument.  Without the table
\* the query cannot be prepared; a prepare or step that fails, because the file is busy
\* or cannot be read, ends the rows before their end, and nobody looks at the result.
Proxies(fails) ==
  {read \in SUBSET marked : IF file # "table" THEN read = {} ELSE fails \/ read = marked}

\* markAsCached: an autocommitted INSERT.
Mark(u) ==
  /\ conn = "open" /\ file = "table"
  /\ marked' = marked \cup {u}
  /\ UNCHANGED <<file, conn>>

Close == conn' = "none" /\ UNCHANGED <<file, marked>>
=============================================================================
