------------------------------ MODULE BatchSync ------------------------------
(***************************************************************************)
(* What lib::PreviewsSynchronizer promises, without its threads: previews   *)
(* are handled in batches, one batch at a time.  A batch is drawn up        *)
(* against what could be read of the cache of previews already handled, so  *)
(* an object is put only for a preview that was not read there, and deleted *)
(* only for one that was.  Each batch keeps with it which of its previews   *)
(* the reading missed: none, if the cache can be read.  A preview enters    *)
(* the cache when its batch has dealt with it, and never leaves it.  Any    *)
(* preview of a batch may be skipped, and a batch may be abandoned at any   *)
(* moment (a stop, or the end of the process).                              *)
(* PreviewsSynchronizer.tla is shown to implement this specification.       *)
(***************************************************************************)
CONSTANTS Uuid,
          MayMiss   \* may the reading of the cache miss what the cache holds?

VARIABLES cached,   \* the previews recorded as handled
          remote,   \* the previews that have an object in the bucket
          work      \* what is left of the current batch

vars == <<cached, remote, work>>

Work   == [add : SUBSET Uuid, remove : SUBSET Uuid, missed : SUBSET Uuid]
NoWork == [add |-> {}, remove |-> {}, missed |-> {}]

Items(w)      == w.add \cup w.remove
Without(w, u) == [add |-> w.add \ {u}, remove |-> w.remove \ {u}, missed |-> w.missed \ {u}]

TypeOK == /\ cached \subseteq Uuid
          /\ remote \subseteq Uuid
          /\ work \in Work

Init == cached = {} /\ remote = {} /\ work = NoWork

DrawUp ==
  /\ work = NoWork
  /\ work' \in Work
  /\ work'.missed \subseteq cached /\ (work'.missed # {} => MayMiss)
  /\ work'.add \cap cached \subseteq work'.missed
  /\ work'.remove \subseteq cached
  /\ UNCHANGED <<cached, remote>>

Put(u) ==
  /\ u \in work.add
  /\ remote' = remote \cup {u}
  /\ UNCHANGED <<cached, work>>

Delete(u) ==
  /\ u \in work.remove
  /\ remote' = remote \ {u}
  /\ UNCHANGED <<cached, work>>

Settle(u) ==
  /\ u \in Items(work)
  /\ cached' = cached \cup {u}
  /\ work' = Without(work, u)
  /\ UNCHANGED remote

Skip(u) ==
  /\ u \in Items(work)
  /\ work' = Without(work, u)
  /\ UNCHANGED <<cached, remote>>

Abandon == work' = NoWork /\ UNCHANGED <<cached, remote>>

Next == \/ DrawUp
        \/ \E u \in Uuid : Put(u) \/ Delete(u) \/ Settle(u) \/ Skip(u)
        \/ Abandon

Spec == Init /\ [][Next]_vars

-----------------------------------------------------------------------------
\* What is left of a batch agrees with the cache: nothing in it would be
\* uploaded twice but what the reading missed, nothing would be deleted that was
\* not handled before.
WorkAgreesWithCache ==
  /\ work.add \cap cached \subseteq work.missed /\ (work.missed # {} => MayMiss)
  /\ work.remove \subseteq cached

\* An object appears only for a preview that the cache did not hold, or was not read
\* to hold when the batch was drawn up, and disappears only for one that it did hold.
TransfersFollowCache ==
  [][ /\ \A u \in remote' \ remote : u \in cached => MayMiss /\ u \in work.missed
      /\ \A u \in remote \ remote' : u \in cached ]_vars
=============================================================================
