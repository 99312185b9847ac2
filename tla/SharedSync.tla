----------------------------- MODULE SharedSync -----------------------------
(***************************************************************************)
(* What several synchronizers promise that share one cache of handled       *)
(* previews without agreeing on anything: each draws up its batches against *)
(* what it can read of the cache as it is then, puts only previews of its   *)
(* own catalog on them, and records only those.  A batch keeps with it what *)
(* the reading missed.  The cache never forgets.  Program.tla is shown to   *)
(* implement this, and PreviewsSynchronizer.tla with a single catalog.      *)
(***************************************************************************)
CONSTANTS Uuid, Catalog,
          Own     \* the previews each catalog may hold

VARIABLES cached,   \* the previews recorded as handled, by anyone
          work      \* per catalog: what is left of its current batch

vars == <<cached, work>>

Work   == [add : SUBSET Uuid, remove : SUBSET Uuid, missed : SUBSET Uuid]
NoWork == [add |-> {}, remove |-> {}, missed |-> {}]

Items(w)      == w.add \cup w.remove
Without(w, u) == [add |-> w.add \ {u}, remove |-> w.remove \ {u}, missed |-> w.missed \ {u}]

Idle == [c \in Catalog |-> NoWork]

Init == cached = {} /\ work = Idle

DrawUp(c) ==
  /\ work[c] = NoWork
  /\ \E w \in Work :
       /\ w.add \subseteq Own[c] /\ w.add \cap cached \subseteq w.missed
       /\ w.missed \subseteq cached /\ w.remove \subseteq cached
       /\ work' = [work EXCEPT ![c] = w]
  /\ UNCHANGED cached

\* What others record meanwhile does not change the batch.
Settle(c, u) ==
  /\ u \in Items(work[c]) \cap Own[c]
  /\ cached' = cached \cup {u}
  /\ work' = [work EXCEPT ![c] = Without(@, u)]

Skip(c, u) ==
  /\ u \in Items(work[c])
  /\ work' = [work EXCEPT ![c] = Without(@, u)]
  /\ UNCHANGED cached

Abandon(c) == work' = [work EXCEPT ![c] = NoWork] /\ UNCHANGED cached

\* The process ends.
AbandonAll == work' = Idle /\ UNCHANGED cached

Next == \/ \E c \in Catalog : \/ DrawUp(c) \/ Abandon(c)
                              \/ \E u \in Uuid : Settle(c, u) \/ Skip(c, u)
        \/ AbandonAll

Spec == Init /\ [][Next]_vars

-----------------------------------------------------------------------------
\* What is still to be put is in the cache only if the reading missed it, or if another
\* catalog holds it too, and what is to be removed has been recorded.
CollisionsNeedOverlap ==
  \A c \in Catalog :
    /\ \A u \in work[c].add \cap cached :
         u \in work[c].missed \/ \E d \in Catalog \ {c} : u \in Own[d]
    /\ work[c].remove \subseteq cached
=============================================================================
