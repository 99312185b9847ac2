-------------------------------- MODULE Aws --------------------------------
(***************************************************************************)
(* lib::Aws (src/src/aws/aws.cpp): the destinations and the live requests   *)
(* of the process.  A request is named by the thread that created it.  The  *)
(* set of requests is changed without a lock: a change that overlaps with   *)
(* another is written over it, which is one outcome of the data race; that  *)
(* the process ends is another, and any step may be its last here.          *)
(***************************************************************************)
CONSTANTS Caller,       \* the threads that create requests
          Identifier    \* identifiers of destinations

VARIABLES initialised,  \* _initialised
          destinations, \* the keys of _destinations
          requests,     \* _requests, by caller
          view          \* what a thread inside insert() or erase() has found there

awsVars == <<initialised, destinations, requests, view>>

AwsTypeOK ==
  /\ initialised \in BOOLEAN
  /\ destinations \subseteq Identifier
  /\ requests \subseteq Caller
  /\ view \in [Caller -> SUBSET Caller]

NoView == [c \in Caller |-> {}]

AwsInit == initialised = FALSE /\ destinations = {} /\ requests = {} /\ view = NoView

Initialise ==
  /\ initialised' = TRUE
  /\ UNCHANGED <<destinations, requests, view>>

Shutdown ==
  /\ initialised' = FALSE
  /\ UNCHANGED <<destinations, requests, view>>

\* initialiseDestinationWithProfile for each of the identifiers.
InitialiseDestinations(identifiers) ==
  /\ destinations' = destinations \cup identifiers
  /\ UNCHANGED <<initialised, requests, view>>

RemoveDestination(identifier) ==
  /\ destinations' = destinations \ {identifier}
  /\ UNCHANGED <<initialised, requests, view>>

RemoveAllDestinations ==
  /\ destinations' = {}
  /\ UNCHANGED <<initialised, requests, view>>

\* createRequestForDestination.
CreateBegins(c, identifier) ==
  /\ identifier \in destinations
  /\ view' = [view EXCEPT ![c] = requests]
  /\ UNCHANGED <<initialised, destinations, requests>>

CreateEnds(c) ==
  /\ requests' = view[c] \cup {c}
  /\ view' = [view EXCEPT ![c] = {}]
  /\ UNCHANGED <<initialised, destinations>>

\* freeRequest deletes and erases what it finds.
FreeBegins(c) ==
  /\ c \in requests
  /\ view' = [view EXCEPT ![c] = requests]
  /\ UNCHANGED <<initialised, destinations, requests>>

\* (mutant) the request is deleted and not erased
FreeEndsUnerased(c) ==
  /\ requests' = view[c]
  /\ view' = [view EXCEPT ![c] = {}]
  /\ UNCHANGED <<initialised, destinations>>

FreeEnds(c) ==
  /\ requests' = view[c] \ {c}
  /\ view' = [view EXCEPT ![c] = {}]
  /\ UNCHANGED <<initialised, destinations>>
=============================================================================
