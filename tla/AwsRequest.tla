----------------------------- MODULE AwsRequest -----------------------------
(***************************************************************************)
(* lib::AwsRequest (src/src/aws/awsrequest.cpp): one HTTP request object.   *)
(* A thread calls headObject, getObject, putObject or removeObject; libcurl *)
(* runs the transfer and calls back into the object; any other thread may   *)
(* call cancel() meanwhile.  After a call has returned, the object must be  *)
(* reset() before the next one.                                             *)
(*                                                                          *)
(* Bodies are sequences of blocks <<call, n>>, the n-th block of the body   *)
(* that belongs to that call.  URLs, signatures and the values of headers   *)
(* are left out: a header is the number of the call it answered.            *)
(***************************************************************************)
EXTENDS Naturals, Sequences

CONSTANTS MaxCalls,   \* bound: calls made on the object
          DataSize,   \* blocks in the body of a PUT
          ChunkSize,  \* blocks libcurl asks the read callback for at once
          MaxBlocks   \* bound: blocks in the body of a response

ASSUME RequestAssumption ==
  /\ MaxCalls \in Nat /\ MaxBlocks \in Nat
  /\ DataSize \in Nat \ {0} /\ ChunkSize \in Nat \ {0}

VARIABLES
  state,        \* _state
  statusCode,   \* _statusCode
  cancel,       \* _cancel
  header,       \* _response.contentLength, contentType and eTag
  body,         \* _response.body, bodySize
  writeTo,      \* _currentWriteData # nullptr: onResponse writes to the caller's AwsGet
  readFrom,     \* _currentReadData # nullptr
  received,     \* _receivedData
  transferred,  \* _transferredData
  options,      \* the verbs whose options are set on the curl handle
  get,          \* the buffer of the caller's AwsGet
  calls,        \* number of the latest call
  verb,         \* of the latest call
  pc,           \* "idle" between calls, or where the call is
  outcome,      \* what curl_easy_perform is about to return
  result,       \* what the latest call returned
  stored,       \* the request body as the server got it
  served        \* the response body as the server sent it

responseVars == <<header, body>>
dataVars     == <<writeTo, readFrom, received, transferred>>
objectVars   == <<state, statusCode, cancel, responseVars, dataVars, options>>
callVars     == <<calls, verb, pc, outcome, result>>
remoteVars   == <<stored, served>>
vars         == <<objectVars, callVars, get, remoteVars>>

Verb  == {"HEAD", "GET", "PUT", "DELETE"}
State == {"Idle", "Opening", "Cancelled", "Receiving", "Transferring", "Complete"}
Codes == {200, 204, 403}

Expected(v) == IF v = "DELETE" THEN 204 ELSE 200

Junk       == <<0, 0>>                       \* a block of unrelated memory
Blocks     == {Junk} \cup ((1 .. MaxCalls) \X (1 .. (MaxBlocks + DataSize)))
Content(n) == [k \in 1 .. n |-> <<calls, k>>]

TypeOK ==
  /\ state \in State
  /\ statusCode \in {0} \cup Codes
  /\ cancel \in BOOLEAN /\ writeTo \in BOOLEAN /\ readFrom \in BOOLEAN
  /\ header \in 0 .. MaxCalls
  /\ body \in Seq(Blocks) /\ get \in Seq(Blocks)
  /\ stored \in Seq(Blocks) /\ served \in Seq(Blocks)
  /\ received \in 0 .. MaxBlocks
  /\ transferred \in Nat
  /\ options \subseteq Verb
  /\ calls \in 0 .. MaxCalls
  /\ verb \in Verb
  /\ pc \in {"idle", "perform", "performed", "complete"}
  /\ outcome \in [ok : BOOLEAN, code : {0} \cup Codes]
  /\ result \in BOOLEAN

Init ==
  /\ state = "Idle" /\ statusCode = 0 /\ cancel = FALSE
  /\ header = 0 /\ body = <<>>
  /\ writeTo = FALSE /\ readFrom = FALSE /\ received = 0 /\ transferred = 0
  /\ options = {}
  /\ get = <<>> /\ calls = 0 /\ verb = "HEAD" /\ pc = "idle"
  /\ outcome = [ok |-> FALSE, code |-> 0] /\ result = FALSE
  /\ stored = <<>> /\ served = <<>>

-----------------------------------------------------------------------------
(* The calls.                                                               *)

\* An object that is not idle is left as it is.  (prepareRequest() would reset such
\* an object, but is not reached.)
Refuse ==
  /\ pc = "idle" /\ state # "Idle"
  /\ result' = FALSE
  /\ UNCHANGED <<objectVars, calls, verb, pc, outcome, get, remoteVars>>

\* (mutant) a request may be used again without a reset
EnterAgain(v) ==
  /\ pc = "idle"
  /\ calls < MaxCalls
  /\ calls' = calls + 1 /\ verb' = v
  /\ state' = "Opening"
  /\ get' = <<>> /\ stored' = <<>> /\ served' = <<>>

\* The caller of a GET brings an empty buffer, as getObject() asserts.
Enter(v) ==
  /\ pc = "idle" /\ state = "Idle"
  /\ calls < MaxCalls
  /\ calls' = calls + 1 /\ verb' = v
  /\ state' = "Opening"
  /\ get' = <<>> /\ stored' = <<>> /\ served' = <<>>

PointAtData(v) ==
  /\ IF v = "GET" THEN received' = 0 /\ writeTo' = TRUE
                  ELSE UNCHANGED <<received, writeTo>>
  /\ IF v = "PUT" THEN transferred' = 0 /\ readFrom' = TRUE
                  ELSE UNCHANGED <<transferred, readFrom>>

\* curl_easy_init() fails.
NoHandle(v) ==
  /\ Enter(v)
  /\ result' = FALSE
  /\ UNCHANGED <<statusCode, cancel, responseVars, dataVars, options, pc, outcome>>

\* prepareHeaders() finds no profile, no destination or empty credentials: the
\* pointers to the caller's data stay.
NoHeaders(v) ==
  /\ Enter(v)
  /\ PointAtData(v)
  /\ result' = FALSE
  /\ UNCHANGED <<statusCode, cancel, responseVars, options, pc, outcome>>

StartTransfer(v) ==
  /\ Enter(v)
  /\ PointAtData(v)
  /\ options' = options \cup {v}
  /\ pc' = "perform"
  /\ UNCHANGED <<statusCode, cancel, responseVars, outcome, result>>

Call(v) == NoHandle(v) \/ NoHeaders(v) \/ StartTransfer(v)

-----------------------------------------------------------------------------
(* The transfer: libcurl's callbacks, in the order the network dictates.  A *)
(* callback that sees the cancel flag makes curl_easy_perform fail.         *)

Aborted ==
  /\ cancel
  /\ pc' = "performed"
  /\ outcome' = [ok |-> FALSE, code |-> 0]
  /\ UNCHANGED <<objectVars, calls, verb, result, get, remoteVars>>

Smaller(a, b) == IF a < b THEN a ELSE b

\* The block that curl sends is the front of its buffer, onRequest writes behind
\* what was transferred before: only the first chunk is where curl looks for it.  (A
\* later copy leaves curl's buffer, which is undefined; here the transfer goes on.)
Chunk(n) == IF transferred = 0 THEN Content(n) ELSE [k \in 1 .. n |-> Junk]

SendChunk ==
  /\ state' = "Transferring"
  /\ LET n == Smaller(ChunkSize, DataSize) IN
       /\ transferred' = transferred + n
       /\ stored' = stored \o Chunk(Smaller(n, DataSize - Len(stored)))
  /\ UNCHANGED <<statusCode, cancel, responseVars, writeTo, readFrom, received, options,
                 callVars, get, served>>

OnRequest ==
  /\ pc = "perform" /\ verb = "PUT" /\ Len(stored) < DataSize
  /\ Aborted \/ (~cancel /\ SendChunk)

TakeHeader ==
  /\ header' = calls
  /\ UNCHANGED <<state, statusCode, cancel, body, dataVars, options, callVars, get,
                 remoteVars>>

OnHeader ==
  /\ pc = "perform"
  /\ Aborted \/ (~cancel /\ TakeHeader)

\* writeToBuffer: realloc to the new size, then copy behind the data received.
\* (mutant) the block is copied to the front of the buffer
GrownInFront(buffer, block) ==
  [k \in 1 .. (received + 1) |->
     IF k = 1 THEN block ELSE IF k - 1 <= Len(buffer) THEN buffer[k - 1] ELSE Junk]

Grown(buffer, block) ==
  [k \in 1 .. (received + 1) |->
     IF k = received + 1 THEN block ELSE IF k <= Len(buffer) THEN buffer[k] ELSE Junk]

ReceiveBlock ==
  LET block == <<calls, Len(served) + 1>> IN
    /\ state' = "Receiving"
    /\ IF writeTo THEN get' = Grown(get, block) /\ UNCHANGED body
                  ELSE body' = Grown(body, block) /\ UNCHANGED get
    /\ received' = received + 1
    /\ served' = Append(served, block)
    /\ UNCHANGED <<statusCode, cancel, header, writeTo, readFrom, transferred, options,
                   callVars, stored>>

\* Also of a HEAD: the second option of headObject() takes the first one back.
OnResponse ==
  /\ pc = "perform" /\ Len(served) < MaxBlocks
  /\ Aborted \/ (~cancel /\ ReceiveBlock)

\* (mutant) the progress callback does not look at the flag
OnProgressBlind == pc = "perform" /\ cancel /\ UNCHANGED vars

\* libcurl reports progress also when no data moves.
OnProgress == pc = "perform" /\ Aborted

\* curl_easy_perform returns by itself; a transfer that fails may still have a status
\* code.  It is assumed of the server that it answers a PUT with 200 only when it has
\* read as many blocks as were announced to it.
TransferEnds ==
  /\ pc = "perform"
  /\ \E ok \in BOOLEAN, code \in {0} \cup Codes :
       /\ ok => code # 0
       /\ (ok /\ verb = "PUT" /\ code = 200) => Len(stored) = DataSize
       /\ outcome' = [ok |-> ok, code |-> code]
  /\ pc' = "performed"
  /\ UNCHANGED <<objectVars, calls, verb, result, get, remoteVars>>

-----------------------------------------------------------------------------
(* performRequest after curl_easy_perform.  The caller forgets the pointers *)
(* of a GET and a PUT, however the request went.                            *)

Leave(r) ==
  /\ result' = r
  /\ pc' = "idle"
  /\ writeTo' = (writeTo /\ verb # "GET")
  /\ readFrom' = (readFrom /\ verb # "PUT")

JudgeCancelled ==
  /\ pc = "performed" /\ cancel
  /\ state' = "Cancelled"
  /\ Leave(FALSE)
  /\ UNCHANGED <<statusCode, cancel, responseVars, received, transferred, options, calls,
                 verb, outcome, get, remoteVars>>

JudgeFinished ==
  /\ pc = "performed" /\ ~cancel
  /\ pc' = "complete"
  /\ UNCHANGED <<objectVars, calls, verb, outcome, result, get, remoteVars>>

Complete ==
  /\ pc = "complete"
  /\ statusCode' = outcome.code
  /\ state' = "Complete"
  /\ Leave(outcome.ok /\ statusCode' = Expected(verb))
  /\ UNCHANGED <<cancel, responseVars, received, transferred, options, calls, verb,
                 outcome, get, remoteVars>>

-----------------------------------------------------------------------------
Cancel ==
  /\ ~cancel
  /\ cancel' = TRUE
  /\ UNCHANGED <<state, statusCode, responseVars, dataVars, options, callVars, get,
                 remoteVars>>

\* (mutant) the counter of received data is kept
ResetKeepingCounter ==
  /\ pc = "idle"
  /\ state' = "Idle" /\ statusCode' = 0 /\ cancel' = FALSE
  /\ header' = 0 /\ body' = <<>>
  /\ writeTo' = FALSE /\ readFrom' = FALSE /\ transferred' = 0
  /\ options' = {}
  /\ UNCHANGED <<received, callVars, get, remoteVars>>

\* (mutant) the response of the call before is kept
ResetKeepingResponse ==
  /\ pc = "idle"
  /\ state' = "Idle" /\ statusCode' = 0 /\ cancel' = FALSE
  /\ writeTo' = FALSE /\ readFrom' = FALSE /\ received' = 0 /\ transferred' = 0
  /\ options' = {}
  /\ UNCHANGED <<responseVars, callVars, get, remoteVars>>

Reset ==
  /\ pc = "idle"
  /\ state' = "Idle" /\ statusCode' = 0 /\ cancel' = FALSE
  /\ header' = 0 /\ body' = <<>>
  /\ writeTo' = FALSE /\ readFrom' = FALSE /\ received' = 0 /\ transferred' = 0
  /\ options' = {}
  /\ UNCHANGED <<callVars, get, remoteVars>>

Transfer == OnRequest \/ OnHeader \/ OnResponse \/ TransferEnds

Next == \/ \E v \in Verb : Call(v)
        \/ Refuse
        \/ Transfer \/ OnProgress
        \/ JudgeCancelled \/ JudgeFinished \/ Complete
        \/ Cancel \/ Reset

\* libcurl calls the progress callback about once a second for as long as the
\* transfer lasts.  The server and the network owe nothing.
Fairness == /\ WF_vars(OnProgress)
            /\ WF_vars(JudgeCancelled) /\ WF_vars(JudgeFinished) /\ WF_vars(Complete)

Spec == Init /\ [][Next]_vars /\ Fairness

-----------------------------------------------------------------------------
\* What response() and the curl handle hold belongs to the latest call: nothing of
\* an earlier call on the same object, whatever became of it, shows in a later one.
NothingOfAnEarlierCall ==
  /\ state = "Complete" =>
       /\ header \in {0, calls}
       /\ \A k \in DOMAIN body : body[k][1] = calls
  /\ pc = "perform" => options = {verb}

BeginsWithData(blocks) ==
  \A k \in 1 .. Smaller(ChunkSize, DataSize) : blocks[k] = <<calls, k>>

\* A call that returns true was not cancelled before it was complete, a GET filled the
\* caller's buffer with the whole body in order, and the first chunk a PUT handed over is
\* the data's.  That is all of the data where it fits in one chunk; no more can be said
\* of a body of several (onRequest).
SuccessIsReal ==
  (pc = "idle" /\ result) =>
    /\ state \in {"Complete", "Idle"}
    /\ verb = "GET" => get = served
    /\ verb = "PUT" => Len(stored) >= Smaller(ChunkSize, DataSize) /\ BeginsWithData(stored)

\* A call that has returned has decided: until reset() no further call and no late
\* cancel() turns a complete request into a cancelled one, or the reverse.
OutcomeIsFinal ==
  [][(pc = "idle" /\ state # "Idle") => state' \in {state, "Idle"}]_vars

\* cancel() ends a call in progress even if the server has fallen silent.
CancelEndsCall == (cancel /\ pc # "idle") ~> (pc = "idle")

=============================================================================
