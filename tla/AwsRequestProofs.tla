-------------------------- MODULE AwsRequestProofs --------------------------
(***************************************************************************)
(* Proofs about AwsRequest, for any number of calls and bodies of any size: *)
(* the type invariant, that nothing of an earlier call shows in a later     *)
(* one, that success is real, and that an outcome is final.                 *)
(***************************************************************************)
EXTENDS AwsRequest, SequenceTheorems, TLAPS

-----------------------------------------------------------------------------
(* The receiving buffer.                                                    *)

LEMMA TabulatedSeq ==
  ASSUME NEW S, NEW n \in Nat, NEW f \in [1 .. n -> S]
  PROVE  f \in Seq(S) /\ Len(f) = n
<1>1. f \in Seq(S)
  BY SeqDef
<1> QED
  BY <1>1

\* Where the counter agrees with the buffer, writeToBuffer() appends.
LEMMA GrownAppends ==
  ASSUME NEW buffer \in Seq(Blocks), NEW block \in Blocks, received = Len(buffer)
  PROVE  Grown(buffer, block) = Append(buffer, block)
<1>1. received \in Nat /\ Grown(buffer, block) \in Seq(Blocks)
      /\ Len(Grown(buffer, block)) = received + 1
  <2>1. received \in Nat /\ \A k \in 1 .. Len(buffer) : buffer[k] \in Blocks
    OBVIOUS
  <2>2. Grown(buffer, block) \in [1 .. (received + 1) -> Blocks]
    BY <2>1 DEF Grown
  <2> QED
    BY <2>1, <2>2, TabulatedSeq
<1>2. \A k \in 1 .. (received + 1) : Grown(buffer, block)[k] = Append(buffer, block)[k]
  BY <1>1 DEF Grown
<1>3. Append(buffer, block) \in Seq(Blocks) /\ Len(Append(buffer, block)) = received + 1
  BY <1>1
<1> QED
  BY <1>1, <1>2, <1>3, SeqEqual

LEMMA NoBlocks == <<>> \in Seq(Blocks)
OBVIOUS

LEMMA ContentType ==
  ASSUME NEW n \in 1 .. DataSize, calls \in 1 .. MaxCalls
  PROVE  Content(n) \in Seq(Blocks) /\ Len(Content(n)) = n
<1>1. \A k \in 1 .. n : <<calls, k>> \in Blocks
  BY RequestAssumption DEF Blocks
<1>2. Content(n) \in [1 .. n -> Blocks] /\ n \in Nat
  BY <1>1, RequestAssumption DEF Content
<1> QED
  BY <1>2, TabulatedSeq

LEMMA ChunkType ==
  ASSUME NEW n \in 1 .. DataSize, calls \in 1 .. MaxCalls
  PROVE  Chunk(n) \in Seq(Blocks) /\ Len(Chunk(n)) = n
<1>1. CASE transferred = 0
  BY <1>1, ContentType DEF Chunk
<1>2. CASE transferred # 0
  <2>1. [k \in 1 .. n |-> Junk] \in [1 .. n -> Blocks] /\ n \in Nat
    BY RequestAssumption DEF Blocks
  <2> QED
    BY <1>2, <2>1, TabulatedSeq DEF Chunk
<1> QED
  BY <1>1, <1>2

-----------------------------------------------------------------------------
(* The inductive invariant.                                                 *)

\* An idle object holds nothing: reset() is the only way back to StateIdle.
IdleIsFresh ==
  state = "Idle" =>
    /\ pc = "idle" /\ received = 0 /\ writeTo = FALSE
    /\ header = 0 /\ body = <<>> /\ options = {}

\* What the server sent belongs to the latest call, and so does what was kept.
KeptIsServed ==
  /\ \A k \in 1 .. Len(served) : served[k][1] = calls
  /\ state # "Idle" => body \in {<<>>, served} /\ header \in {0, calls}

\* During a call the counter, the pointers and the buffers agree.
CallAgrees ==
  pc # "idle" =>
    /\ calls \in 1 .. MaxCalls
    /\ options = {verb}
    /\ received = Len(served)
    /\ writeTo <=> verb = "GET"
    /\ verb = "GET" => get = served /\ body = <<>>
    /\ verb # "GET" => body = served

\* A PUT: what the server has, by what was transferred and what it answered.
PutAgrees ==
  (pc # "idle" /\ verb = "PUT") =>
    /\ Len(stored) <= DataSize
    /\ stored = <<>> => transferred = 0
    /\ stored # <<>> => Smaller(ChunkSize, DataSize) <= Len(stored) /\ BeginsWithData(stored)
    /\ (pc # "perform" /\ outcome.ok /\ outcome.code = 200) => Len(stored) = DataSize

IInv == /\ TypeOK
        /\ IdleIsFresh /\ KeptIsServed /\ CallAgrees /\ PutAgrees
        /\ SuccessIsReal

LEMMA InitIInv == Init => IInv
<1> SUFFICES ASSUME Init PROVE IInv
  OBVIOUS
<1>1. /\ state \in State /\ header \in 0 .. MaxCalls /\ calls \in 0 .. MaxCalls
      /\ received \in 0 .. MaxBlocks /\ transferred \in Nat
      /\ verb \in Verb /\ options \subseteq Verb
  BY RequestAssumption DEF Init, State, Verb
<1>2. cancel \in BOOLEAN /\ writeTo \in BOOLEAN /\ readFrom \in BOOLEAN /\ result \in BOOLEAN
  BY DEF Init
<1>3. outcome \in [ok : BOOLEAN, code : {0} \cup Codes]
  <2>1. 0 \in {0} \cup Codes /\ FALSE \in BOOLEAN
    OBVIOUS
  <2> QED
    BY <2>1 DEF Init
<1>4. TypeOK
  BY <1>1, <1>2, <1>3, NoBlocks DEF Init, TypeOK
<1> QED
  BY <1>4 DEF Init, IInv, IdleIsFresh, KeptIsServed, CallAgrees, PutAgrees, SuccessIsReal

-----------------------------------------------------------------------------
(* The calls.                                                               *)

LEMMA EnterFresh ==
  ASSUME IInv, NEW v \in Verb, Enter(v)
  PROVE  /\ calls' \in 1 .. MaxCalls /\ calls' \in 0 .. MaxCalls
         /\ verb' = v /\ state' = "Opening"
         /\ get' = <<>> /\ stored' = <<>> /\ served' = <<>>
         /\ received = 0 /\ header = 0 /\ body = <<>> /\ options = {}
         /\ writeTo = FALSE
<1>1. state = "Idle" /\ calls \in 0 .. MaxCalls /\ calls < MaxCalls /\ MaxCalls \in Nat
  BY RequestAssumption DEF Enter, IInv, TypeOK
<1> QED
  BY <1>1 DEF Enter, IInv, IdleIsFresh

LEMMA PointAtDataType ==
  ASSUME IInv, NEW v \in Verb, PointAtData(v), received = 0
  PROVE  /\ received' = 0
         /\ writeTo' \in BOOLEAN /\ readFrom' \in BOOLEAN
         /\ transferred' \in Nat
         /\ v = "PUT" => transferred' = 0
         /\ v = "GET" => writeTo' = TRUE
         /\ v # "GET" => writeTo' = writeTo
<1>1. received' = 0 /\ transferred' \in Nat /\ (v = "PUT" => transferred' = 0)
  BY DEF PointAtData, IInv, TypeOK
<1>2. writeTo' \in BOOLEAN /\ readFrom' \in BOOLEAN
  <2>1. writeTo \in BOOLEAN /\ readFrom \in BOOLEAN
    BY DEF IInv, TypeOK
  <2>2. writeTo' \in {TRUE, writeTo} /\ readFrom' \in {TRUE, readFrom}
    BY DEF PointAtData
  <2> QED
    BY <2>1, <2>2
<1> QED
  BY <1>1, <1>2 DEF PointAtData

\* A call that returns before the transfer, or is only beginning, satisfies the
\* invariant as soon as nothing is held and it has not succeeded.
LEMMA FreshSatisfiesIInv ==
  ASSUME TypeOK', state' = "Opening", received' = 0, header' = 0, body' = <<>>,
         calls' \in 1 .. MaxCalls, get' = <<>>, stored' = <<>>, served' = <<>>,
         \/ pc' = "idle" /\ result' = FALSE
         \/ /\ pc' = "perform" /\ options' = {verb'} /\ (writeTo' <=> verb' = "GET")
            /\ verb' = "PUT" => transferred' = 0
  PROVE  IInv'
<1>1. IdleIsFresh' /\ SuccessIsReal'
  BY DEF IdleIsFresh, SuccessIsReal
<1>2. KeptIsServed'
  <2>1. Len(served') = 0
    OBVIOUS
  <2> QED
    BY <2>1 DEF KeptIsServed
<1>3. CallAgrees'
  BY DEF CallAgrees
<1>4. PutAgrees'
  BY RequestAssumption DEF PutAgrees
<1> QED
  BY <1>1, <1>2, <1>3, <1>4 DEF IInv

LEMMA CallKeepsIInv ==
  ASSUME IInv, NEW v \in Verb, Call(v)
  PROVE  IInv'
<1>1. CASE NoHandle(v)
  <2>1. Enter(v) /\ pc' = "idle" /\ result' = FALSE
        /\ UNCHANGED <<statusCode, cancel, header, body, writeTo, readFrom, received,
                       transferred, options, outcome>>
    BY <1>1 DEF NoHandle, Enter, responseVars, dataVars
  <2>2. TypeOK'
    BY <1>1, <2>1, EnterFresh, NoBlocks DEF IInv, TypeOK, State
  <2> QED
    BY <2>1, <2>2, EnterFresh, FreshSatisfiesIInv
<1>2. CASE NoHeaders(v)
  <2>1. Enter(v) /\ PointAtData(v) /\ pc' = "idle" /\ result' = FALSE
        /\ UNCHANGED <<statusCode, cancel, header, body, options, outcome>>
    BY <1>2 DEF NoHeaders, Enter, responseVars
  <2>2. TypeOK'
    BY <2>1, EnterFresh, PointAtDataType, NoBlocks, RequestAssumption DEF IInv, TypeOK, State
  <2> QED
    BY <2>1, <2>2, EnterFresh, PointAtDataType, FreshSatisfiesIInv
<1>3. CASE StartTransfer(v)
  <2>1. Enter(v) /\ PointAtData(v) /\ pc' = "perform" /\ options' = options \cup {v}
        /\ UNCHANGED <<statusCode, cancel, header, body, outcome, result>>
    BY <1>3 DEF StartTransfer, responseVars
  <2>2. TypeOK'
    BY <2>1, EnterFresh, PointAtDataType, NoBlocks, RequestAssumption DEF IInv, TypeOK, State
  <2>3. options' = {verb'} /\ (verb' = "PUT" => transferred' = 0)
    BY <2>1, EnterFresh, PointAtDataType
  <2>4. writeTo' <=> verb' = "GET"
    BY <2>1, EnterFresh, PointAtDataType
  <2> QED
    BY <2>1, <2>2, <2>3, <2>4, EnterFresh, PointAtDataType, FreshSatisfiesIInv
<1> QED
  BY <1>1, <1>2, <1>3 DEF Call
-----------------------------------------------------------------------------
(* The transfer.                                                            *)

LEMMA AbortedKeepsIInv ==
  ASSUME IInv, pc = "perform", Aborted
  PROVE  IInv'
<1>1. TypeOK'
  BY DEF Aborted, IInv, TypeOK, objectVars, responseVars, dataVars, remoteVars
<1> QED
  BY <1>1 DEF Aborted, IInv, IdleIsFresh, KeptIsServed, CallAgrees, PutAgrees, SuccessIsReal,
              BeginsWithData, objectVars, responseVars, dataVars, remoteVars

LEMMA SendChunkKeepsIInv ==
  ASSUME IInv, pc = "perform", verb = "PUT", Len(stored) < DataSize, SendChunk
  PROVE  IInv'
<1> DEFINE n == Smaller(ChunkSize, DataSize)
           m == Smaller(n, DataSize - Len(stored))
<1>1. /\ stored \in Seq(Blocks) /\ Len(stored) \in Nat /\ transferred \in Nat
      /\ DataSize \in Nat \ {0} /\ ChunkSize \in Nat \ {0}
      /\ calls \in 1 .. MaxCalls
  BY RequestAssumption DEF IInv, TypeOK, CallAgrees
<1>2. n \in 1 .. DataSize /\ m \in 1 .. DataSize /\ m <= DataSize - Len(stored)
  BY <1>1 DEF Smaller
<1>3. /\ transferred' = transferred + n /\ stored' = stored \o Chunk(m)
      /\ state' = "Transferring"
      /\ UNCHANGED <<statusCode, cancel, header, body, writeTo, readFrom, received, options,
                     calls, verb, pc, outcome, result, get, served>>
  BY DEF SendChunk, responseVars, callVars
<1>4. Chunk(m) \in Seq(Blocks) /\ Len(Chunk(m)) = m
  BY <1>1, <1>2, ChunkType
<1>5. stored' \in Seq(Blocks) /\ Len(stored') = Len(stored) + m /\ transferred' \in Nat \ {0}
  BY <1>1, <1>2, <1>3, <1>4
<1>6. TypeOK'
  BY <1>3, <1>5 DEF IInv, TypeOK, State
<1>7. stored' # <<>>
  BY <1>2, <1>5
<1>8. n <= Len(stored') /\ BeginsWithData(stored)'
  <2>1. CASE stored = <<>>
    <3>1. transferred = 0 /\ m = n
      BY <1>1, <1>2, <2>1 DEF IInv, PutAgrees, Smaller
    <3>2. stored' = Content(n)
      BY <1>3, <1>4, <2>1, <3>1 DEF Chunk
    <3>3. Len(stored') = n /\ \A k \in 1 .. n : stored'[k] = <<calls, k>>
      BY <1>1, <1>2, <3>2, ContentType DEF Content
    <3>4. calls' = calls /\ n \in Nat
      BY <1>2, <1>3
    <3> QED
      BY <3>3, <3>4 DEF BeginsWithData
  <2>2. CASE stored # <<>>
    <3>1. n <= Len(stored) /\ \A k \in 1 .. n : stored[k] = <<calls, k>>
      BY <2>2 DEF IInv, PutAgrees, BeginsWithData
    <3>2. \A k \in 1 .. n : stored'[k] = stored[k]
      BY <1>1, <1>2, <1>3, <1>4, <3>1
    <3> QED
      BY <1>1, <1>2, <1>3, <1>5, <3>1, <3>2 DEF BeginsWithData
  <2> QED
    BY <2>1, <2>2
<1>9. PutAgrees'
  BY <1>1, <1>2, <1>3, <1>5, <1>7, <1>8 DEF PutAgrees
<1> QED
  BY <1>3, <1>6, <1>9 DEF IInv, IdleIsFresh, KeptIsServed, CallAgrees, SuccessIsReal

LEMMA TakeHeaderKeepsIInv ==
  ASSUME IInv, pc = "perform", TakeHeader
  PROVE  IInv'
<1>1. TypeOK'
  BY DEF TakeHeader, IInv, TypeOK, dataVars, callVars, remoteVars
<1> QED
  BY <1>1 DEF TakeHeader, IInv, IdleIsFresh, KeptIsServed, CallAgrees, PutAgrees,
              SuccessIsReal, BeginsWithData, dataVars, callVars, remoteVars

LEMMA ReceiveBlockKeepsIInv ==
  ASSUME IInv, pc = "perform", Len(served) < MaxBlocks, ReceiveBlock
  PROVE  IInv'
<1> DEFINE block == <<calls, Len(served) + 1>>
<1>1. /\ served \in Seq(Blocks) /\ body \in Seq(Blocks) /\ get \in Seq(Blocks)
      /\ calls \in 1 .. MaxCalls /\ received = Len(served) /\ Len(served) \in Nat
      /\ MaxBlocks \in Nat /\ DataSize \in Nat
  BY RequestAssumption DEF IInv, TypeOK, CallAgrees
<1>2. block \in Blocks
  BY <1>1 DEF Blocks
<1>3. /\ state' = "Receiving" /\ received' = received + 1 /\ served' = Append(served, block)
      /\ UNCHANGED <<statusCode, cancel, header, writeTo, readFrom, transferred, options,
                     calls, verb, pc, outcome, result, stored>>
  BY DEF ReceiveBlock, callVars
<1>4. /\ verb = "GET" => get' = served' /\ body' = <<>>
      /\ verb # "GET" => body' = served' /\ get' = get
  <2>1. CASE verb = "GET"
    <3>1. writeTo /\ get = served /\ body = <<>>
      BY <2>1 DEF IInv, CallAgrees
    <3>2. get' = Grown(get, block) /\ body' = body
      BY <3>1 DEF ReceiveBlock
    <3> QED
      BY <1>1, <1>2, <1>3, <2>1, <3>1, <3>2, GrownAppends
  <2>2. CASE verb # "GET"
    <3>1. ~writeTo /\ body = served
      BY <2>2 DEF IInv, CallAgrees
    <3>2. body' = Grown(body, block) /\ get' = get
      BY <3>1 DEF ReceiveBlock
    <3> QED
      BY <1>1, <1>2, <1>3, <2>2, <3>1, <3>2, GrownAppends
  <2> QED
    BY <2>1, <2>2
<1>5. /\ served' \in Seq(Blocks) /\ Len(served') = Len(served) + 1
      /\ \A k \in 1 .. Len(served') : served'[k][1] = calls
  <2>1. \A k \in 1 .. Len(served) : served[k][1] = calls
    BY DEF IInv, KeptIsServed
  <2> QED
    BY <1>1, <1>2, <1>3, <2>1
<1>6. TypeOK'
  <2>1. received' \in 0 .. MaxBlocks /\ state' \in State
    BY <1>1, <1>3 DEF State
  <2>2. get' \in Seq(Blocks) /\ body' \in Seq(Blocks)
    BY <1>1, <1>4, <1>5, NoBlocks
  <2> QED
    BY <1>3, <1>5, <2>1, <2>2 DEF IInv, TypeOK, Blocks
<1>7. CallAgrees'
  BY <1>1, <1>3, <1>4, <1>5 DEF IInv, CallAgrees
<1>8. KeptIsServed'
  BY <1>3, <1>4, <1>5 DEF IInv, KeptIsServed, IdleIsFresh
<1> QED
  BY <1>3, <1>6, <1>7, <1>8 DEF IInv, IdleIsFresh, PutAgrees, SuccessIsReal, BeginsWithData

LEMMA TransferEndsKeepsIInv ==
  ASSUME IInv, TransferEnds
  PROVE  IInv'
<1>1. /\ pc = "perform" /\ pc' = "performed"
      /\ outcome' \in [ok : BOOLEAN, code : {0} \cup Codes]
      /\ (outcome'.ok /\ verb = "PUT" /\ outcome'.code = 200) => Len(stored) = DataSize
      /\ UNCHANGED <<objectVars, calls, verb, result, get, remoteVars>>
  BY DEF TransferEnds
<1>2. TypeOK'
  BY <1>1 DEF IInv, TypeOK, objectVars, responseVars, dataVars, remoteVars
<1> QED
  BY <1>1, <1>2 DEF IInv, IdleIsFresh, KeptIsServed, CallAgrees, PutAgrees, SuccessIsReal,
                    BeginsWithData, objectVars, responseVars, dataVars, remoteVars

-----------------------------------------------------------------------------
(* The end of a call, cancel and reset.                                     *)

LEMMA JudgeCancelledKeepsIInv ==
  ASSUME IInv, JudgeCancelled
  PROVE  IInv'
<1>1. TypeOK'
  BY DEF JudgeCancelled, Leave, IInv, TypeOK, State, responseVars, remoteVars
<1> QED
  BY <1>1 DEF JudgeCancelled, Leave, IInv, IdleIsFresh, KeptIsServed, CallAgrees, PutAgrees,
              SuccessIsReal, responseVars, remoteVars

LEMMA JudgeFinishedKeepsIInv ==
  ASSUME IInv, JudgeFinished
  PROVE  IInv'
<1>1. TypeOK'
  BY DEF JudgeFinished, IInv, TypeOK, objectVars, responseVars, dataVars, remoteVars
<1> QED
  BY <1>1 DEF JudgeFinished, IInv, IdleIsFresh, KeptIsServed, CallAgrees, PutAgrees,
              SuccessIsReal, BeginsWithData, objectVars, responseVars, dataVars, remoteVars

LEMMA CompleteKeepsIInv ==
  ASSUME IInv, Complete
  PROVE  IInv'
<1>1. /\ pc = "complete" /\ pc' = "idle" /\ state' = "Complete"
      /\ statusCode' = outcome.code
      /\ result' = (outcome.ok /\ statusCode' = Expected(verb))
      /\ writeTo' \in BOOLEAN /\ readFrom' \in BOOLEAN
      /\ UNCHANGED <<cancel, header, body, received, transferred, options, calls, verb,
                     outcome, get, stored, served>>
  BY DEF Complete, Leave, responseVars, remoteVars
<1>2. TypeOK'
  BY <1>1 DEF IInv, TypeOK, State
<1>3. SuccessIsReal'
  <2> SUFFICES ASSUME result'
               PROVE  /\ verb = "GET" => get = served
                      /\ verb = "PUT" => Len(stored) >= Smaller(ChunkSize, DataSize) /\ BeginsWithData(stored)
    BY <1>1 DEF SuccessIsReal, BeginsWithData
  <2>1. verb = "GET" => get = served
    BY <1>1 DEF IInv, CallAgrees
  <2>2. ASSUME verb = "PUT" PROVE Len(stored) >= Smaller(ChunkSize, DataSize) /\ BeginsWithData(stored)
    <3>1. outcome.ok /\ outcome.code = 200
      BY <1>1, <2>2 DEF Expected
    <3>2. Len(stored) = DataSize
      BY <1>1, <2>2, <3>1 DEF IInv, PutAgrees
    <3>3. stored # <<>>
      BY <3>2, RequestAssumption
    <3> QED
      <4>1. Smaller(ChunkSize, DataSize) <= Len(stored) /\ BeginsWithData(stored)
        BY <1>1, <2>2, <3>3 DEF IInv, PutAgrees
      <4>2. Smaller(ChunkSize, DataSize) \in Nat /\ Len(stored) \in Nat
        BY <3>2, RequestAssumption DEF Smaller
      <4> QED
        BY <4>1, <4>2
  <2> QED
    BY <2>1, <2>2
<1> QED
  BY <1>1, <1>2, <1>3 DEF IInv, IdleIsFresh, KeptIsServed, CallAgrees, PutAgrees

LEMMA CancelKeepsIInv ==
  ASSUME IInv, Cancel
  PROVE  IInv'
<1>1. TypeOK'
  BY DEF Cancel, IInv, TypeOK, responseVars, dataVars, callVars, remoteVars
<1> QED
  BY <1>1 DEF Cancel, IInv, IdleIsFresh, KeptIsServed, CallAgrees, PutAgrees, SuccessIsReal,
              BeginsWithData, responseVars, dataVars, callVars, remoteVars

LEMMA ResetKeepsIInv ==
  ASSUME IInv, Reset
  PROVE  IInv'
<1>1. TypeOK'
  <2>1. /\ state' \in State /\ header' \in 0 .. MaxCalls /\ received' \in 0 .. MaxBlocks
        /\ transferred' \in Nat /\ options' \subseteq Verb /\ body' \in Seq(Blocks)
        /\ statusCode' \in {0} \cup Codes
    BY NoBlocks, RequestAssumption DEF Reset, State
  <2>2. cancel' \in BOOLEAN /\ writeTo' \in BOOLEAN /\ readFrom' \in BOOLEAN
    BY DEF Reset
  <2>3. UNCHANGED <<calls, verb, pc, outcome, result, get, stored, served>>
    BY DEF Reset, callVars, remoteVars
  <2> QED
    BY <2>1, <2>2, <2>3 DEF IInv, TypeOK, Blocks
<1> QED
  BY <1>1 DEF Reset, IInv, IdleIsFresh, KeptIsServed, CallAgrees, PutAgrees, SuccessIsReal,
              BeginsWithData, callVars, remoteVars

LEMMA RefuseKeepsIInv ==
  ASSUME IInv, Refuse
  PROVE  IInv'
<1>1. TypeOK'
  BY DEF Refuse, IInv, TypeOK, objectVars, responseVars, dataVars, remoteVars
<1> QED
  BY <1>1 DEF Refuse, IInv, IdleIsFresh, KeptIsServed, CallAgrees, PutAgrees, SuccessIsReal,
              objectVars, responseVars, dataVars, remoteVars

LEMMA StutterKeepsIInv ==
  ASSUME IInv, UNCHANGED vars
  PROVE  IInv'
<1>1. UNCHANGED <<objectVars, responseVars, dataVars, callVars, remoteVars, get>>
  BY DEF vars, objectVars
<1>2. TypeOK'
  BY <1>1 DEF IInv, TypeOK, objectVars, responseVars, dataVars, callVars, remoteVars
<1> QED
  BY <1>1, <1>2 DEF IInv, IdleIsFresh, KeptIsServed, CallAgrees, PutAgrees, SuccessIsReal,
                    BeginsWithData, objectVars, responseVars, dataVars, callVars, remoteVars

LEMMA NextIInv == IInv /\ [Next]_vars => IInv'
<1> SUFFICES ASSUME IInv, [Next]_vars PROVE IInv'
  OBVIOUS
<1>1. ASSUME NEW v \in Verb, Call(v) PROVE IInv'
  BY <1>1, CallKeepsIInv
<1>2. CASE OnRequest
  BY <1>2, AbortedKeepsIInv, SendChunkKeepsIInv DEF OnRequest
<1>3. CASE OnHeader
  BY <1>3, AbortedKeepsIInv, TakeHeaderKeepsIInv DEF OnHeader
<1>4. CASE OnResponse
  BY <1>4, AbortedKeepsIInv, ReceiveBlockKeepsIInv DEF OnResponse
<1>5. CASE OnProgress
  BY <1>5, AbortedKeepsIInv DEF OnProgress
<1> QED
  BY <1>1, <1>2, <1>3, <1>4, <1>5, RefuseKeepsIInv, TransferEndsKeepsIInv,
     JudgeCancelledKeepsIInv, JudgeFinishedKeepsIInv, CompleteKeepsIInv, CancelKeepsIInv,
     ResetKeepsIInv, StutterKeepsIInv
     DEF Next, Transfer

LEMMA IInvHolds == Spec => []IInv
  BY InitIInv, NextIInv, PTL DEF Spec

-----------------------------------------------------------------------------
(* The theorems.                                                            *)

\* awsrequest.h: the members of a request and the buffers of its caller keep their
\* types, however callbacks, cancel() and reset() are interleaved.
THEOREM RequestTypeCorrect == Spec => []TypeOK
<1>1. IInv => TypeOK
  BY DEF IInv
<1> QED
  BY <1>1, IInvHolds, PTL

\* reset() leaves nothing of an earlier call, and no call leaves options of another
\* verb on the handle.
THEOREM NothingLeftOver == Spec => []NothingOfAnEarlierCall
<1>1. IInv => NothingOfAnEarlierCall
  <2> SUFFICES ASSUME IInv PROVE NothingOfAnEarlierCall
    OBVIOUS
  <2>1. pc = "perform" => options = {verb}
    BY DEF IInv, CallAgrees
  <2>2. ASSUME state = "Complete"
        PROVE  header \in {0, calls} /\ \A k \in DOMAIN body : body[k][1] = calls
    <3>1. body \in {<<>>, served} /\ header \in {0, calls} /\ served \in Seq(Blocks)
      BY <2>2 DEF IInv, KeptIsServed, TypeOK
    <3>2. DOMAIN served = 1 .. Len(served)
      BY <3>1
    <3> QED
      BY <3>1, <3>2 DEF IInv, KeptIsServed
  <2> QED
    BY <2>1, <2>2 DEF NothingOfAnEarlierCall
<1> QED
  BY <1>1, IInvHolds, PTL

\* performRequest() returns true only of a GET whose whole body the caller has, and of a
\* PUT whose first chunk was the data's, for bodies and chunks of any size, if the server
\* answers no PUT with 200 before it has read it.
THEOREM SuccessHolds == Spec => []SuccessIsReal
<1>1. IInv => SuccessIsReal
  BY DEF IInv
<1> QED
  BY <1>1, IInvHolds, PTL

\* A call that has returned is decided until reset(): a late cancel() changes
\* nothing, and a further call is refused.
THEOREM OutcomeStays == Spec => OutcomeIsFinal
<1>1. [Next]_vars =>
        [(pc = "idle" /\ state # "Idle") => state' \in {state, "Idle"}]_vars
  <2> SUFFICES ASSUME Next, pc = "idle", state # "Idle"
               PROVE  state' \in {state, "Idle"}
    BY DEF vars
  <2>1. ASSUME NEW v \in Verb, Call(v) PROVE FALSE
    BY <2>1 DEF Call, NoHandle, NoHeaders, StartTransfer, Enter
  <2>2. ~(Transfer \/ OnProgress \/ JudgeCancelled \/ JudgeFinished \/ Complete)
    BY DEF Transfer, OnRequest, OnHeader, OnResponse, TransferEnds, OnProgress,
           JudgeCancelled, JudgeFinished, Complete
  <2>3. Refuse \/ Cancel \/ Reset
    BY <2>1, <2>2 DEF Next
  <2> QED
    BY <2>3 DEF Refuse, Cancel, Reset, objectVars
<1> QED
  BY <1>1, PTL DEF Spec, OutcomeIsFinal
=============================================================================
