------------------------ MODULE TextSession_proofs ------------------------
(***************************************************************************)
(* Theorems about TextSession, for any number of frames, rounds and calls. *)
(*                                                                         *)
(*   TypeCorrect        the types of the state                             *)
(*   GateIsReachable    an open request can always be answered             *)
(*   OnlyConfirmedRun   with ids of the provider's own, a CONFIRM call     *)
(*                      runs only if the user approved that call           *)
(*   InterruptionHolds  an interrupted stream says nothing more            *)
(*   ActiveInFlight     text interrupts exactly the turn in flight         *)
(*   OrderOfTexts       texts become turns once and in order               *)
(*   PromiseIsKept      with ids of the provider's own, the session        *)
(*                      implements ConfirmPromise                          *)
(*   PromiseConfirms    a session that keeps the promise runs only what    *)
(*                      was confirmed                                      *)
(***************************************************************************)
EXTENDS TextSession, SequenceTheorems, TLAPS

----------------------------------------------------------------------------
(* Batches *)

\* A function on 1..k is a sequence.
LEMMA FunctionIsSeq ==
    ASSUME NEW S, NEW k \in Nat, NEW s \in [1..k -> S]
    PROVE  s \in Seq(S) /\ Len(s) = k /\ DOMAIN s = 1..k
OBVIOUS

\* The calls made of one reply of the model are a sequence of tool calls, numbered after
\* all earlier ones.
LEMMA NumberedType ==
    ASSUME TypeOK, NEW shape \in Batches
    PROVE  /\ shape \in Seq([cls : ToolClasses, source : IdSources])
           /\ Numbered(shape) \in Seq(ToolCalls)
           /\ Len(Numbered(shape)) = Len(shape)
           /\ DOMAIN Numbered(shape) = 1..Len(shape)
<1> DEFINE S == [cls : ToolClasses, source : IdSources]
<1>1. PICK k \in 0..MaxBatch : shape \in [1..k -> S]
  BY DEF Batches
<1>2. k \in Nat
  BY <1>1, BoundsAssumption
<1>3. shape \in Seq(S)
  BY <1>1, <1>2, FunctionIsSeq
<1>4. DOMAIN shape = 1..k /\ Len(shape) = k
  BY <1>1, <1>2, FunctionIsSeq
<1>5. ASSUME NEW i \in 1..k
      PROVE  Numbered(shape)[i] \in ToolCalls
  <2>1. shape[i] \in S
    BY <1>1
  <2>2. shape[i].cls \in {"auto", "confirm", "unknown"}
    BY <2>1, ToolClassesAssumption
  <2>3. calls + i \in Nat
    BY <1>2 DEF TypeOK, AgentTypes
  <2>4. ActionId(shape[i].source, calls + i, i) \in Int
    BY <2>3, <1>2 DEF ActionId
  <2> QED
    BY <1>4, <2>2, <2>3, <2>4 DEF Numbered, ToolCalls
<1>6. Numbered(shape) \in [1..k -> ToolCalls]
  BY <1>4, <1>5 DEF Numbered
<1>7. Numbered(shape) \in Seq(ToolCalls)
  BY <1>2, <1>6, FunctionIsSeq
<1> QED
  BY <1>2, <1>3, <1>4, <1>6, <1>7, FunctionIsSeq

\* While calls are dispatched there is a current one, and the rest is a batch again.
LEMMA CurrentCall ==
    ASSUME TypeOK, pc \in Dispatching
    PROVE  /\ Call \in ToolCalls
           /\ Tail(batch) \in Seq(ToolCalls)
           /\ Len(batch) > 1 <=> Tail(batch) # <<>>
<1>1. batch \in Seq(ToolCalls) /\ batch # <<>>
  BY DEF TypeOK, AgentTypes
<1>2. Len(batch) \in Nat \ {0}
  BY <1>1, EmptySeq
<1>3. /\ Head(batch) \in ToolCalls
      /\ Tail(batch) \in Seq(ToolCalls)
      /\ Len(Tail(batch)) = Len(batch) - 1
  BY <1>1, HeadTailProperties
<1>4. Tail(batch) = <<>> <=> Len(Tail(batch)) = 0
  BY <1>3, EmptySeq
<1> QED
  BY <1>2, <1>3, <1>4 DEF Call

----------------------------------------------------------------------------
(* Type correctness *)

LEMMA TypeInit == Init => TypeOK
<1> SUFFICES ASSUME Init PROVE TypeOK
  OBVIOUS
<1>1. ClientTypes
  BY DEF Init, ClientTypes, NoPrompt
<1>2. QueueTypes
  BY EmptySeq DEF Init, QueueTypes
<1>3. SignalTypes
  BY DEF Init, SignalTypes
<1>4. AgentTypes
  <2>1. pc \in InFlight \cup {"waiting", "completing", "closing", "returned", "crashed"}
    BY DEF Init, InFlight
  <2>2. (pc \in Dispatching) <=> (batch # <<>>)
    BY DEF Init, Dispatching
  <2>3. round \in 0..MaxToolRounds
    BY BoundsAssumption DEF Init
  <2>4. pc \notin {"preparing", "streaming"} \cup Dispatching
    BY DEF Init, Dispatching
  <2> QED
    BY <2>1, <2>2, <2>3, <2>4, EmptySeq DEF Init, AgentTypes
<1>5. OutcomeTypes
  BY DEF Init, OutcomeTypes
<1> QED
  BY <1>1, <1>2, <1>3, <1>4, <1>5 DEF TypeOK

\* A part of the state that does not change keeps its types.
LEMMA UnchangedTypes ==
    /\ ClientTypes  /\ UNCHANGED clientVars  => ClientTypes'
    /\ QueueTypes   /\ UNCHANGED queueVars   => QueueTypes'
    /\ SignalTypes  /\ UNCHANGED signalVars  => SignalTypes'
    /\ AgentTypes   /\ UNCHANGED agentVars   => AgentTypes'
    /\ OutcomeTypes /\ UNCHANGED outcomeVars => OutcomeTypes'
BY DEF ClientTypes, clientVars, QueueTypes, queueVars, SignalTypes, signalVars,
       AgentTypes, agentVars, OutcomeTypes, outcomeVars

\* A frame the demux appends, whatever it is, keeps the queues typed.
LEMMA ReceiveTypes ==
    ASSUME TypeOK, NEW frame \in Frames, Receive(frame)
    PROVE  /\ QueueTypes' /\ SignalTypes' /\ AgentTypes' /\ OutcomeTypes'
           /\ connected' = connected
<1>1. QueueTypes'
  BY DEF TypeOK, QueueTypes, Receive
<1>2. UNCHANGED <<signalVars, agentVars, outcomeVars>> /\ connected' = connected
  BY DEF Receive
<1> QED
  BY <1>1, <1>2, UnchangedTypes DEF TypeOK

LEMMA TypeClient == TypeOK /\ ClientNext => TypeOK'
<1> SUFFICES ASSUME TypeOK, ClientNext PROVE TypeOK'
  OBVIOUS
<1>a. ClientTypes /\ QueueTypes
  BY DEF TypeOK
<1>1. CASE ReceiveText
  <2>1. TextFrame(sent.texts + 1) \in Frames
    BY <1>a DEF ClientTypes, TextFrame, Frames
  <2>2. Receive(TextFrame(sent.texts + 1))
    BY <1>1 DEF ReceiveText
  <2>3. ClientTypes'
    BY <1>1, <1>a, <2>1, <2>2, ReceiveTypes DEF ReceiveText, ClientTypes
  <2> QED
    BY <2>1, <2>2, <2>3, ReceiveTypes DEF TypeOK
<1>2. ASSUME NEW ok \in BOOLEAN, ReceiveConfirm(ok) PROVE TypeOK'
  <2>1. ConfirmFrame(prompt, ok) \in Frames
    BY <1>a DEF ClientTypes, ConfirmFrame, Frames
  <2>2. Receive(ConfirmFrame(prompt, ok))
    BY <1>2 DEF ReceiveConfirm
  <2>3. ClientTypes'
    BY <1>2, <1>a, <2>1, <2>2, ReceiveTypes DEF ReceiveConfirm, ClientTypes, NoPrompt
  <2> QED
    BY <2>1, <2>2, <2>3, ReceiveTypes DEF TypeOK
<1>3. CASE ReceiveBargeIn \/ ReceiveAudio
  <2>1. PICK frame \in {BargeInFrame, AudioFrame} : ReceiveExtra(frame)
    BY <1>3 DEF ReceiveBargeIn, ReceiveAudio
  <2>2. frame \in Frames
    BY <2>1 DEF BargeInFrame, AudioFrame, Frames
  <2>3. Receive(frame)
    BY <2>1 DEF ReceiveExtra
  <2>4. ClientTypes'
    BY <2>1, <1>a, <2>2, <2>3, ReceiveTypes DEF ReceiveExtra, ClientTypes
  <2> QED
    BY <2>2, <2>3, <2>4, ReceiveTypes DEF TypeOK
<1>4. CASE Disconnect \/ MalformedFrame
  <2>1. PICK still \in BOOLEAN : DemuxEnds(still)
    BY <1>4 DEF Disconnect, MalformedFrame
  <2>2. CloseFrame \in Frames
    BY DEF CloseFrame, Frames
  <2>3. QueueTypes'
    BY <2>1, <2>2, <1>a DEF DemuxEnds, QueueTypes
  <2>4. ClientTypes'
    BY <2>1, <1>a DEF DemuxEnds, ClientTypes
  <2>5. UNCHANGED <<signalVars, agentVars, outcomeVars>>
    BY <2>1 DEF DemuxEnds
  <2> QED
    BY <2>3, <2>4, <2>5, UnchangedTypes DEF TypeOK
<1>5. CASE LateDisconnect
  <2>1. ClientTypes'
    BY <1>5, <1>a DEF LateDisconnect, ClientTypes
  <2> QED
    BY <1>5, <2>1, UnchangedTypes DEF LateDisconnect, TypeOK
<1> QED
  BY <1>1, <1>2, <1>3, <1>4, <1>5 DEF ClientNext

LEMMA TypePump == TypeOK /\ PumpNext => TypeOK'
<1> SUFFICES ASSUME TypeOK, PumpNext PROVE TypeOK'
  OBVIOUS
<1>a. QueueTypes /\ SignalTypes
  BY DEF TypeOK
<1>b. PICK type \in {"text", "confirm", "barge_in", "audio", "close"} : Pump(type)
  BY DEF PumpNext, PumpText, PumpConfirm, PumpBargeIn, PumpAudio, PumpClose
<1>c. /\ ClientTypes' /\ AgentTypes' /\ OutcomeTypes'
      /\ demux' = demux
  BY <1>b, UnchangedTypes DEF Pump, TypeOK
<1>d. Head(inbound) \in Frames /\ inbound' \in Seq(Frames)
  BY <1>a, <1>b, HeadTailProperties DEF Pump, QueueTypes
<1>1. CASE PumpText
  <2>1. Head(inbound).turn \in Nat
    BY <1>1, <1>d DEF PumpText, Pump, Frames
  <2>2. QueueTypes'
    BY <1>1, <1>a, <1>c, <1>d, <2>1 DEF PumpText, QueueTypes
  <2>3. SignalTypes'
    BY <1>1, <1>a DEF PumpText, SignalTypes
  <2> QED
    BY <1>c, <2>2, <2>3 DEF TypeOK
<1>2. CASE PumpConfirm
  <2>1. QueueTypes'
    BY <1>2, <1>a, <1>c, <1>d DEF PumpConfirm, QueueTypes
  <2>2. pending' \in SUBSET [id : Int, n : Nat]
    BY <1>2, <1>a DEF PumpConfirm, SignalTypes
  <2>3. fut' \in {"unset", "ok", "no"}
    BY <1>2, <1>a DEF PumpConfirm, SignalTypes
  <2>4. SignalTypes'
    BY <1>2, <1>a, <2>2, <2>3 DEF PumpConfirm, SignalTypes
  <2> QED
    BY <1>c, <2>1, <2>4 DEF TypeOK
<1>3. CASE PumpBargeIn
  <2>1. QueueTypes'
    BY <1>3, <1>a, <1>c, <1>d DEF PumpBargeIn, QueueTypes
  <2>2. SignalTypes'
    BY <1>3, <1>a DEF PumpBargeIn, SignalTypes
  <2> QED
    BY <1>c, <2>1, <2>2 DEF TypeOK
<1>4. CASE PumpAudio
  <2>1. QueueTypes'
    BY <1>4, <1>a, <1>c, <1>d DEF PumpAudio, QueueTypes
  <2> QED
    BY <1>4, <1>c, <2>1, UnchangedTypes DEF PumpAudio, TypeOK
<1>5. CASE PumpClose
  <2>1. QueueTypes'
    BY <1>5, <1>a, <1>c, <1>d DEF PumpClose, QueueTypes, CLOSE
  <2> QED
    BY <1>5, <1>c, <2>1, UnchangedTypes DEF PumpClose, TypeOK
<1> QED
  BY <1>1, <1>2, <1>3, <1>4, <1>5 DEF PumpNext

\* Moving on from a call keeps the agent typed: another call, another round or the end.
LEMMA NextCallTypes ==
    ASSUME TypeOK, pc \in Dispatching, NextCall,
           UNCHANGED <<turn, cancel, replied, calls>>
    PROVE  AgentTypes'
<1>a. AgentTypes
  BY DEF TypeOK
<1>b. /\ Tail(batch) \in Seq(ToolCalls)
      /\ Len(batch) > 1 <=> Tail(batch) # <<>>
  BY CurrentCall
<1>c. round \in Nat /\ MaxToolRounds \in Nat /\ round < MaxToolRounds
  BY <1>a, BoundsAssumption DEF AgentTypes
<1>d. batch' = Tail(batch) /\ batch' \in Seq(ToolCalls)
  BY <1>b DEF NextCall
<1>1. CASE Len(batch) > 1
  <2>1. pc' = "announcing" /\ round' = round
    BY <1>1 DEF NextCall
  <2>2. pc' \in Dispatching /\ pc' \in InFlight /\ batch' # <<>>
    BY <2>1, <1>1, <1>b, <1>d DEF Dispatching, InFlight
  <2> QED
    BY <2>1, <2>2, <1>a, <1>c, <1>d DEF AgentTypes
<1>2. CASE ~(Len(batch) > 1)
  <2>1. /\ round' = round + 1
        /\ pc' = IF round + 1 = MaxToolRounds THEN "finishing" ELSE "streaming"
    BY <1>2 DEF NextCall
  <2>2. /\ pc' \notin Dispatching /\ pc' \in InFlight /\ batch' = <<>>
        /\ pc' # "preparing"
    BY <2>1, <1>2, <1>b, <1>d DEF Dispatching, InFlight
  <2>3. round' \in 0..MaxToolRounds /\ (pc' = "streaming" => round' < MaxToolRounds)
    BY <2>1, <1>c
  <2> QED
    BY <2>2, <2>3, <1>a, <1>d DEF AgentTypes
<1> QED
  BY <1>1, <1>2

\* Leaving the body of the turn by an exception keeps the agent typed.
LEMMA RaiseTypes ==
    ASSUME TypeOK, pc' \in {"closing", "failing"}, batch' = <<>>,
           UNCHANGED <<turn, cancel, round, replied, calls>>
    PROVE  AgentTypes'
<1>1. /\ pc' \in InFlight \cup {"closing"}
      /\ pc' \notin {"preparing", "streaming"} \cup Dispatching
  BY DEF InFlight, Dispatching
<1>2. batch' \in Seq(ToolCalls)
  BY EmptySeq
<1> QED
  BY <1>1, <1>2 DEF TypeOK, AgentTypes

\* A step that only moves pc, within the dispatching of a call or outside of it.
LEMMA MoveTypes ==
    ASSUME TypeOK, UNCHANGED <<turn, cancel, round, batch, replied, calls>>,
           \/ pc \in Dispatching /\ pc' \in Dispatching
           \/ pc \notin Dispatching
              /\ pc' \in {"waiting", "completing", "closing", "returned", "crashed"}
           \/ pc \in {"preparing", "streaming"} /\ pc' \in {"streaming", "finishing"}
    PROVE  AgentTypes'
<1>a. AgentTypes
  BY DEF TypeOK
<1>1. CASE pc \in Dispatching /\ pc' \in Dispatching
  BY <1>1, <1>a DEF AgentTypes, Dispatching, InFlight
<1>2. CASE pc \notin Dispatching
             /\ pc' \in {"waiting", "completing", "closing", "returned", "crashed"}
  BY <1>2, <1>a DEF AgentTypes, Dispatching, InFlight
<1>3. CASE pc \in {"preparing", "streaming"} /\ pc' \in {"streaming", "finishing"}
  BY <1>3, <1>a DEF AgentTypes, Dispatching, InFlight
<1> QED
  BY <1>1, <1>2, <1>3

\* Steps of the agent outside of the dispatching of calls.
LEMMA TypeTurn ==
    ASSUME TypeOK,
           \/ TakeTurn \/ TakeClose
           \/ Prepare \/ StreamText \/ (\E shape \in Batches : StreamEnd(shape))
           \/ StreamCancelled \/ TurnFails
           \/ CompleteTurn \/ ReportFailure \/ EndTurn
    PROVE  TypeOK'
<1>a. QueueTypes /\ SignalTypes /\ AgentTypes
  BY DEF TypeOK
<1>1. CASE TakeTurn
  <2>1. Head(turns) \in Nat /\ Tail(turns) \in Seq(Nat)
    BY <1>1, <1>a, HeadTailProperties DEF TakeTurn, QueueTypes
  <2>2. QueueTypes'
    BY <1>1, <1>a, <2>1 DEF TakeTurn, QueueTypes
  <2>3. SignalTypes'
    BY <1>1, <1>a DEF TakeTurn, SignalTypes
  <2>4. /\ pc = "waiting" /\ pc' = "preparing" /\ batch' = batch
        /\ round' = 0 /\ turn' = Head(turns) /\ calls' = calls
        /\ cancel' = FALSE /\ replied' = FALSE
    BY <1>1 DEF TakeTurn, AgentStep
  <2>5. /\ round' \in 0..MaxToolRounds /\ round' < MaxToolRounds
        /\ pc' \in InFlight /\ pc \notin Dispatching /\ pc' \notin Dispatching
    BY <2>4, BoundsAssumption DEF Dispatching, InFlight
  <2>6. AgentTypes'
    BY <1>a, <2>1, <2>4, <2>5 DEF AgentTypes
  <2> QED
    BY <1>1, <2>2, <2>3, <2>6, UnchangedTypes DEF TakeTurn, TypeOK
<1>2. CASE TakeClose
  <2>1. Tail(turns) \in Seq(Nat)
    BY <1>2, <1>a, HeadTailProperties DEF TakeClose, QueueTypes
  <2>2. QueueTypes'
    BY <1>2, <1>a, <2>1 DEF TakeClose, QueueTypes
  <2>3. AgentTypes'
    BY <1>2, MoveTypes DEF TakeClose, AgentStep, Dispatching
  <2> QED
    BY <1>2, <2>2, <2>3, UnchangedTypes DEF TakeClose, TypeOK
<1>3. CASE Prepare
  <2>1. AgentTypes'
    BY <1>3, MoveTypes DEF Prepare, PcStep, AgentStep
  <2> QED
    BY <1>3, <2>1, UnchangedTypes DEF Prepare, PcStep, TypeOK
<1>4. CASE StreamText
  <2>1. AgentTypes'
    BY <1>4, <1>a DEF StreamText, AgentStep, AgentTypes
  <2> QED
    BY <1>4, <2>1, UnchangedTypes DEF StreamText, TypeOK
<1>5. ASSUME NEW shape \in Batches, StreamEnd(shape) PROVE TypeOK'
  <2>1. /\ Numbered(shape) \in Seq(ToolCalls)
        /\ Len(Numbered(shape)) = Len(shape)
        /\ shape \in Seq([cls : ToolClasses, source : IdSources])
    BY NumberedType
  <2>2. Len(shape) \in Nat /\ (shape = <<>> <=> Numbered(shape) = <<>>)
    BY <2>1, EmptySeq, LenProperties
  <2>3. /\ pc = "streaming"
        /\ pc' = IF shape = <<>> THEN "finishing" ELSE "announcing"
        /\ batch' = Numbered(shape) /\ calls' = calls + Len(shape)
        /\ UNCHANGED <<turn, cancel, round, replied>>
    BY <1>5 DEF StreamEnd, AgentStep
  <2>4. /\ pc' \in InFlight /\ (pc' \in Dispatching <=> shape # <<>>)
        /\ pc' \notin {"preparing", "streaming"}
    BY <2>3 DEF InFlight, Dispatching
  <2>5. AgentTypes'
    BY <1>a, <2>1, <2>2, <2>3, <2>4 DEF AgentTypes
  <2> QED
    BY <1>5, <2>5, UnchangedTypes DEF StreamEnd, TypeOK
<1>6. CASE StreamCancelled \/ TurnFails
  <2>1. AgentTypes'
    BY <1>6, RaiseTypes DEF StreamCancelled, TurnFails, TurnCancelled, TurnRaises
  <2>2. SignalTypes'
    BY <1>6, <1>a DEF StreamCancelled, TurnFails, TurnCancelled, TurnRaises, SignalTypes
  <2> QED
    BY <1>6, <2>1, <2>2, UnchangedTypes DEF StreamCancelled, TurnFails, TypeOK
<1>7. CASE CompleteTurn \/ ReportFailure
  <2>1. AgentTypes'
    BY <1>7, MoveTypes DEF CompleteTurn, ReportFailure, AgentStep, Dispatching
  <2>2. SignalTypes'
    BY <1>7, <1>a DEF CompleteTurn, ReportFailure, SignalTypes
  <2> QED
    BY <1>7, <2>1, <2>2, UnchangedTypes DEF CompleteTurn, ReportFailure, TypeOK
<1>8. CASE EndTurn
  <2>1. pc \notin Dispatching /\ pc' = "waiting" /\ turn' = 0
        /\ UNCHANGED <<cancel, round, batch, replied, calls>>
    BY <1>8 DEF EndTurn, Dispatching
  <2>2. AgentTypes'
    BY <1>a, <2>1 DEF AgentTypes, Dispatching, InFlight
  <2>3. SignalTypes'
    BY <1>8, <1>a DEF EndTurn, SignalTypes
  <2> QED
    BY <1>8, <2>2, <2>3, UnchangedTypes DEF EndTurn, TypeOK
<1> QED
  BY <1>1, <1>2, <1>3, <1>4, <1>5, <1>6, <1>7, <1>8

\* Steps of the agent that dispatch a call.
LEMMA TypeDispatch ==
    ASSUME TypeOK,
           \/ RunAuto \/ SkipUnknown \/ RequestConfirm \/ AwaitReply
           \/ Confirmed \/ Declined \/ GateCancelled
           \/ ToolEnds \/ CallReported \/ SendRaises
    PROVE  TypeOK'
<1>a. ClientTypes /\ SignalTypes /\ AgentTypes /\ OutcomeTypes
  BY DEF TypeOK
<1>1. CASE RunAuto \/ AwaitReply \/ ToolEnds
  <2>1. PICK from \in Dispatching, to \in Dispatching : PcStep(from, to)
    BY <1>1 DEF RunAuto, AwaitReply, ToolEnds, Dispatching
  <2>2. AgentTypes'
    BY <2>1, MoveTypes DEF PcStep, AgentStep
  <2> QED
    BY <2>1, <2>2, UnchangedTypes DEF PcStep, TypeOK
<1>2. CASE SkipUnknown \/ CallReported
  <2>1. pc \in Dispatching
    BY <1>2 DEF SkipUnknown, CallReported, Dispatching
  <2>2. AgentTypes'
    BY <1>2, <2>1, NextCallTypes DEF SkipUnknown, CallReported
  <2> QED
    BY <1>2, <2>2, UnchangedTypes DEF SkipUnknown, CallReported, TypeOK
<1>3. CASE RequestConfirm
  <2>1. pc = "announcing" /\ pc' = "asking"
    BY <1>3 DEF RequestConfirm, AgentStep
  <2>2. Call \in ToolCalls
    BY <2>1, CurrentCall DEF Dispatching
  <2>3. Call.n \in Nat /\ Call.id \in Int
    BY <2>2 DEF ToolCalls
  <2>4. ClientTypes'
    BY <1>3, <1>a, <2>3 DEF RequestConfirm, ClientTypes
  <2>5. SignalTypes'
    BY <1>3, <1>a, <2>3 DEF RequestConfirm, SignalTypes
  <2>6. AgentTypes'
    BY <1>3, <2>1, MoveTypes DEF RequestConfirm, Dispatching
  <2> QED
    BY <1>3, <2>4, <2>5, <2>6, UnchangedTypes DEF RequestConfirm, TypeOK
<1>4. CASE Confirmed \/ Declined
  <2>1. pc = "awaiting" /\ pc' \in Dispatching
    BY <1>4 DEF Confirmed, Declined, AgentStep, Dispatching
  <2>2. Call \in ToolCalls
    BY <2>1, CurrentCall DEF Dispatching
  <2>3. OutcomeTypes'
    BY <1>4, <1>a, <2>2 DEF Confirmed, Declined, OutcomeTypes, outcomeVars, ToolCalls
  <2>4. SignalTypes'
    BY <1>4, <1>a DEF Confirmed, Declined, Unregister, SignalTypes
  <2>5. AgentTypes'
    BY <1>4, <2>1, MoveTypes DEF Confirmed, Declined, Dispatching
  <2> QED
    BY <1>4, <2>3, <2>4, <2>5, UnchangedTypes DEF Confirmed, Declined, TypeOK
<1>5. CASE GateCancelled
  <2>1. AgentTypes'
    BY <1>5, RaiseTypes DEF GateCancelled, TurnCancelled
  <2>2. SignalTypes'
    BY <1>5, <1>a DEF GateCancelled, TurnCancelled, Unregister, SignalTypes
  <2> QED
    BY <1>5, <2>1, <2>2, UnchangedTypes DEF GateCancelled, TypeOK
<1>6. CASE SendRaises
  <2>1. SignalTypes'
    BY <1>6, <1>a DEF SendRaises, TurnRaises, SignalTypes
  <2>2. AgentTypes'
    <3>1. CASE TurnRaises /\ UNCHANGED turn
      BY <1>6, <3>1, RaiseTypes DEF SendRaises, TurnRaises
    <3>2. CASE /\ pc \in {"failing", "closing"} /\ pc' = "crashed"
               /\ turn' = 0 /\ UNCHANGED batch
      <4>1. UNCHANGED <<cancel, round, replied, calls>>
        BY <1>6 DEF SendRaises
      <4> QED
        BY <3>2, <4>1, <1>a DEF AgentTypes, Dispatching, InFlight
    <3> QED
      BY <1>6, <3>1, <3>2 DEF SendRaises
  <2> QED
    BY <1>6, <2>1, <2>2, UnchangedTypes DEF SendRaises, TypeOK
<1> QED
  BY <1>1, <1>2, <1>3, <1>4, <1>5, <1>6

\* One step of the session keeps every type.
LEMMA TypeStep == TypeOK /\ [Next]_vars => TypeOK'
<1> SUFFICES ASSUME TypeOK, [Next]_vars PROVE TypeOK'
  OBVIOUS
<1>a. QueueTypes /\ SignalTypes /\ AgentTypes /\ OutcomeTypes
  BY DEF TypeOK
<1>1. CASE ClientNext
  BY <1>1, TypeClient
<1>2. CASE PumpNext
  BY <1>2, TypePump
<1>3. CASE AgentNext
  BY <1>3, TypeTurn, TypeDispatch DEF AgentNext
<1>4. CASE WatcherFires
  <2>1. AgentTypes'
    BY <1>4, <1>a DEF WatcherFires, AgentTypes
  <2> QED
    BY <1>4, <2>1, UnchangedTypes DEF WatcherFires, TypeOK
<1>5. CASE Close
  <2>1. QueueTypes'
    BY <1>5, <1>a DEF Close, QueueTypes
  <2>2. SignalTypes'
    BY <1>5, <1>a DEF Close, SignalTypes
  <2>3. OutcomeTypes'
    BY <1>5, <1>a DEF Close, OutcomeTypes
  <2> QED
    BY <1>5, <2>1, <2>2, <2>3, UnchangedTypes DEF Close, TypeOK
<1>6. CASE UNCHANGED vars
  BY <1>6, UnchangedTypes DEF vars, TypeOK
<1> QED
  BY <1>1, <1>2, <1>3, <1>4, <1>5, <1>6 DEF Next

\* Every reachable state of a session is well typed (TypeOK), for any number of frames,
\* rounds and calls.
THEOREM TypeCorrect == Spec => []TypeOK
<1> QED
  BY TypeInit, TypeStep, PTL DEF Spec

----------------------------------------------------------------------------
(* The open request can always be answered *)

\* A step that leaves the gate's request alone, or is not at the gate afterwards.
LEMMA GateUntouched ==
    ASSUME GateReachable,
           \/ UNCHANGED <<pc, batch, pending, fut>>
           \/ pc' \notin {"asking", "awaiting"}
    PROVE  GateReachable'
BY DEF GateReachable, AtGate, Call

\* Delivering a reply takes the request's own entry away only to resolve its future.
LEMMA GatePumpConfirm ==
    ASSUME TypeOK, GateReachable, PumpConfirm
    PROVE  GateReachable'
<1> DEFINE mine == [id |-> Call.id, n |-> Call.n]
           owner == {p \in pending : p.id = Head(inbound).id}
<1>1. UNCHANGED <<pc, batch>>
  BY DEF PumpConfirm, Pump, agentVars
<1>2. SUFFICES ASSUME AtGate, fut' = "unset"
               PROVE  mine \in pending'
  BY <1>1 DEF GateReachable, AtGate, Call
<1>3. ~ \E p \in owner : p.n = Call.n
  BY <1>2 DEF PumpConfirm, AtGate
<1>4. fut = "unset"
  BY <1>2, <1>3 DEF PumpConfirm, AtGate
<1>5. mine \in pending
  BY <1>2, <1>4 DEF GateReachable
<1>6. mine \notin owner
  BY <1>3
<1> QED
  BY <1>5, <1>6 DEF PumpConfirm

LEMMA GateStep == TypeOK /\ GateReachable /\ [Next]_vars => GateReachable'
<1> SUFFICES ASSUME TypeOK, GateReachable, [Next]_vars PROVE GateReachable'
  OBVIOUS
<1> USE DEF signalVars, agentVars
<1>1. CASE ClientNext
  <2>1. UNCHANGED <<pc, batch, pending, fut>>
    BY <1>1 DEF ClientNext, ReceiveText, ReceiveConfirm, ReceiveBargeIn, ReceiveAudio,
         ReceiveExtra, Receive, Disconnect, MalformedFrame, DemuxEnds, LateDisconnect
  <2> QED
    BY <2>1, GateUntouched
<1>2. CASE PumpConfirm
  BY <1>2, GatePumpConfirm
<1>3. CASE PumpText \/ PumpBargeIn \/ PumpAudio \/ PumpClose
  <2>1. UNCHANGED <<pc, batch, pending, fut>>
    BY <1>3 DEF PumpText, PumpBargeIn, PumpAudio, PumpClose, Pump
  <2> QED
    BY <2>1, GateUntouched
<1>4. CASE RequestConfirm
  <2>1. batch' = batch
    BY <1>4 DEF RequestConfirm
  <2>2. [id |-> Call.id, n |-> Call.n] \in pending'
    BY <1>4 DEF RequestConfirm
  <2> QED
    BY <2>1, <2>2 DEF GateReachable, Call
<1>5. CASE AwaitReply
  <2>1. /\ pc = "asking" /\ UNCHANGED <<batch, pending, fut>>
    BY <1>5 DEF AwaitReply, PcStep, AgentStep
  <2> QED
    BY <2>1 DEF GateReachable, AtGate, Call
<1>6. CASE AgentNext /\ ~RequestConfirm /\ ~AwaitReply
  <2>1. pc' \notin {"asking", "awaiting"}
    BY <1>6 DEF AgentNext, TakeTurn, TakeClose, Prepare, StreamText, StreamEnd,
         StreamCancelled, TurnFails, CompleteTurn, ReportFailure, EndTurn, RunAuto,
         SkipUnknown, Confirmed, Declined, GateCancelled, ToolEnds, CallReported,
         SendRaises, PcStep, AgentStep, NextCall, TurnCancelled, TurnRaises
  <2> QED
    BY <2>1, GateUntouched
<1>7. CASE WatcherFires
  <2>1. UNCHANGED <<pc, batch, pending, fut>>
    BY <1>7 DEF WatcherFires
  <2> QED
    BY <2>1, GateUntouched
<1>8. CASE Close
  <2>1. pc' \notin {"asking", "awaiting"}
    BY <1>8 DEF Close
  <2> QED
    BY <2>1, GateUntouched
<1>9. CASE UNCHANGED vars
  <2>1. UNCHANGED <<pc, batch, pending, fut>>
    BY <1>9 DEF vars
  <2> QED
    BY <2>1, GateUntouched
<1> QED
  BY <1>1, <1>2, <1>3, <1>4, <1>5, <1>6, <1>7, <1>8, <1>9 DEF Next, PumpNext

\* In every reachable state the open request can be answered (GateReachable): whatever
\* ids the provider sends and whatever entries earlier turns have left in _pending.
THEOREM GateIsReachable == Spec => []GateReachable
<1>1. Init => GateReachable
  BY DEF Init, GateReachable, AtGate
<1> QED
  BY <1>1, TypeCorrect, GateStep, PTL DEF Spec

----------------------------------------------------------------------------
(* A CONFIRM call runs only with an approval of its own *)

\* When every id is the provider's own, an id names one call.
OwnIds ==
    /\ \A i \in 1..Len(batch) : batch[i].id = batch[i].n
    /\ \A p \in pending : p.id = p.n
    /\ prompt.id = prompt.n

\* A reply under way says what the user said about the call it names.
HonestFrame(frame, yes) ==
    frame.type = "confirm" =>
        /\ frame.id = frame.about
        /\ frame.ok => frame.about \in yes

HonestReplies == \A i \in 1..Len(inbound) : HonestFrame(inbound[i], approved)

HonestFuture == AtGate /\ fut = "ok" => Call.n \in approved

\* The strengthening of ConfirmedOnly that every step preserves.
ApprovalInv == OwnIds /\ HonestReplies /\ HonestFuture /\ ConfirmedOnly

LEMMA ApprovalInit == Init => ApprovalInv
BY DEF Init, ApprovalInv, OwnIds, HonestReplies, HonestFuture, ConfirmedOnly, AtGate,
       NoPrompt

\* Calls of a new batch carry ids of their own.
LEMMA NumberedOwnIds ==
    ASSUME TypeOK, IdSources \subseteq {"own"}, NEW shape \in Batches,
           batch' = Numbered(shape)
    PROVE  \A i \in 1..Len(batch') : batch'[i].id = batch'[i].n
<1>1. PICK k \in 0..MaxBatch : shape \in [1..k -> [cls : ToolClasses, source : IdSources]]
  BY DEF Batches
<1>2. k \in Nat
  BY BoundsAssumption
<1>3. DOMAIN shape = 1..k /\ Len(shape) = k /\ Len(batch') = k
  BY <1>1, <1>2, FunctionIsSeq, NumberedType
<1>4. ASSUME NEW i \in 1..k
      PROVE  batch'[i].id = batch'[i].n
  <2>1. shape[i].source = "own"
    BY <1>1
  <2>2. batch'[i].id = ActionId(shape[i].source, calls + i, i) /\ batch'[i].n = calls + i
    BY <1>3 DEF Numbered
  <2> QED
    BY <2>1, <2>2 DEF ActionId
<1> QED
  BY <1>3, <1>4

LEMMA TailOwnIds ==
    ASSUME TypeOK, OwnIds, pc \in Dispatching, batch' = Tail(batch)
    PROVE  \A i \in 1..Len(batch') : batch'[i].id = batch'[i].n
<1>1. batch \in Seq(ToolCalls) /\ batch # <<>>
  BY DEF TypeOK, AgentTypes
<1>2. /\ Len(Tail(batch)) = Len(batch) - 1 /\ Len(batch) \in Nat
      /\ \A i \in 1..Len(Tail(batch)) : Tail(batch)[i] = batch[i + 1]
  BY <1>1, HeadTailProperties, LenProperties
<1> QED
  BY <1>2 DEF OwnIds

\* The current call's id is its number.
LEMMA CurrentOwnId ==
    ASSUME TypeOK, OwnIds, pc \in Dispatching
    PROVE  Call.id = Call.n
<1>1. batch \in Seq(ToolCalls) /\ batch # <<>>
  BY DEF TypeOK, AgentTypes
<1>2. Len(batch) \in Nat \ {0}
  BY <1>1, EmptySeq
<1>3. 1 \in 1..Len(batch)
  BY <1>2
<1> QED
  BY <1>3 DEF OwnIds, Call

\* A step that changes neither ids nor replies, nor takes an approval back.
LEMMA ApprovalUntouched ==
    ASSUME ApprovalInv,
           UNCHANGED <<inbound, prompt, approved, ran>>,
           pending' \subseteq pending,
           \A i \in 1..Len(batch') : batch'[i].id = batch'[i].n,
           \/ UNCHANGED <<pc, batch, fut>>
           \/ pc' \notin {"asking", "awaiting"}
           \/ fut' # "ok"
           \/ AtGate /\ UNCHANGED <<batch, fut>>
    PROVE  ApprovalInv'
<1>1. OwnIds'
  BY DEF ApprovalInv, OwnIds
<1>2. HonestReplies'
  BY DEF ApprovalInv, HonestReplies, HonestFrame
<1>3. HonestFuture'
  BY DEF ApprovalInv, HonestFuture, AtGate, Call
<1>4. ConfirmedOnly'
  BY DEF ApprovalInv, ConfirmedOnly
<1> QED
  BY <1>1, <1>2, <1>3, <1>4 DEF ApprovalInv

\* A new frame joins the replies under way.
LEMMA ApprovalReceive ==
    ASSUME TypeOK, ApprovalInv, NEW frame \in Frames,
           inbound' = Append(inbound, frame), HonestFrame(frame, approved'),
           approved \subseteq approved', prompt'.id = prompt'.n,
           UNCHANGED <<signalVars, agentVars, outcomeVars>>
    PROVE  ApprovalInv'
<1>1. OwnIds'
  BY DEF ApprovalInv, OwnIds, signalVars, agentVars
<1>2. HonestReplies'
  <2>1. inbound \in Seq(Frames)
    BY DEF TypeOK, QueueTypes
  <2>2. /\ Len(inbound') = Len(inbound) + 1 /\ Len(inbound) \in Nat
        /\ inbound'[Len(inbound) + 1] = frame
        /\ \A i \in 1..Len(inbound) : inbound'[i] = inbound[i]
    BY <2>1
  <2>3. ASSUME NEW i \in 1..Len(inbound')
        PROVE  HonestFrame(inbound'[i], approved')
    <3>1. CASE i \in 1..Len(inbound)
      <4>1. HonestFrame(inbound[i], approved) /\ inbound'[i] = inbound[i]
        BY <3>1, <2>2 DEF ApprovalInv, HonestReplies
      <4> QED
        BY <4>1 DEF HonestFrame
    <3>2. CASE i = Len(inbound) + 1
      BY <3>2, <2>2 DEF HonestFrame
    <3> QED
      BY <3>1, <3>2, <2>2
  <2> QED
    BY <2>3 DEF HonestReplies
<1>3. HonestFuture'
  BY DEF ApprovalInv, HonestFuture, AtGate, Call, signalVars, agentVars
<1>4. ConfirmedOnly'
  BY DEF ApprovalInv, ConfirmedOnly, outcomeVars
<1> QED
  BY <1>1, <1>2, <1>3, <1>4 DEF ApprovalInv

LEMMA ApprovalClient == TypeOK /\ ApprovalInv /\ ClientNext => ApprovalInv'
<1> SUFFICES ASSUME TypeOK, ApprovalInv, ClientNext PROVE ApprovalInv'
  OBVIOUS
<1>a. ClientTypes /\ prompt.id = prompt.n
  BY DEF TypeOK, ApprovalInv, OwnIds
<1>1. CASE ReceiveText
  <2>1. TextFrame(sent.texts + 1) \in Frames /\ HonestFrame(TextFrame(sent.texts + 1), approved')
    BY <1>a DEF ClientTypes, TextFrame, Frames, HonestFrame
  <2>2. /\ inbound' = Append(inbound, TextFrame(sent.texts + 1))
        /\ UNCHANGED <<signalVars, agentVars, outcomeVars>>
        /\ UNCHANGED <<prompt, approved>>
    BY <1>1 DEF ReceiveText, Receive
  <2> QED
    BY <1>a, <2>1, <2>2, ApprovalReceive
<1>2. ASSUME NEW ok \in BOOLEAN, ReceiveConfirm(ok) PROVE ApprovalInv'
  <2>1. ConfirmFrame(prompt, ok) \in Frames
    BY <1>a DEF ClientTypes, ConfirmFrame, Frames
  <2>2. /\ inbound' = Append(inbound, ConfirmFrame(prompt, ok))
        /\ UNCHANGED <<signalVars, agentVars, outcomeVars>>
    BY <1>2 DEF ReceiveConfirm, Receive
  <2>3. approved' = IF ok THEN approved \cup {prompt.n} ELSE approved
    BY <1>2 DEF ReceiveConfirm
  <2>4. approved \subseteq approved' /\ (ok => prompt.n \in approved')
    BY <2>3
  <2>5. HonestFrame(ConfirmFrame(prompt, ok), approved')
    BY <1>a, <2>4 DEF ConfirmFrame, HonestFrame
  <2>6. prompt'.id = prompt'.n
    BY <1>2 DEF ReceiveConfirm, NoPrompt
  <2> QED
    BY <2>1, <2>2, <2>4, <2>5, <2>6, ApprovalReceive
<1>3. CASE ReceiveBargeIn \/ ReceiveAudio
  <2>1. PICK frame \in {BargeInFrame, AudioFrame} : ReceiveExtra(frame)
    BY <1>3 DEF ReceiveBargeIn, ReceiveAudio
  <2>2. frame \in Frames /\ HonestFrame(frame, approved')
    BY <2>1 DEF BargeInFrame, AudioFrame, Frames, HonestFrame
  <2> QED
    BY <2>1, <2>2, <1>a, ApprovalReceive DEF ReceiveExtra, Receive
<1>4. CASE Disconnect \/ MalformedFrame
  <2>1. PICK still \in BOOLEAN : DemuxEnds(still)
    BY <1>4 DEF Disconnect, MalformedFrame
  <2>2. CloseFrame \in Frames /\ HonestFrame(CloseFrame, approved')
    BY DEF CloseFrame, Frames, HonestFrame
  <2> QED
    BY <2>1, <2>2, <1>a, ApprovalReceive DEF DemuxEnds
<1>5. CASE LateDisconnect
  BY <1>5, ApprovalUntouched
     DEF LateDisconnect, queueVars, signalVars, agentVars, outcomeVars, ApprovalInv, OwnIds
<1> QED
  BY <1>1, <1>2, <1>3, <1>4, <1>5 DEF ClientNext

\* The pump consumes the oldest reply; what it tells the gate is what the user said.
LEMMA ApprovalPump == TypeOK /\ ApprovalInv /\ PumpNext => ApprovalInv'
<1> SUFFICES ASSUME TypeOK, ApprovalInv, PumpNext PROVE ApprovalInv'
  OBVIOUS
<1>a. PICK type \in {"text", "confirm", "barge_in", "audio", "close"} : Pump(type)
  BY DEF PumpNext, PumpText, PumpConfirm, PumpBargeIn, PumpAudio, PumpClose
<1>b. /\ inbound \in Seq(Frames) /\ inbound # <<>> /\ inbound' = Tail(inbound)
      /\ UNCHANGED <<prompt, approved, declined, ran, pc, batch>>
  BY <1>a DEF Pump, TypeOK, QueueTypes, clientVars, agentVars, outcomeVars
<1>c. /\ Len(inbound') = Len(inbound) - 1 /\ Len(inbound) \in Nat \ {0}
      /\ \A i \in 1..Len(inbound') : inbound'[i] = inbound[i + 1]
      /\ Head(inbound) = inbound[1]
  BY <1>b, HeadTailProperties, EmptySeq
<1>1. HonestReplies'
  BY <1>b, <1>c DEF ApprovalInv, HonestReplies, HonestFrame
<1>2. ConfirmedOnly'
  BY <1>b DEF ApprovalInv, ConfirmedOnly
<1>3. pending' \subseteq pending
  BY DEF PumpNext, PumpText, PumpConfirm, PumpBargeIn, PumpAudio, PumpClose, signalVars
<1>4. OwnIds'
  BY <1>b, <1>3 DEF ApprovalInv, OwnIds
<1>5. HonestFuture'
  <2>1. CASE PumpConfirm
    <3> SUFFICES ASSUME AtGate, fut' = "ok" PROVE Call.n \in approved
      BY <1>b DEF HonestFuture, AtGate, Call
    <3>1. CASE fut = "ok"
      BY <3>1 DEF ApprovalInv, HonestFuture
    <3>2. CASE fut # "ok"
      <4>1. /\ Head(inbound).ok
            /\ \E p \in pending : p.id = Head(inbound).id /\ p.n = Call.n
        BY <2>1, <3>2 DEF PumpConfirm
      <4>2. Head(inbound).type = "confirm"
        BY <2>1 DEF PumpConfirm, Pump
      <4>3. HonestFrame(Head(inbound), approved)
        BY <1>c DEF ApprovalInv, HonestReplies
      <4>4. Head(inbound).about = Call.n
        BY <4>1, <4>2, <4>3 DEF HonestFrame, ApprovalInv, OwnIds
      <4> QED
        BY <4>1, <4>2, <4>3, <4>4 DEF HonestFrame
    <3> QED
      BY <3>1, <3>2
  <2>2. CASE ~PumpConfirm
    <3>1. fut' = fut
      BY <2>2 DEF PumpNext, PumpText, PumpBargeIn, PumpAudio, PumpClose, signalVars
    <3> QED
      BY <3>1, <1>b DEF ApprovalInv, HonestFuture, AtGate, Call
  <2> QED
    BY <2>1, <2>2
<1> QED
  BY <1>1, <1>2, <1>4, <1>5 DEF ApprovalInv

LEMMA ApprovalAgent ==
    TypeOK /\ ApprovalInv /\ IdSources \subseteq {"own"} /\ AgentNext => ApprovalInv'
<1> SUFFICES ASSUME TypeOK, ApprovalInv, IdSources \subseteq {"own"}, AgentNext
             PROVE  ApprovalInv'
  OBVIOUS
<1> USE DEF clientVars, queueVars, signalVars, agentVars, outcomeVars
<1>a. OwnIds /\ HonestFuture /\ (\A i \in 1..Len(batch) : batch[i].id = batch[i].n)
  BY DEF ApprovalInv, OwnIds
<1>1. CASE RequestConfirm
  <2>1. Call.id = Call.n
    BY <1>1, <1>a, CurrentOwnId DEF RequestConfirm, AgentStep, Dispatching
  <2>2. OwnIds'
    BY <1>1, <1>a, <2>1 DEF RequestConfirm, OwnIds
  <2>3. HonestReplies'
    BY <1>1 DEF RequestConfirm, ApprovalInv, HonestReplies, HonestFrame
  <2>4. HonestFuture' /\ ConfirmedOnly'
    BY <1>1 DEF RequestConfirm, ApprovalInv, HonestFuture, ConfirmedOnly
  <2> QED
    BY <2>2, <2>3, <2>4 DEF ApprovalInv
<1>2. CASE Confirmed
  <2>1. Call.n \in approved
    BY <1>2, <1>a DEF Confirmed, AgentStep, HonestFuture, AtGate
  <2>2. ConfirmedOnly'
    BY <1>2, <2>1 DEF Confirmed, ApprovalInv, ConfirmedOnly
  <2>3. OwnIds'
    BY <1>2, <1>a DEF Confirmed, Unregister, OwnIds
  <2>4. HonestReplies'
    BY <1>2 DEF Confirmed, ApprovalInv, HonestReplies, HonestFrame
  <2>5. HonestFuture'
    BY <1>2 DEF Confirmed, HonestFuture
  <2> QED
    BY <2>2, <2>3, <2>4, <2>5 DEF ApprovalInv
<1>3. CASE AwaitReply
  <2>1. AtGate /\ UNCHANGED <<batch, fut, pending, inbound, prompt, approved, ran>>
    BY <1>3 DEF AwaitReply, PcStep, AgentStep, AtGate
  <2> QED
    BY <2>1, <1>a, ApprovalUntouched
<1>4. CASE Declined \/ GateCancelled
  <2>1. /\ UNCHANGED <<inbound, prompt, approved, ran>>
        /\ pending' \subseteq pending
        /\ fut' # "ok"
        /\ batch' = batch \/ batch' = <<>>
    BY <1>4 DEF Declined, GateCancelled, TurnCancelled, Unregister
  <2>2. \A i \in 1..Len(batch') : batch'[i].id = batch'[i].n
    BY <2>1, <1>a, EmptySeq
  <2> QED
    BY <2>1, <2>2, ApprovalUntouched
<1>5. CASE SkipUnknown \/ CallReported
  <2>1. /\ UNCHANGED <<inbound, prompt, approved, ran, pending>>
        /\ pc \in Dispatching /\ batch' = Tail(batch)
        /\ pc' \notin {"asking", "awaiting"}
    BY <1>5 DEF SkipUnknown, CallReported, NextCall, Dispatching
  <2> QED
    BY <2>1, <1>a, TailOwnIds, ApprovalUntouched
<1>6. ASSUME NEW shape \in Batches, StreamEnd(shape) PROVE ApprovalInv'
  <2>1. /\ UNCHANGED <<inbound, prompt, approved, ran, pending>>
        /\ batch' = Numbered(shape)
        /\ pc' \notin {"asking", "awaiting"}
    BY <1>6 DEF StreamEnd, AgentStep
  <2> QED
    BY <2>1, NumberedOwnIds, ApprovalUntouched
<1>7. CASE \/ TakeTurn \/ TakeClose \/ Prepare \/ StreamText \/ StreamCancelled
           \/ TurnFails \/ CompleteTurn \/ ReportFailure \/ EndTurn \/ RunAuto
           \/ ToolEnds \/ SendRaises
  <2>1. /\ UNCHANGED <<inbound, prompt, approved, ran, pending>>
        /\ pc' \notin {"asking", "awaiting"}
        /\ batch' = batch \/ batch' = <<>>
    BY <1>7 DEF TakeTurn, TakeClose, Prepare, StreamText, StreamCancelled, TurnFails,
         CompleteTurn, ReportFailure, EndTurn, RunAuto, ToolEnds, SendRaises, PcStep,
         AgentStep, TurnCancelled, TurnRaises
  <2>2. \A i \in 1..Len(batch') : batch'[i].id = batch'[i].n
    BY <2>1, <1>a, EmptySeq
  <2> QED
    BY <2>1, <2>2, ApprovalUntouched
<1> QED
  BY <1>1, <1>2, <1>3, <1>4, <1>5, <1>6, <1>7 DEF AgentNext

LEMMA ApprovalStep ==
    TypeOK /\ ApprovalInv /\ IdSources \subseteq {"own"} /\ [Next]_vars => ApprovalInv'
<1> SUFFICES ASSUME TypeOK, ApprovalInv, IdSources \subseteq {"own"}, [Next]_vars
             PROVE  ApprovalInv'
  OBVIOUS
<1>a. \A i \in 1..Len(batch) : batch[i].id = batch[i].n
  BY DEF ApprovalInv, OwnIds
<1>1. CASE WatcherFires \/ Close \/ UNCHANGED vars
  <2>1. /\ UNCHANGED <<inbound, prompt, approved, ran, pc, batch, fut>>
        /\ pending' \subseteq pending
    BY <1>1 DEF WatcherFires, Close, vars, clientVars, queueVars, signalVars, agentVars,
         outcomeVars
  <2> QED
    BY <2>1, <1>a, ApprovalUntouched
<1> QED
  BY <1>1, ApprovalClient, ApprovalPump, ApprovalAgent DEF Next

\* When the provider gives every call an id of its own, no CONFIRM tool ever runs without
\* the user's ok to the request of that very call (ConfirmedOnly): not after a barge-in,
\* and not on the late reply to an earlier request.
THEOREM OnlyConfirmedRun == IdSources \subseteq {"own"} => (Spec => []ConfirmedOnly)
<1> SUFFICES ASSUME IdSources \subseteq {"own"} PROVE Spec => []ConfirmedOnly
  OBVIOUS
<1>1. Init => ApprovalInv
  BY ApprovalInit
<1>2. TypeOK /\ ApprovalInv /\ [Next]_vars => ApprovalInv'
  BY ApprovalStep
<1>3. ApprovalInv => ConfirmedOnly
  BY DEF ApprovalInv
<1> QED
  BY <1>1, <1>2, <1>3, TypeCorrect, PTL DEF Spec

----------------------------------------------------------------------------
(* An interrupted stream says nothing more *)

\* After a barge-in the stream of a turn can only stop (InterruptedStreamStops), whether
\* or not the watcher has copied the signal.
THEOREM InterruptionHolds == Spec => InterruptedStreamStops
<1> DEFINE A == pc = "streaming" /\ bargeIn =>
                  /\ pc' \in {"streaming", "closing", "failing"}
                  /\ replied' = replied
                  /\ batch' = batch
<1>1. TypeOK /\ [Next]_vars => [A]_vars
  <2> SUFFICES ASSUME TypeOK, Next, pc = "streaming", bargeIn
               PROVE  /\ pc' \in {"streaming", "closing", "failing"}
                      /\ UNCHANGED <<replied, batch>>
    BY DEF vars
  <2> USE DEF clientVars, queueVars, signalVars, agentVars, outcomeVars
  <2>1. batch = <<>>
    BY DEF TypeOK, AgentTypes, Dispatching
  <2>2. CASE ClientNext \/ PumpNext \/ WatcherFires
    BY <2>2 DEF ClientNext, ReceiveText, ReceiveConfirm, ReceiveBargeIn, ReceiveAudio,
         ReceiveExtra, Receive, Disconnect, MalformedFrame, DemuxEnds, LateDisconnect,
         PumpNext, PumpText, PumpConfirm, PumpBargeIn, PumpAudio, PumpClose, Pump,
         WatcherFires
  <2>3. CASE Close
    BY <2>3 DEF Close
  <2>4. CASE AgentNext
    BY <2>1, <2>4 DEF AgentNext, TakeTurn, TakeClose, Prepare, StreamText, StreamEnd,
         StreamCancelled, TurnFails, CompleteTurn, ReportFailure, EndTurn, RunAuto,
         SkipUnknown, RequestConfirm, AwaitReply, Confirmed, Declined, GateCancelled,
         ToolEnds, CallReported, SendRaises, PcStep, AgentStep, NextCall, TurnCancelled,
         TurnRaises, Cancelled
  <2> QED
    BY <2>2, <2>3, <2>4 DEF Next
<1> QED
  BY <1>1, TypeCorrect, PTL DEF Spec, InterruptedStreamStops
----------------------------------------------------------------------------
(* The turn is active exactly while it is in flight *)

LEMMA ActiveStep == TurnActiveExact /\ [Next]_vars => TurnActiveExact'
<1> SUFFICES ASSUME TurnActiveExact, [Next]_vars PROVE TurnActiveExact'
  OBVIOUS
<1> USE DEF signalVars, agentVars
<1>1. CASE UNCHANGED <<pc, turnActive>>
  BY <1>1 DEF TurnActiveExact
<1>2. CASE ClientNext \/ PumpNext \/ WatcherFires \/ Close \/ UNCHANGED vars
  <2>1. UNCHANGED <<pc, turnActive>>
    BY <1>2 DEF ClientNext, ReceiveText, ReceiveConfirm, ReceiveBargeIn, ReceiveAudio,
         ReceiveExtra, Receive, Disconnect, MalformedFrame, DemuxEnds, LateDisconnect,
         PumpNext, PumpText, PumpConfirm, PumpBargeIn, PumpAudio, PumpClose, Pump,
         WatcherFires, Close, vars
  <2> QED
    BY <2>1, <1>1
<1>3. CASE TakeTurn \/ TakeClose \/ EndTurn \/ SendRaises
  BY <1>3 DEF TakeTurn, TakeClose, EndTurn, SendRaises, TurnRaises, AgentStep,
       TurnActiveExact, InFlight
<1>4. CASE StreamCancelled \/ TurnFails \/ CompleteTurn \/ ReportFailure \/ GateCancelled
  BY <1>4 DEF StreamCancelled, TurnFails, CompleteTurn, ReportFailure, GateCancelled,
       TurnRaises, TurnCancelled, AgentStep, TurnActiveExact, InFlight
<1>5. CASE \/ Prepare \/ StreamText \/ (\E shape \in Batches : StreamEnd(shape))
           \/ RunAuto \/ SkipUnknown \/ RequestConfirm \/ AwaitReply
           \/ Confirmed \/ Declined \/ ToolEnds \/ CallReported
  <2>1. /\ turnActive' = turnActive
        /\ pc \in InFlight \ {"failing"} /\ pc' \in InFlight \ {"failing"}
    BY <1>5 DEF Prepare, StreamText, StreamEnd, RunAuto, SkipUnknown, RequestConfirm,
         AwaitReply, Confirmed, Declined, ToolEnds, CallReported, PcStep, AgentStep,
         NextCall, InFlight
  <2> QED
    BY <2>1 DEF TurnActiveExact
<1> QED
  BY <1>2, <1>3, <1>4, <1>5 DEF Next, AgentNext

\* From the moment a turn is handed out until its last status is being sent, and no
\* longer, a text interrupts it (TurnActiveExact), on every way out of the turn.
THEOREM ActiveInFlight == Spec => []TurnActiveExact
<1>1. Init => TurnActiveExact
  BY DEF Init, TurnActiveExact, InFlight
<1> QED
  BY <1>1, ActiveStep, PTL DEF Spec

----------------------------------------------------------------------------
(* Texts become turns in order *)

\* TextsInOrder, of the first n places of any line of numbers and any last text.
Ordered(line, n, last) ==
    /\ \A i, j \in 1..n : line[i] # 0 /\ line[j] # 0 /\ i < j => line[i] < line[j]
    /\ \A i \in 1..n : line[i] # 0 =>
         \/ line[i] = last
         \/ line[i] < last /\ \E j \in 1..n : line[j] # 0 /\ line[j] = line[i] + 1

TextOf(frame) == IF frame.type = "text" THEN frame.turn ELSE 0

LineOf(t, waiting, frames) ==
    <<t>> \o waiting \o [i \in 1..Len(frames) |-> TextOf(frames[i])]

LEMMA ConcatNats ==
    ASSUME NEW s \in Seq(Nat), NEW t \in Seq(Nat)
    PROVE  /\ s \o t \in Seq(Nat) /\ Len(s \o t) = Len(s) + Len(t)
           /\ \A i \in 1..Len(s) : (s \o t)[i] = s[i]
           /\ \A i \in 1..Len(t) : (s \o t)[Len(s) + i] = t[i]
OBVIOUS

\* What stands where in the line.
Laid(line, t, waiting, frames) ==
    /\ line \in Seq(Nat)
    /\ Len(line) = 1 + Len(waiting) + Len(frames)
    /\ line[1] = t
    /\ \A i \in 1..Len(waiting) : line[1 + i] = waiting[i]
    /\ \A i \in 1..Len(frames) : line[1 + Len(waiting) + i] = TextOf(frames[i])

LEMMA LineShape ==
    ASSUME NEW t \in Nat, NEW waiting \in Seq(Nat), NEW frames \in Seq(Frames),
           NEW line, line = LineOf(t, waiting, frames)
    PROVE  Laid(line, t, waiting, frames)
<1>1. \A i \in 1..Len(frames) : TextOf(frames[i]) \in Nat
  BY DEF TextOf, Frames
<1>2. PICK texts : texts = [i \in 1..Len(frames) |-> TextOf(frames[i])]
  OBVIOUS
<1>3. /\ texts \in Seq(Nat) /\ Len(texts) = Len(frames)
      /\ \A i \in 1..Len(frames) : texts[i] = TextOf(frames[i])
  BY <1>1, <1>2, FunctionIsSeq
<1>4. PICK head : head = <<t>> \o waiting
  OBVIOUS
<1>5. /\ head \in Seq(Nat) /\ Len(head) = 1 + Len(waiting)
      /\ head[1] = t /\ \A i \in 1..Len(waiting) : head[1 + i] = waiting[i]
  BY <1>4
<1>6. line = head \o texts
  BY <1>2, <1>4 DEF LineOf
<1>7. /\ line \in Seq(Nat) /\ Len(line) = Len(head) + Len(texts)
      /\ \A i \in 1..Len(head) : line[i] = head[i]
      /\ \A i \in 1..Len(texts) : line[Len(head) + i] = texts[i]
  <2>1. head \in Seq(Nat) /\ texts \in Seq(Nat)
    BY <1>3, <1>5
  <2> QED
    BY <1>6, <2>1, ConcatNats
<1>8. Len(line) = 1 + Len(waiting) + Len(frames) /\ line[1] = t
  BY <1>3, <1>5, <1>7
<1>9. \A i \in 1..Len(waiting) : line[1 + i] = waiting[i]
  <2>1. \A i \in 1..Len(waiting) : 1 + i \in 1..Len(head)
    BY <1>5
  <2> QED
    BY <1>5, <1>7, <2>1
<1>10. \A i \in 1..Len(frames) : line[1 + Len(waiting) + i] = TextOf(frames[i])
  BY <1>3, <1>5, <1>7
<1> QED
  BY <1>7, <1>8, <1>9, <1>10 DEF Laid

LEMMA OrderedAppend ==
    ASSUME NEW n \in Nat, NEW last \in Nat, NEW last2 \in Nat, NEW line, NEW line2,
           \A i \in 1..n : line[i] \in Nat,
           Ordered(line, n, last),
           \A i \in 1..n : line2[i] = line[i],
           \/ line2[n + 1] = 0 /\ last2 = last
           \/ line2[n + 1] = last + 1 /\ last2 = last + 1
    PROVE  Ordered(line2, n + 1, last2)
<1>1. \A i \in 1..n + 1 : i \in 1..n \/ i = n + 1
  OBVIOUS
<1>2. \A i \in 1..n : line[i] # 0 => line[i] <= last
  BY DEF Ordered
<1>3. ASSUME NEW i \in 1..n + 1, NEW j \in 1..n + 1,
             line2[i] # 0, line2[j] # 0, i < j
      PROVE  line2[i] < line2[j]
  <2>1. i \in 1..n /\ line2[i] = line[i]
    BY <1>3
  <2>2. CASE j \in 1..n
    BY <1>3, <2>1, <2>2 DEF Ordered
  <2>3. CASE j = n + 1
    BY <1>2, <1>3, <2>1, <2>3
  <2> QED
    BY <1>1, <2>2, <2>3
<1>4. ASSUME NEW i \in 1..n + 1, line2[i] # 0
      PROVE  \/ line2[i] = last2
             \/ /\ line2[i] < last2
                /\ \E j \in 1..n + 1 : line2[j] # 0 /\ line2[j] = line2[i] + 1
  <2>1. CASE i = n + 1
    BY <1>4, <2>1
  <2>2. CASE i \in 1..n /\ line[i] = last
    <3>1. CASE last2 = last
      BY <2>2, <3>1
    <3>2. CASE last2 = last + 1
      <4>1. line2[n + 1] = last + 1 /\ line2[i] = last /\ n + 1 \in 1..n + 1
        BY <2>2, <3>2
      <4> QED
        BY <3>2, <4>1
    <3> QED
      BY <3>1, <3>2
  <2>3. CASE i \in 1..n /\ line[i] # last
    <3>1. line[i] < last /\ \E j \in 1..n : line[j] # 0 /\ line[j] = line[i] + 1
      BY <1>4, <2>3 DEF Ordered
    <3>2. \A j \in 1..n : j \in 1..n + 1
      OBVIOUS
    <3>3. line[i] < last2
      BY <2>3, <3>1
    <3> QED
      BY <2>3, <3>1, <3>2, <3>3
  <2> QED
    BY <1>1, <2>1, <2>2, <2>3
<1> QED
  BY <1>3, <1>4 DEF Ordered

\* What is no text can be taken out of the line.
LEMMA OrderedDrop ==
    ASSUME NEW n \in Nat, NEW last \in Nat, NEW line, NEW line2,
           Ordered(line, n + 1, last),
           NEW p \in 1..n + 1, line[p] = 0,
           \A i \in 1..n : line2[i] = IF i < p THEN line[i] ELSE line[i + 1]
    PROVE  Ordered(line2, n, last)
<1> DEFINE old(i) == IF i < p THEN i ELSE i + 1
           new(i) == IF i < p THEN i ELSE i - 1
<1>1. \A i \in 1..n : old(i) \in 1..n + 1 /\ line2[i] = line[old(i)]
  OBVIOUS
<1>2. \A i, j \in 1..n : i < j => old(i) < old(j)
  OBVIOUS
<1>3. ASSUME NEW i \in 1..n + 1, line[i] # 0
      PROVE  new(i) \in 1..n /\ line2[new(i)] = line[i]
  <2>1. i # p
    BY <1>3
  <2>2. CASE i < p
    BY <2>2
  <2>3. CASE i > p
    <3>1. i - 1 \in 1..n /\ ~(i - 1 < p) /\ (i - 1) + 1 = i
      BY <2>3
    <3> QED
      BY <2>3, <3>1
  <2> QED
    BY <2>1, <2>2, <2>3
<1> HIDE DEF old, new
<1>4. ASSUME NEW i \in 1..n, NEW j \in 1..n, line2[i] # 0, line2[j] # 0, i < j
      PROVE  line2[i] < line2[j]
  BY <1>1, <1>2, <1>4 DEF Ordered
<1>5. ASSUME NEW i \in 1..n, line2[i] # 0
      PROVE  \/ line2[i] = last
             \/ /\ line2[i] < last
                /\ \E j \in 1..n : line2[j] # 0 /\ line2[j] = line2[i] + 1
  <2>1. \/ line[old(i)] = last
        \/ /\ line[old(i)] < last
           /\ \E j \in 1..n + 1 : line[j] # 0 /\ line[j] = line[old(i)] + 1
    BY <1>1, <1>5 DEF Ordered
  <2>2. ASSUME NEW j \in 1..n + 1, line[j] # 0, line[j] = line[old(i)] + 1
        PROVE  \E k \in 1..n : line2[k] # 0 /\ line2[k] = line2[i] + 1
    BY <1>1, <1>3, <2>2
  <2> QED
    BY <1>1, <2>1, <2>2
<1> QED
  BY <1>4, <1>5 DEF Ordered

\* The first of the line can be done with.
LEMMA OrderedFirstDone ==
    ASSUME NEW n \in Nat, NEW last \in Nat, NEW line, NEW line2,
           \A i \in 1..n : line[i] \in Nat,
           Ordered(line, n, last),
           line2[1] = 0, \A i \in 2..n : line2[i] = line[i]
    PROVE  Ordered(line2, n, last)
<1>1. \A i \in 1..n : line2[i] # 0 => i \in 2..n /\ line2[i] = line[i]
  OBVIOUS
<1>2. ASSUME NEW i \in 1..n, line2[i] # 0
      PROVE  \/ line2[i] = last
             \/ /\ line2[i] < last
                /\ \E j \in 1..n : line2[j] # 0 /\ line2[j] = line2[i] + 1
  <2>1. CASE line[i] # last
    <3>1. line[i] < last /\ \E j \in 1..n : line[j] # 0 /\ line[j] = line[i] + 1
      BY <1>1, <1>2, <2>1 DEF Ordered
    <3>2. PICK j \in 1..n : line[j] # 0 /\ line[j] = line[i] + 1
      BY <3>1
    <3>3. j # 1
      BY <1>1, <1>2, <3>2 DEF Ordered
    <3>4. j \in 2..n
      BY <3>2, <3>3
    <3> QED
      BY <1>1, <1>2, <3>1, <3>2, <3>4
  <2> QED
    BY <1>1, <1>2, <2>1
<1>3. \A i, j \in 1..n :
        line2[i] # 0 /\ line2[j] # 0 /\ i < j => line2[i] < line2[j]
  BY <1>1 DEF Ordered
<1> QED
  BY <1>2, <1>3 DEF Ordered

\* The strengthening: an agent that waits for a turn, or has ended, is in none.
LineInv ==
    /\ TextsInOrder
    /\ pc \in {"waiting", "returned", "crashed"} => turn = 0

LEMMA OrderedIs ==
    ASSUME NEW line, NEW n, NEW last
    PROVE  LET Texts == {i \in 1..n : line[i] # 0}
           IN  (/\ \A i, j \in Texts : i < j => line[i] < line[j]
                /\ \A i \in Texts :
                     \/ line[i] = last
                     \/ line[i] < last /\ \E j \in Texts : line[j] = line[i] + 1)
               <=> Ordered(line, n, last)
<1> DEFINE Texts == {i \in 1..n : line[i] # 0}
<1>1. \A i : i \in Texts <=> i \in 1..n /\ line[i] # 0
  OBVIOUS
<1> HIDE DEF Texts
<1>2. (\A i, j \in Texts : i < j => line[i] < line[j])
        <=> (\A i, j \in 1..n : line[i] # 0 /\ line[j] # 0 /\ i < j => line[i] < line[j])
  BY <1>1, Zenon
<1>3. \A i : (\E j \in Texts : line[j] = line[i] + 1)
               <=> (\E j \in 1..n : line[j] # 0 /\ line[j] = line[i] + 1)
  BY <1>1, Zenon
<1>4. (\A i \in Texts :
         \/ line[i] = last
         \/ line[i] < last /\ \E j \in Texts : line[j] = line[i] + 1)
        <=> (\A i \in 1..n : line[i] # 0 =>
               \/ line[i] = last
               \/ line[i] < last /\ \E j \in 1..n : line[j] # 0 /\ line[j] = line[i] + 1)
  BY <1>1, <1>3, Zenon
<1> QED
  BY <1>2, <1>4 DEF Ordered, Texts

LEMMA LineIs ==
    /\ TextsInOrder <=> Ordered(Line, Len(Line), sent.texts)
    /\ TextsInOrder' <=> Ordered(Line', Len(Line'), sent.texts')
<1>1. TextsInOrder <=> Ordered(Line, Len(Line), sent.texts)
  BY OrderedIs, Zenon DEF TextsInOrder
<1>2. TextsInOrder' <=> Ordered(Line', Len(Line'), sent.texts')
  BY OrderedIs, Zenon DEF TextsInOrder
<1> QED
  BY <1>1, <1>2

LEMMA LinesOf ==
    ASSUME TypeOK, TypeOK'
    PROVE  /\ turn \in Nat /\ turns \in Seq(Nat) /\ inbound \in Seq(Frames)
           /\ Line = LineOf(turn, turns, inbound)
           /\ turn' \in Nat /\ turns' \in Seq(Nat) /\ inbound' \in Seq(Frames)
           /\ Line' = LineOf(turn', turns', inbound')
           /\ sent.texts \in Nat /\ sent.texts' \in Nat
<1>1. Line = LineOf(turn, turns, inbound) /\ Line' = LineOf(turn', turns', inbound')
  BY DEF Line, LineOf, TextOf
<1> QED
  BY <1>1 DEF TypeOK, ClientTypes, QueueTypes, AgentTypes

LEMMA LinesAreLaid ==
    ASSUME TypeOK, TypeOK'
    PROVE  /\ Laid(Line, turn, turns, inbound)
           /\ Laid(Line', turn', turns', inbound')
           /\ \A i \in 1..Len(Line) : Line[i] \in Nat
<1>1. Laid(Line, turn, turns, inbound) /\ Laid(Line', turn', turns', inbound')
  BY LinesOf, LineShape
<1>2. PICK line : line = Line
  OBVIOUS
<1>3. line \in Seq(Nat)
  BY <1>1, <1>2 DEF Laid
<1>4. \A i \in 1..Len(line) : line[i] \in Nat
  BY <1>3
<1> QED
  BY <1>1, <1>2, <1>4

\* A step that leaves the line and the number of the last text alone.
LEMMA LineUntouched ==
    ASSUME TypeOK, TypeOK', LineInv, UNCHANGED <<turn, turns, inbound, sent>>
    PROVE  TextsInOrder'
BY LinesOf, LineIs DEF LineInv

\* A frame is sent: a text with the next number, or something else.
LEMMA LineGrows ==
    ASSUME TypeOK, TypeOK', LineInv, UNCHANGED <<turn, turns>>,
           NEW frame \in Frames, inbound' = Append(inbound, frame),
           \/ TextOf(frame) = 0 /\ sent.texts' = sent.texts
           \/ TextOf(frame) = sent.texts + 1 /\ sent.texts' = sent.texts + 1
    PROVE  TextsInOrder'
<1> DEFINE n == Len(Line)
<1>1. /\ n = 1 + Len(turns) + Len(inbound) /\ \A i \in 1..n : Line[i] \in Nat
      /\ Line[1] = turn
      /\ \A i \in 1..Len(turns) : Line[1 + i] = turns[i]
      /\ \A i \in 1..Len(inbound) : Line[1 + Len(turns) + i] = TextOf(inbound[i])
  BY LinesAreLaid DEF Laid
<1>2. /\ Len(Line') = 1 + Len(turns) + Len(inbound')
      /\ Line'[1] = turn
      /\ \A i \in 1..Len(turns) : Line'[1 + i] = turns[i]
      /\ \A i \in 1..Len(inbound') : Line'[1 + Len(turns) + i] = TextOf(inbound'[i])
  BY LinesAreLaid DEF Laid
<1>3. /\ Len(turns) \in Nat /\ Len(inbound) \in Nat /\ Len(inbound') = Len(inbound) + 1
      /\ inbound'[Len(inbound) + 1] = frame
      /\ \A i \in 1..Len(inbound) : inbound'[i] = inbound[i]
  BY LinesOf
<1>4. n \in Nat /\ Len(Line') = n + 1
  BY <1>1, <1>2, <1>3
<1>a. Line'[n + 1] = TextOf(frame)
  <2>1. Len(inbound) + 1 \in 1..Len(inbound') /\ 1 + Len(turns) + (Len(inbound) + 1) = n + 1
    BY <1>1, <1>3
  <2> QED
    BY <1>2, <1>3, <2>1
<1>5. ASSUME NEW i \in 1..n
      PROVE  Line'[i] = Line[i]
  <2>1. CASE i = 1
    BY <1>1, <1>2, <2>1
  <2>2. CASE i > 1 /\ i <= 1 + Len(turns)
    <3>1. i - 1 \in 1..Len(turns) /\ 1 + (i - 1) = i
      BY <1>3, <2>2
    <3> QED
      BY <1>1, <1>2, <3>1
  <2>3. CASE i > 1 + Len(turns)
    <3> DEFINE k == i - (1 + Len(turns))
    <3>1. k \in 1..Len(inbound) /\ k \in 1..Len(inbound') /\ 1 + Len(turns) + k = i
      BY <1>1, <1>3, <2>3
    <3> QED
      BY <1>1, <1>2, <1>3, <3>1
  <2> QED
    BY <2>1, <2>2, <2>3
<1> HIDE DEF n
<1>6. Ordered(Line, n, sent.texts)
  BY LineIs DEF LineInv, n
<1>7. Ordered(Line', n + 1, sent.texts')
  <2>1. \A i \in 1..n : Line[i] \in Nat
    BY <1>1 DEF n
  <2>2. n \in Nat /\ sent.texts \in Nat /\ sent.texts' \in Nat
    BY <1>4, LinesOf
  <2>3. \/ Line'[n + 1] = 0 /\ sent.texts' = sent.texts
        \/ Line'[n + 1] = sent.texts + 1 /\ sent.texts' = sent.texts + 1
    BY <1>a
  <2> QED
    BY <1>5, <1>6, <2>1, <2>2, <2>3, OrderedAppend, Zenon
<1> QED
  BY <1>4, <1>7, LineIs

\* The pump hands a text or the sentinel on: the line stays as it is.
LEMMA LineMoves ==
    ASSUME TypeOK, TypeOK', LineInv, UNCHANGED <<turn, sent>>, inbound # <<>>,
           inbound' = Tail(inbound), turns' = Append(turns, TextOf(Head(inbound)))
    PROVE  TextsInOrder'
<1> DEFINE n == Len(Line)
<1>1. /\ n = 1 + Len(turns) + Len(inbound)
      /\ Line[1] = turn
      /\ \A i \in 1..Len(turns) : Line[1 + i] = turns[i]
      /\ \A i \in 1..Len(inbound) : Line[1 + Len(turns) + i] = TextOf(inbound[i])
  BY LinesAreLaid DEF Laid
<1>2. /\ Len(Line') = 1 + Len(turns') + Len(inbound')
      /\ Line'[1] = turn
      /\ \A i \in 1..Len(turns') : Line'[1 + i] = turns'[i]
      /\ \A i \in 1..Len(inbound') : Line'[1 + Len(turns') + i] = TextOf(inbound'[i])
  BY LinesAreLaid DEF Laid
<1>3. /\ Len(turns) \in Nat /\ Len(turns') = Len(turns) + 1
      /\ turns'[Len(turns) + 1] = TextOf(inbound[1])
      /\ \A i \in 1..Len(turns) : turns'[i] = turns[i]
  BY LinesOf
<1>4. /\ Len(inbound) \in Nat \ {0} /\ Len(inbound') = Len(inbound) - 1
      /\ \A i \in 1..Len(inbound') : inbound'[i] = inbound[i + 1]
  BY LinesOf
<1>5. Len(Line') = n
  BY <1>1, <1>2, <1>3, <1>4
<1>6. ASSUME NEW i \in 1..n
      PROVE  Line'[i] = Line[i]
  <2>1. CASE i = 1
    BY <1>1, <1>2, <2>1
  <2>2. CASE i > 1 /\ i <= 1 + Len(turns)
    <3>1. i - 1 \in 1..Len(turns) /\ i - 1 \in 1..Len(turns') /\ 1 + (i - 1) = i
      BY <1>3, <2>2
    <3>2. Line[1 + (i - 1)] = turns[i - 1] /\ Line'[1 + (i - 1)] = turns'[i - 1]
      BY <1>1, <1>2, <3>1
    <3> QED
      BY <1>3, <3>1, <3>2
  <2>3. CASE i = 2 + Len(turns)
    <3>1. /\ Len(turns) + 1 \in 1..Len(turns') /\ 1 + (Len(turns) + 1) = i
          /\ 1 \in 1..Len(inbound) /\ 1 + Len(turns) + 1 = i
      BY <1>3, <1>4, <2>3
    <3>2. Line'[1 + (Len(turns) + 1)] = turns'[Len(turns) + 1]
      BY <1>2, <3>1
    <3>3. Line[1 + Len(turns) + 1] = TextOf(inbound[1])
      BY <1>1, <3>1
    <3> QED
      BY <1>3, <3>1, <3>2, <3>3
  <2>4. CASE i > 2 + Len(turns)
    <3> DEFINE k == i - (2 + Len(turns))
    <3>1. /\ k \in 1..Len(inbound') /\ 1 + Len(turns') + k = i
          /\ k + 1 \in 1..Len(inbound) /\ 1 + Len(turns) + (k + 1) = i
      BY <1>1, <1>3, <1>4, <2>4
    <3> QED
      BY <1>1, <1>2, <1>4, <3>1
  <2> QED
    BY <1>3, <2>1, <2>2, <2>3, <2>4
<1> HIDE DEF n
<1>7. Ordered(Line, n, sent.texts)
  BY LineIs DEF LineInv, n
<1>8. Ordered(Line', n, sent.texts')
  BY <1>6, <1>7 DEF Ordered
<1> QED
  BY <1>5, <1>8, LineIs

\* The pump takes a frame that is no text.
LEMMA LineLosesFrame ==
    ASSUME TypeOK, TypeOK', LineInv, UNCHANGED <<turn, turns, sent>>, inbound # <<>>,
           inbound' = Tail(inbound), TextOf(Head(inbound)) = 0
    PROVE  TextsInOrder'
<1> DEFINE n == Len(Line')
           p == 2 + Len(turns)
<1>1. /\ Len(Line) = 1 + Len(turns) + Len(inbound)
      /\ Line[1] = turn
      /\ \A i \in 1..Len(turns) : Line[1 + i] = turns[i]
      /\ \A i \in 1..Len(inbound) : Line[1 + Len(turns) + i] = TextOf(inbound[i])
  BY LinesAreLaid DEF Laid
<1>2. /\ n = 1 + Len(turns) + Len(inbound')
      /\ Line'[1] = turn
      /\ \A i \in 1..Len(turns) : Line'[1 + i] = turns[i]
      /\ \A i \in 1..Len(inbound') : Line'[1 + Len(turns) + i] = TextOf(inbound'[i])
  BY LinesAreLaid DEF Laid
<1>3. /\ Len(turns) \in Nat
      /\ Len(inbound) \in Nat \ {0} /\ Len(inbound') = Len(inbound) - 1
      /\ Head(inbound) = inbound[1]
      /\ \A i \in 1..Len(inbound') : inbound'[i] = inbound[i + 1]
  BY LinesOf
<1>4. n \in Nat /\ Len(Line) = n + 1 /\ p \in 1..n + 1
  BY <1>1, <1>2, <1>3
<1>5. Line[p] = 0
  <2>1. 1 \in 1..Len(inbound) /\ 1 + Len(turns) + 1 = p
    BY <1>3
  <2>2. Line[1 + Len(turns) + 1] = TextOf(inbound[1])
    BY <1>1, <2>1
  <2> QED
    BY <1>3, <2>1, <2>2
<1>6. ASSUME NEW i \in 1..n
      PROVE  Line'[i] = IF i < p THEN Line[i] ELSE Line[i + 1]
  <2>1. CASE i = 1
    BY <1>1, <1>2, <1>3, <2>1
  <2>2. CASE i > 1 /\ i < p
    <3>1. i - 1 \in 1..Len(turns) /\ 1 + (i - 1) = i
      BY <1>3, <2>2
    <3>2. Line[1 + (i - 1)] = turns[i - 1] /\ Line'[1 + (i - 1)] = turns[i - 1]
      BY <1>1, <1>2, <3>1
    <3> QED
      BY <2>2, <3>1, <3>2
  <2>3. CASE i >= p
    <3> DEFINE k == i - (1 + Len(turns))
    <3>1. /\ k \in 1..Len(inbound') /\ 1 + Len(turns) + k = i
          /\ k + 1 \in 1..Len(inbound) /\ 1 + Len(turns) + (k + 1) = i + 1
      BY <1>2, <1>3, <2>3
    <3> HIDE DEF k
    <3>2. Line'[1 + Len(turns) + k] = TextOf(inbound'[k])
      BY <1>2, <3>1
    <3>3. Line[1 + Len(turns) + (k + 1)] = TextOf(inbound[k + 1])
      BY <1>1, <3>1
    <3>4. inbound'[k] = inbound[k + 1]
      BY <1>3, <3>1
    <3>5. Line'[i] = Line[i + 1]
      BY <3>1, <3>2, <3>3, <3>4
    <3>6. ~(i < p)
      BY <1>3, <2>3
    <3> QED
      BY <3>5, <3>6
  <2> QED
    BY <1>3, <2>1, <2>2, <2>3
<1> HIDE DEF n, p
<1>7. Ordered(Line, n + 1, sent.texts)
  BY <1>4, LineIs DEF LineInv
<1>8. Ordered(Line', n, sent.texts)
  BY <1>4, <1>5, <1>6, <1>7, LinesOf, OrderedDrop
<1> QED
  BY <1>8, LineIs DEF n

\* The agent, which is in no turn, takes the next one, or the sentinel.
LEMMA LineTaken ==
    ASSUME TypeOK, TypeOK', LineInv, UNCHANGED <<inbound, sent>>, turn = 0,
           turns # <<>>, turns' = Tail(turns), turn' = Head(turns)
    PROVE  TextsInOrder'
<1> DEFINE n == Len(Line')
<1>1. /\ Len(Line) = 1 + Len(turns) + Len(inbound)
      /\ Line[1] = turn
      /\ \A i \in 1..Len(turns) : Line[1 + i] = turns[i]
      /\ \A i \in 1..Len(inbound) : Line[1 + Len(turns) + i] = TextOf(inbound[i])
  BY LinesAreLaid DEF Laid
<1>2. /\ n = 1 + Len(turns') + Len(inbound)
      /\ Line'[1] = turn'
      /\ \A i \in 1..Len(turns') : Line'[1 + i] = turns'[i]
      /\ \A i \in 1..Len(inbound) : Line'[1 + Len(turns') + i] = TextOf(inbound[i])
  BY LinesAreLaid DEF Laid
<1>3. /\ Len(turns) \in Nat \ {0} /\ Len(turns') = Len(turns) - 1
      /\ Head(turns) = turns[1]
      /\ \A i \in 1..Len(turns') : turns'[i] = turns[i + 1]
      /\ Len(inbound) \in Nat
  BY LinesOf
<1>4. n \in Nat /\ Len(Line) = n + 1 /\ 1 \in 1..n + 1
  BY <1>1, <1>2, <1>3
<1>5. Line[1] = 0
  BY <1>1
<1>6. ASSUME NEW i \in 1..n
      PROVE  Line'[i] = Line[i + 1]
  <2>1. CASE i = 1
    <3>1. 1 \in 1..Len(turns) /\ 1 + 1 = i + 1
      BY <1>3, <2>1
    <3>2. Line[1 + 1] = turns[1]
      BY <1>1, <3>1
    <3> QED
      BY <1>2, <1>3, <2>1, <3>1, <3>2
  <2>2. CASE i > 1 /\ i <= 1 + Len(turns')
    <3>1. i - 1 \in 1..Len(turns') /\ i \in 1..Len(turns)
          /\ 1 + (i - 1) = i /\ (i - 1) + 1 = i /\ 1 + i = i + 1
      BY <1>3, <2>2
    <3>2. Line'[1 + (i - 1)] = turns'[i - 1] /\ Line[1 + i] = turns[i]
      BY <1>1, <1>2, <3>1
    <3>3. turns'[i - 1] = turns[(i - 1) + 1]
      BY <1>3, <3>1
    <3> QED
      BY <3>1, <3>2, <3>3
  <2>3. CASE i > 1 + Len(turns')
    <3> DEFINE k == i - (1 + Len(turns'))
    <3>1. /\ k \in 1..Len(inbound)
          /\ 1 + Len(turns') + k = i /\ 1 + Len(turns) + k = i + 1
      BY <1>2, <1>3, <2>3
    <3> HIDE DEF k
    <3>2. /\ Line'[1 + Len(turns') + k] = TextOf(inbound[k])
          /\ Line[1 + Len(turns) + k] = TextOf(inbound[k])
      BY <1>1, <1>2, <3>1
    <3> QED
      BY <3>1, <3>2
  <2> QED
    BY <1>3, <2>1, <2>2, <2>3
<1> HIDE DEF n
<1>7. Ordered(Line, n + 1, sent.texts)
  BY <1>4, LineIs DEF LineInv
<1>8. \A i \in 1..n : Line'[i] = IF i < 1 THEN Line[i] ELSE Line[i + 1]
  BY <1>6
<1>9. Ordered(Line', n, sent.texts)
  <2>1. sent.texts \in Nat
    BY LinesOf
  <2> QED
    BY <1>4, <1>5, <1>7, <1>8, <2>1, OrderedDrop, Zenon
<1> QED
  BY <1>9, LineIs DEF n

\* The turn ends, and no other begins.
LEMMA LineAnswered ==
    ASSUME TypeOK, TypeOK', LineInv, UNCHANGED <<turns, inbound, sent>>, turn' = 0
    PROVE  TextsInOrder'
<1> DEFINE n == Len(Line)
<1>1. /\ n = 1 + Len(turns) + Len(inbound) /\ \A i \in 1..n : Line[i] \in Nat
      /\ \A i \in 1..Len(turns) : Line[1 + i] = turns[i]
      /\ \A i \in 1..Len(inbound) : Line[1 + Len(turns) + i] = TextOf(inbound[i])
  BY LinesAreLaid DEF Laid
<1>2. /\ Len(Line') = 1 + Len(turns) + Len(inbound)
      /\ Line'[1] = 0
      /\ \A i \in 1..Len(turns) : Line'[1 + i] = turns[i]
      /\ \A i \in 1..Len(inbound) : Line'[1 + Len(turns) + i] = TextOf(inbound[i])
  BY LinesAreLaid DEF Laid
<1>3. Len(turns) \in Nat /\ Len(inbound) \in Nat /\ n \in Nat /\ Len(Line') = n
  BY <1>1, <1>2, LinesOf
<1>4. ASSUME NEW i \in 2..n
      PROVE  Line'[i] = Line[i]
  <2>1. CASE i <= 1 + Len(turns)
    <3>1. i - 1 \in 1..Len(turns) /\ 1 + (i - 1) = i
      BY <1>3, <2>1
    <3>2. Line[1 + (i - 1)] = turns[i - 1] /\ Line'[1 + (i - 1)] = turns[i - 1]
      BY <1>1, <1>2, <3>1
    <3> QED
      BY <3>1, <3>2
  <2>2. CASE i > 1 + Len(turns)
    <3> DEFINE k == i - (1 + Len(turns))
    <3>1. k \in 1..Len(inbound) /\ 1 + Len(turns) + k = i
      BY <1>1, <1>3, <2>2
    <3> HIDE DEF k
    <3>2. /\ Line'[1 + Len(turns) + k] = TextOf(inbound[k])
          /\ Line[1 + Len(turns) + k] = TextOf(inbound[k])
      BY <1>1, <1>2, <3>1
    <3> QED
      BY <3>1, <3>2
  <2> QED
    BY <1>3, <2>1, <2>2
<1> HIDE DEF n
<1>5. Ordered(Line, n, sent.texts)
  BY LineIs DEF LineInv, n
<1>6. \A i \in 1..n : Line[i] \in Nat
  BY <1>1 DEF n
<1>7. Ordered(Line', n, sent.texts)
  BY <1>2, <1>3, <1>4, <1>5, <1>6, LinesOf, OrderedFirstDone
<1> QED
  BY <1>3, <1>7, LineIs

LEMMA LineClient ==
    ASSUME TypeOK, TypeOK', LineInv, ClientNext
    PROVE  LineInv'
<1>1. UNCHANGED <<pc, turn, turns>>
  BY DEF ClientNext, ReceiveText, ReceiveConfirm, ReceiveBargeIn, ReceiveAudio, ReceiveExtra,
         Receive, Disconnect, MalformedFrame, DemuxEnds, LateDisconnect, agentVars, queueVars
<1>a. ClientTypes
  BY DEF TypeOK
<1>2. CASE ReceiveText
  <2> DEFINE frame == TextFrame(sent.texts + 1)
  <2>1. frame \in Frames /\ TextOf(frame) = sent.texts + 1
    BY <1>a DEF TextFrame, Frames, TextOf, ClientTypes
  <2>2. sent.texts' = sent.texts + 1 /\ inbound' = Append(inbound, frame)
    BY <1>2, <1>a DEF ReceiveText, Receive, ClientTypes
  <2> HIDE DEF frame
  <2> QED
    BY <1>1, <2>1, <2>2, LineGrows DEF LineInv
<1>3. ASSUME NEW ok \in BOOLEAN, ReceiveConfirm(ok)
      PROVE  LineInv'
  <2> DEFINE frame == ConfirmFrame(prompt, ok)
  <2>1. frame \in Frames /\ TextOf(frame) = 0
    BY <1>a DEF ConfirmFrame, Frames, TextOf, ClientTypes
  <2>2. sent.texts' = sent.texts /\ inbound' = Append(inbound, frame)
    BY <1>3, <1>a DEF ReceiveConfirm, Receive, ClientTypes
  <2> HIDE DEF frame
  <2> QED
    BY <1>1, <2>1, <2>2, LineGrows DEF LineInv
<1>4. CASE ReceiveBargeIn \/ ReceiveAudio
  <2>1. PICK frame \in {BargeInFrame, AudioFrame} : ReceiveExtra(frame)
    BY <1>4 DEF ReceiveBargeIn, ReceiveAudio
  <2>2. frame \in Frames /\ TextOf(frame) = 0
    BY DEF BargeInFrame, AudioFrame, Frames, TextOf
  <2>3. sent.texts' = sent.texts /\ inbound' = Append(inbound, frame)
    BY <2>1, <1>a DEF ReceiveExtra, Receive, ClientTypes
  <2> QED
    BY <1>1, <2>2, <2>3, LineGrows DEF LineInv
<1>5. CASE Disconnect \/ MalformedFrame
  <2>1. CloseFrame \in Frames /\ TextOf(CloseFrame) = 0
    BY DEF CloseFrame, Frames, TextOf
  <2>2. sent' = sent /\ inbound' = Append(inbound, CloseFrame)
    BY <1>5 DEF Disconnect, MalformedFrame, DemuxEnds
  <2> QED
    BY <1>1, <2>1, <2>2, LineGrows DEF LineInv
<1>6. CASE LateDisconnect
  <2>1. UNCHANGED <<inbound, sent>>
    BY <1>6 DEF LateDisconnect, queueVars
  <2> QED
    BY <1>1, <2>1, LineUntouched DEF LineInv
<1> QED
  BY <1>2, <1>3, <1>4, <1>5, <1>6 DEF ClientNext

LEMMA LinePump ==
    ASSUME TypeOK, TypeOK', LineInv, PumpNext
    PROVE  LineInv'
<1>1. UNCHANGED <<pc, turn, sent>> /\ inbound # <<>> /\ inbound' = Tail(inbound)
  BY DEF PumpNext, PumpText, PumpConfirm, PumpBargeIn, PumpAudio, PumpClose, Pump,
         agentVars, clientVars
<1>2. CASE PumpText
  <2>1. turns' = Append(turns, TextOf(Head(inbound)))
    BY <1>2 DEF PumpText, Pump, TextOf
  <2> QED
    BY <1>1, <2>1, LineMoves DEF LineInv
<1>3. CASE PumpClose
  <2>1. turns' = Append(turns, TextOf(Head(inbound)))
    BY <1>3 DEF PumpClose, Pump, TextOf, CLOSE
  <2> QED
    BY <1>1, <2>1, LineMoves DEF LineInv
<1>4. CASE PumpConfirm \/ PumpBargeIn \/ PumpAudio
  <2>1. turns' = turns /\ TextOf(Head(inbound)) = 0
    BY <1>4 DEF PumpConfirm, PumpBargeIn, PumpAudio, Pump, TextOf
  <2> QED
    BY <1>1, <2>1, LineLosesFrame DEF LineInv
<1> QED
  BY <1>2, <1>3, <1>4 DEF PumpNext

LEMMA LineAgent ==
    ASSUME TypeOK, TypeOK', LineInv, AgentNext
    PROVE  LineInv'
<1> USE DEF clientVars, queueVars
<1>1. CASE TakeTurn
  <2>1. /\ turn = 0 /\ turns # <<>> /\ turns' = Tail(turns) /\ turn' = Head(turns)
        /\ UNCHANGED <<inbound, sent>> /\ pc' = "preparing"
    BY <1>1 DEF TakeTurn, AgentStep, LineInv
  <2> QED
    BY <2>1, LineTaken DEF LineInv
<1>2. CASE TakeClose
  <2>1. /\ turn = 0 /\ turns # <<>> /\ turns' = Tail(turns) /\ turn' = Head(turns)
        /\ UNCHANGED <<inbound, sent>> /\ turn' = 0
    BY <1>2 DEF TakeClose, AgentStep, LineInv, CLOSE
  <2> QED
    BY <2>1, LineTaken DEF LineInv
<1>3. CASE turn' = 0 /\ (EndTurn \/ SendRaises)
  <2>1. UNCHANGED <<turns, inbound, sent>>
    BY <1>3 DEF EndTurn, SendRaises
  <2> QED
    BY <1>3, <2>1, LineAnswered DEF LineInv
<1>4. CASE /\ UNCHANGED <<turn, turns, inbound, sent>>
           /\ pc' \notin {"waiting", "returned", "crashed"}
  BY <1>4, LineUntouched DEF LineInv
<1>5. CASE SendRaises /\ turn' # 0
  <2>1. /\ UNCHANGED <<turn, turns, inbound, sent>>
        /\ pc' \notin {"waiting", "returned", "crashed"}
    BY <1>5 DEF SendRaises, TurnRaises
  <2> QED
    BY <1>4, <2>1
<1>6. CASE StreamCancelled \/ TurnFails \/ CompleteTurn \/ ReportFailure \/ GateCancelled
  <2>1. /\ UNCHANGED <<turn, turns, inbound, sent>>
        /\ pc' \notin {"waiting", "returned", "crashed"}
    BY <1>6 DEF StreamCancelled, TurnFails, CompleteTurn, ReportFailure, GateCancelled,
         TurnRaises, TurnCancelled, AgentStep
  <2> QED
    BY <1>4, <2>1
<1>7. CASE \/ Prepare \/ StreamText \/ (\E shape \in Batches : StreamEnd(shape))
           \/ RunAuto \/ SkipUnknown \/ RequestConfirm \/ AwaitReply
           \/ Confirmed \/ Declined \/ ToolEnds \/ CallReported
  <2>1. /\ UNCHANGED <<turn, turns, inbound, sent>>
        /\ pc' \notin {"waiting", "returned", "crashed"}
    BY <1>7 DEF Prepare, StreamText, StreamEnd, RunAuto, SkipUnknown, RequestConfirm,
         AwaitReply, Confirmed, Declined, ToolEnds, CallReported, PcStep, AgentStep,
         NextCall
  <2> QED
    BY <1>4, <2>1
<1>8. EndTurn => turn' = 0
  BY DEF EndTurn
<1> QED
  BY <1>1, <1>2, <1>3, <1>5, <1>6, <1>7, <1>8 DEF AgentNext

LEMMA LineStep ==
    ASSUME TypeOK, TypeOK', LineInv, [Next]_vars
    PROVE  LineInv'
<1>1. CASE WatcherFires \/ Close \/ UNCHANGED vars
  <2>1. UNCHANGED <<pc, turn, turns, inbound, sent>>
    BY <1>1 DEF WatcherFires, Close, vars, agentVars, queueVars, clientVars
  <2> QED
    BY <2>1, LineUntouched DEF LineInv
<1> QED
  BY <1>1, LineClient, LinePump, LineAgent DEF Next

\* Texts become turns in the order in which they were sent, once each, and none is lost
\* between two others (TextsInOrder), whatever else is sent meanwhile.
THEOREM OrderOfTexts == Spec => []TextsInOrder
<1>1. Init => LineInv
  <2> SUFFICES ASSUME Init PROVE LineInv
    OBVIOUS
  <2>1. turn = 0 /\ turns = <<>> /\ inbound = <<>>
    BY DEF Init
  <2>2. turn \in Nat /\ turns \in Seq(Nat) /\ inbound \in Seq(Frames)
    BY <2>1, EmptySeq
  <2>3. Line = LineOf(turn, turns, inbound)
    BY DEF Line, LineOf, TextOf
  <2>4. Laid(Line, turn, turns, inbound)
    BY <2>2, <2>3, LineShape
  <2>5. Len(Line) = 1 /\ Line[1] = 0
    BY <2>1, <2>4 DEF Laid
  <2>6. TextsInOrder
    BY <2>5 DEF TextsInOrder
  <2> QED
    BY <2>1, <2>6 DEF LineInv
<1>2. TypeOK /\ LineInv /\ [Next]_vars => LineInv'
  BY TypeStep, LineStep
<1>3. LineInv => TextsInOrder
  BY DEF LineInv
<1> QED
  BY <1>1, <1>2, <1>3, TypeCorrect, PTL DEF Spec

----------------------------------------------------------------------------
(* The promise of the gate *)

\* What the user has been asked or has seen of a call, or what it has done.
Touched == approved \cup declined \cup ran \cup {prompt.n}

\* Beside ApprovalInv: calls are numbered in their order, the answers are to calls that
\* were made, the request the user sees is not answered, a call that is still to be
\* dispatched is untouched, and the one at the gate has not run.
PromiseInv ==
    /\ approved \cup declined \cup ran \subseteq 1..calls
    /\ prompt.n \in 0..calls /\ (prompt.n # 0 => prompt.n \notin approved \cup declined)
    /\ \A i \in 1..Len(batch) : batch[i].n \in 1..calls
    /\ \A i, j \in 1..Len(batch) : i < j => batch[i].n < batch[j].n
    /\ \A i \in 1..Len(batch) : i > 1 \/ pc = "announcing" => batch[i].n \notin Touched
    /\ AtGate => Call.n \notin ran

LEMMA PromiseInit == Init => PromiseInv
BY DEF Init, PromiseInv, AtGate, NoPrompt

\* The call under way is the first of the batch.
LEMMA FirstCall ==
    ASSUME TypeOK, pc \in Dispatching
    PROVE  1 \in 1..Len(batch) /\ Call = batch[1] /\ Len(batch) \in Nat
<1>1. batch \in Seq(ToolCalls) /\ batch # <<>>
  BY DEF TypeOK, AgentTypes
<1> QED
  BY <1>1, EmptySeq DEF Call

\* A step that touches no call and dispatches none.
LEMMA PromiseUntouched ==
    ASSUME TypeOK, PromiseInv, UNCHANGED <<approved, declined, ran, prompt, calls>>,
           batch' \in {batch, <<>>},
           pc' = "announcing" => pc = "announcing",
           AtGate' => AtGate /\ batch' = batch
    PROVE  PromiseInv'
<1>1. Len(<<>>) = 0 /\ 1..0 = {}
  OBVIOUS
<1>2. CASE batch' = batch
  BY <1>2 DEF PromiseInv, Touched, Call
<1>3. CASE batch' = <<>>
  <2>1. AtGate' => Call'.n \notin ran
    BY DEF PromiseInv, Call
  <2>2. 1..Len(batch') = {}
    BY <1>1, <1>3
  <2> QED
    BY <2>1, <2>2 DEF PromiseInv
<1> QED
  BY <1>2, <1>3

LEMMA PromiseClient ==
    ASSUME TypeOK, ApprovalInv, PromiseInv, ClientNext
    PROVE  PromiseInv' /\ [Promise!Next]_(Promise!vars)
<1>1. UNCHANGED <<pc, batch, calls, ran>> /\ AtGate' = AtGate /\ Call' = Call
  BY DEF ClientNext, ReceiveText, ReceiveConfirm, ReceiveBargeIn, ReceiveAudio, ReceiveExtra,
         Receive, Disconnect, MalformedFrame, DemuxEnds, LateDisconnect, agentVars,
         outcomeVars, AtGate, Call
<1>2. CASE UNCHANGED <<approved, declined, prompt>>
  <2>1. PromiseInv'
    BY <1>1, <1>2, PromiseUntouched
  <2> QED
    BY <1>1, <1>2, <2>1 DEF Promise!vars
<1>3. ASSUME NEW ok \in BOOLEAN, ReceiveConfirm(ok)
      PROVE  PromiseInv' /\ [Promise!Next]_(Promise!vars)
  <2>1. prompt # NoPrompt /\ prompt' = NoPrompt
    BY <1>3 DEF ReceiveConfirm
  <2>2. prompt.n # 0
    BY <2>1 DEF TypeOK, ClientTypes, ApprovalInv, OwnIds, NoPrompt
  <2>3. calls \in Nat /\ prompt.n \in 1..calls /\ prompt.n \notin approved \cup declined
    BY <2>2 DEF PromiseInv, TypeOK, AgentTypes
  <2>4. \/ ok /\ approved' = approved \cup {prompt.n} /\ declined' = declined
        \/ ~ok /\ approved' = approved /\ declined' = declined \cup {prompt.n}
    BY <1>3 DEF ReceiveConfirm
  <2>5. PromiseInv'
    <3>1. prompt'.n = 0
      BY <2>1 DEF NoPrompt
    <3>2. approved' \cup declined' = approved \cup declined \cup {prompt.n}
      BY <2>4
    <3>3. \A i \in 1..Len(batch) : batch[i].n # 0
      BY <2>3 DEF PromiseInv
    <3>4. Touched' \subseteq Touched \cup {0}
      BY <1>1, <3>1, <3>2 DEF Touched
    <3> QED
      BY <1>1, <2>3, <3>1, <3>2, <3>3, <3>4 DEF PromiseInv
  <2>6. Promise!Next
    BY <1>1, <2>3, <2>4 DEF Promise!Next, Promise!Approve, Promise!Decline, Promise!Answered
  <2> QED
    BY <2>5, <2>6
<1>4. ClientNext => UNCHANGED <<approved, declined, prompt>> \/ \E ok \in BOOLEAN : ReceiveConfirm(ok)
  BY DEF ClientNext, ReceiveText, ReceiveBargeIn, ReceiveAudio, ReceiveExtra, Disconnect,
         MalformedFrame, DemuxEnds, LateDisconnect
<1> QED
  BY <1>2, <1>3, <1>4

\* The calls of the next reply come after all earlier ones.
LEMMA PromiseProposed ==
    ASSUME TypeOK, PromiseInv, NEW shape \in Batches, StreamEnd(shape)
    PROVE  PromiseInv' /\ [Promise!Next]_(Promise!vars)
<1>1. /\ UNCHANGED <<approved, declined, ran, prompt>>
      /\ batch' = Numbered(shape) /\ calls' = calls + Len(shape)
      /\ pc = "streaming" /\ pc' \in {"finishing", "announcing"}
  BY DEF StreamEnd, AgentStep, clientVars, outcomeVars
<1>2. /\ Len(shape) \in Nat /\ calls \in Nat /\ Len(batch') = Len(shape)
      /\ \A i \in 1..Len(batch') : batch'[i].n = calls + i
  BY <1>1, NumberedType DEF Numbered, TypeOK, AgentTypes
<1>3. \A k \in Touched : k \in 0..calls
  BY <1>2 DEF PromiseInv, Touched
<1>4. Touched' = Touched
  BY <1>1 DEF Touched
<1>5. \A i \in 1..Len(batch') : batch'[i].n \in 1..calls' /\ batch'[i].n \notin Touched
  BY <1>1, <1>2, <1>3
<1>6. \A i, j \in 1..Len(batch') : i < j => batch'[i].n < batch'[j].n
  BY <1>2
<1>7. approved \cup declined \cup ran \subseteq 1..calls' /\ prompt.n \in 0..calls'
  BY <1>1, <1>2 DEF PromiseInv
<1>8. ~AtGate' /\ ~AtGate
  BY <1>1 DEF AtGate
<1>9. PromiseInv'
  BY <1>1, <1>4, <1>5, <1>6, <1>7, <1>8 DEF PromiseInv
<1>10. CASE Len(shape) = 0
  BY <1>1, <1>2, <1>8, <1>9, <1>10 DEF Promise!vars
<1>11. CASE Len(shape) # 0
  <2>1. calls' \in Nat /\ calls' > calls
    BY <1>1, <1>2, <1>11
  <2>2. Promise!Propose
    BY <1>1, <1>8, <2>1 DEF Promise!Propose
  <2> QED
    BY <1>9, <2>2 DEF Promise!Next
<1> QED
  BY <1>10, <1>11

\* The next call of the batch is as untouched as it was.
LEMMA PromiseNextCall ==
    ASSUME TypeOK, PromiseInv, pc \in Dispatching \ {"asking", "awaiting"}, NextCall,
           UNCHANGED <<approved, declined, ran, prompt, calls>>
    PROVE  PromiseInv' /\ [Promise!Next]_(Promise!vars)
<1>1. batch \in Seq(ToolCalls) /\ batch # <<>>
  BY DEF TypeOK, AgentTypes
<1>2. batch' = Tail(batch) /\ pc' \in {"announcing", "finishing", "streaming"}
  BY DEF NextCall
<1>3. /\ Len(batch) \in Nat \ {0} /\ Len(batch') = Len(batch) - 1
      /\ \A i \in 1..Len(batch') : batch'[i] = batch[i + 1]
  BY <1>1, <1>2, EmptySeq
<1>4. \A i \in 1..Len(batch') : i + 1 \in 1..Len(batch) /\ i + 1 > 1
  BY <1>3
<1>5. ~AtGate' /\ ~AtGate
  BY <1>2 DEF AtGate, Dispatching
<1>6. Touched' = Touched
  BY DEF Touched
<1>7. \A i, j \in 1..Len(batch') : i < j => batch'[i].n < batch'[j].n
  <2>1. \A i, j \in 1..Len(batch') : i < j => i + 1 < j + 1
    BY <1>3
  <2> QED
    BY <1>3, <1>4, <2>1 DEF PromiseInv
<1>8. \A i \in 1..Len(batch') : batch'[i].n \in 1..calls /\ batch'[i].n \notin Touched
  BY <1>3, <1>4 DEF PromiseInv
<1>9. PromiseInv'
  BY <1>5, <1>6, <1>7, <1>8 DEF PromiseInv
<1> QED
  BY <1>5, <1>9 DEF Promise!vars

LEMMA PromiseGate ==
    ASSUME TypeOK, ApprovalInv, PromiseInv, RequestConfirm \/ AwaitReply \/ Confirmed
    PROVE  PromiseInv' /\ [Promise!Next]_(Promise!vars)
<1>1. pc \in Dispatching
  BY DEF RequestConfirm, AwaitReply, Confirmed, PcStep, AgentStep, Dispatching
<1>2. /\ 1 \in 1..Len(batch) /\ Call = batch[1] /\ Len(batch) \in Nat
      /\ Call.n \in 1..calls /\ calls \in Nat /\ Call.n # 0
  BY <1>1, FirstCall DEF PromiseInv, TypeOK, AgentTypes
<1>3. UNCHANGED <<batch, calls, approved, declined>> /\ Call' = Call
  BY DEF RequestConfirm, AwaitReply, Confirmed, PcStep, clientVars, agentVars, Call
<1>4. CASE RequestConfirm
  <2>1. /\ ran' = ran /\ prompt' \in {prompt, [n |-> Call.n, id |-> Call.id]}
        /\ pc = "announcing" /\ pc' = "asking"
    BY <1>4 DEF RequestConfirm, AgentStep, outcomeVars
  <2>2. Call.n \notin Touched /\ ~AtGate /\ AtGate'
    BY <1>2, <2>1 DEF PromiseInv, AtGate
  <2>3. \A i \in 1..Len(batch) : i > 1 => batch[i].n # Call.n
    <3>1. \A i \in 1..Len(batch) : i > 1 => batch[1].n < batch[i].n
      BY <1>2 DEF PromiseInv
    <3> QED
      BY <1>2, <3>1
  <2>4. Touched' \subseteq Touched \cup {Call.n}
    BY <1>3, <2>1 DEF Touched
  <2>5. prompt'.n \in 0..calls /\ (prompt'.n # 0 => prompt'.n \notin approved \cup declined)
    BY <1>2, <2>1, <2>2 DEF PromiseInv, Touched
  <2>6. PromiseInv'
    BY <1>3, <2>1, <2>2, <2>3, <2>4, <2>5 DEF PromiseInv, Touched
  <2>7. Promise!Ask(Call.n)
    BY <1>3, <2>1, <2>2 DEF Promise!Ask, Promise!Answered, Touched
  <2> QED
    BY <1>2, <2>6, <2>7 DEF Promise!Next
<1>5. CASE AwaitReply
  <2>1. AtGate /\ AtGate' /\ UNCHANGED <<ran, prompt>> /\ pc' # "announcing"
    BY <1>5 DEF AwaitReply, PcStep, AgentStep, AtGate, clientVars, outcomeVars
  <2>2. PromiseInv'
    BY <1>3, <2>1, PromiseUntouched
  <2> QED
    BY <1>3, <2>1, <2>2 DEF Promise!vars
<1>6. CASE Confirmed
  <2>1. /\ ran' = ran \cup {Call.n} /\ prompt' = prompt /\ fut = "ok"
        /\ pc = "awaiting" /\ pc' = "running"
    BY <1>6 DEF Confirmed, AgentStep, clientVars
  <2>2. AtGate /\ ~AtGate' /\ Call.n \in approved /\ Call.n \notin ran
    BY <2>1 DEF ApprovalInv, HonestFuture, PromiseInv, AtGate
  <2>3. \A i \in 1..Len(batch) : i > 1 => batch[i].n # Call.n
    <3>1. \A i \in 1..Len(batch) : i > 1 => batch[1].n < batch[i].n
      BY <1>2 DEF PromiseInv
    <3> QED
      BY <1>2, <3>1
  <2>4. Touched' \subseteq Touched \cup {Call.n}
    BY <1>3, <2>1 DEF Touched
  <2>5. PromiseInv'
    BY <1>2, <1>3, <2>1, <2>2, <2>3, <2>4 DEF PromiseInv
  <2>6. Promise!Run
    BY <1>3, <2>1, <2>2 DEF Promise!Run
  <2> QED
    BY <2>5, <2>6 DEF Promise!Next
<1> QED
  BY <1>4, <1>5, <1>6

\* A step that asks and runs nothing closes the open request or leaves it alone.
LEMMA PromiseCloses ==
    ASSUME TypeOK, PromiseInv, UNCHANGED <<approved, declined, ran, prompt, calls>>,
           batch' \in {batch, <<>>}, ~AtGate', pc' # "announcing"
    PROVE  PromiseInv' /\ [Promise!Next]_(Promise!vars)
<1>1. PromiseInv'
  BY PromiseUntouched
<1>2. CASE AtGate /\ Call.n # 0
  BY <1>1, <1>2 DEF Promise!Next, Promise!Withdraw
<1>3. CASE ~AtGate \/ Call.n = 0
  BY <1>1, <1>3 DEF Promise!vars
<1> QED
  BY <1>2, <1>3

LEMMA PromiseStep ==
    ASSUME TypeOK, ApprovalInv, PromiseInv, [Next]_vars
    PROVE  PromiseInv' /\ [Promise!Next]_(Promise!vars)
<1> USE DEF clientVars, agentVars, outcomeVars
<1>1. CASE PumpNext \/ WatcherFires \/ Close \/ UNCHANGED vars
  <2>1. /\ UNCHANGED <<approved, declined, ran, prompt, calls, batch, pc>>
        /\ AtGate' = AtGate /\ Call' = Call
    BY <1>1 DEF PumpNext, PumpText, PumpConfirm, PumpBargeIn, PumpAudio, PumpClose, Pump,
         WatcherFires, Close, vars, AtGate, Call
  <2>2. PromiseInv'
    BY <2>1, PromiseUntouched
  <2> QED
    BY <2>1, <2>2 DEF Promise!vars
<1>2. CASE SkipUnknown \/ CallReported
  <2>1. /\ UNCHANGED <<approved, declined, ran, prompt, calls>> /\ NextCall
        /\ pc \in Dispatching \ {"asking", "awaiting"}
    BY <1>2 DEF SkipUnknown, CallReported, Dispatching
  <2> QED
    BY <2>1, PromiseNextCall
<1>3. CASE \/ TakeTurn \/ TakeClose \/ Prepare \/ StreamText \/ StreamCancelled
           \/ TurnFails \/ CompleteTurn \/ ReportFailure \/ EndTurn \/ RunAuto
           \/ ToolEnds \/ SendRaises \/ Declined \/ GateCancelled
  <2>1. /\ UNCHANGED <<approved, declined, ran, prompt, calls>>
        /\ batch' \in {batch, <<>>}
        /\ pc' \notin {"announcing", "asking", "awaiting"}
    BY <1>3 DEF TakeTurn, TakeClose, Prepare, StreamText, StreamCancelled, TurnFails,
         CompleteTurn, ReportFailure, EndTurn, RunAuto, ToolEnds, SendRaises, Declined,
         GateCancelled, PcStep, AgentStep, TurnCancelled, TurnRaises
  <2> QED
    BY <2>1, PromiseCloses DEF AtGate
<1> QED
  BY <1>1, <1>2, <1>3, PromiseClient, PromiseProposed, PromiseGate DEF Next, AgentNext

\* With ids of the provider's own, the gate with its queues, futures and races implements
\* what ConfirmPromise says of it (KeepsPromise).
THEOREM PromiseIsKept == IdSources \subseteq {"own"} => (Spec => KeepsPromise)
<1> SUFFICES ASSUME IdSources \subseteq {"own"} PROVE Spec => KeepsPromise
  OBVIOUS
<1>1. Init => ApprovalInv /\ PromiseInv /\ Promise!Init
  BY ApprovalInit, PromiseInit DEF Init, Promise!Init, AtGate
<1>2. TypeOK /\ ApprovalInv /\ PromiseInv /\ [Next]_vars =>
        ApprovalInv' /\ PromiseInv' /\ [Promise!Next]_(Promise!vars)
  BY ApprovalStep, PromiseStep
<1> QED
  BY <1>1, <1>2, TypeCorrect, PTL DEF Spec, KeepsPromise, Promise!Spec

\* What the promise is worth, by itself: a session that keeps it runs only calls the user
\* has confirmed, and no call that he has declined (confirm.py: "never runs without an
\* explicit ok:true from the user").
THEOREM PromiseConfirms == KeepsPromise => [](ConfirmedOnly /\ ran \cap declined = {})
<1> DEFINE Kept == ran \subseteq approved /\ approved \cap declined = {}
<1>1. Promise!Init => Kept
  BY DEF Promise!Init
<1>2. Kept /\ [Promise!Next]_(Promise!vars) => Kept'
  <2> SUFFICES ASSUME Kept, [Promise!Next]_(Promise!vars)
               PROVE  Kept'
    OBVIOUS
  <2>1. CASE Promise!Propose \/ Promise!Withdraw \/ UNCHANGED Promise!vars
    BY <2>1 DEF Promise!Propose, Promise!Withdraw, Promise!vars
  <2>2. CASE Promise!Run
    BY <2>2 DEF Promise!Run
  <2>3. ASSUME NEW n, Promise!Ask(n) \/ Promise!Approve(n) \/ Promise!Decline(n)
        PROVE  Kept'
    BY <2>3 DEF Promise!Ask, Promise!Approve, Promise!Decline, Promise!Answered
  <2> QED
    BY <2>1, <2>2, <2>3 DEF Promise!Next
<1>3. Kept => ConfirmedOnly /\ ran \cap declined = {}
  BY DEF ConfirmedOnly
<1> QED
  BY <1>1, <1>2, <1>3, PTL DEF KeepsPromise, Promise!Spec

============================================================================
