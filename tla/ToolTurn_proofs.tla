--------------------------- MODULE ToolTurn_proofs ---------------------------
(***************************************************************************)
(* Theorems about ToolTurn, for any connectors, tools, calls and bounds.   *)
(*                                                                         *)
(*   TypeCorrect          the types, and a call at hand where one runs     *)
(*   ActionsAreAccounted  the action log shows what was done, but for the  *)
(*                        call under way and what was lost in a failure    *)
(*   MessagesInOrder      the stored messages tell the turns in order      *)
(*   TranscriptIsPaired   every call has its result before the model is    *)
(*                        asked again                                      *)
(*   DoneOnDemand         nothing is done outside that was not confirmed   *)
(*   ContextInPrompt      the prompt has some of what is remembered        *)
(*   StreamedCalls        what is dispatched is what the model means       *)
(*   ToolsAnswerToNames   every tool of every connector answers to a name  *)
(*                                                                         *)
(* The steps are taken in groups, by what they do to the part of the state *)
(* that an invariant is about: TurnOver, the calls, the provider, the      *)
(* rest.                                                                   *)
(***************************************************************************)
EXTENDS ToolTurn, FiniteSetTheorems, SequenceTheorems, WellFoundedInduction, TLAPS

----------------------------------------------------------------------------
(* Natural numbers: a smallest and a greatest one, and what stands for induction *)

\* Any nonempty set of naturals has a smallest element: what stands for induction.
LEMMA SmallestNat ==
    ASSUME NEW T, T \subseteq Nat, T # {}
    PROVE  \E x \in T : \A y \in T : x <= y
<1>1. IsWellFoundedOn(OpToRel(<, Nat), Nat)
  BY NatLessThanWellFounded
<1>2. PICK x \in T : \A y \in T : ~(<<y, x>> \in OpToRel(<, Nat))
  BY <1>1, WFMin
<1>3. \A y \in T : ~(y < x)
  BY <1>2 DEF OpToRel
<1> QED
  BY <1>3

\* A bounded one has a greatest element.
LEMMA GreatestNat ==
    ASSUME NEW b \in Nat, NEW T, T \subseteq 0..b, T # {}
    PROVE  \E x \in T : \A y \in T : y <= x
<1> DEFINE Gaps == {d \in Nat : b - d \in T}
<1>1. Gaps # {}
  <2>1. PICK x \in T : TRUE
    OBVIOUS
  <2>2. x \in 0..b /\ b - x \in Nat /\ b - (b - x) = x
    BY <2>1
  <2>3. b - x \in Gaps
    BY <2>1, <2>2
  <2> QED
    BY <2>3
<1>2. PICK d \in Gaps : \A e \in Gaps : d <= e
  BY <1>1, SmallestNat
<1>3. ASSUME NEW y \in T
      PROVE  y <= b - d
  <2>1. y \in 0..b /\ b - y \in Nat /\ b - (b - y) = y
    BY <1>3
  <2>2. d <= b - y
    BY <1>2, <2>1
  <2> QED
    BY <2>1, <2>2
<1> QED
  BY <1>2, <1>3

\* What stands for induction: a set of naturals that has 0 and with each number the next.
LEMMA UpToNat ==
    ASSUME NEW n \in Nat, NEW T, 0 \in T, \A k \in 0..n - 1 : k \in T => k + 1 \in T
    PROVE  0..n \subseteq T
<1> DEFINE Missing == {k \in 0..n : k \notin T}
<1>1. SUFFICES ASSUME Missing # {}
               PROVE  FALSE
  OBVIOUS
<1>2. PICK k \in Missing : \A l \in Missing : k <= l
  <2>1. Missing \subseteq Nat
    OBVIOUS
  <2> QED
    BY <1>1, <2>1, SmallestNat
<1>3. k # 0 /\ k \in 0..n
  OBVIOUS
<1>4. k - 1 \in 0..n - 1 /\ k - 1 \in 0..n /\ (k - 1) + 1 = k /\ ~(k <= k - 1)
  BY <1>3
<1>5. k - 1 \in T
  BY <1>2, <1>4
<1> QED
  BY <1>4, <1>5

----------------------------------------------------------------------------
(* Types *)

Outcomes == {"error", "skipped", "value", "inert"}

IsSeq(s) == \E S : s \in Seq(S)

Messages ==
    [role : {"system"}, facts : SUBSET Nat] \cup [role : {"user"}, turn : Nat]
      \cup [role : {"assistant"}, calls : Seq(Nat)]
      \cup [role : {"tool"}, call : Nat, outcome : Outcomes]

Stored == [turn : Nat, role : {"user", "edith"}, empty : BOOLEAN]

\* Where a call is at hand.
AtHand == {"asking", "running", "acted", "logging"}

\* The server and the session.
ServerInv ==
    /\ server \in {"starting", "up", "failed"} /\ pool \in BOOLEAN
    /\ provided \subseteq Provisions /\ provider \in {"ilmu", "stub"}
    /\ conversation \in {"none", "open", "ended"}
    /\ server = "starting" => pc = "none" /\ actionLog = {} /\ rows.messages = <<>>
    /\ faults \in 0..MaxFaults

\* Where the turn is.
TurnInv ==
    /\ pc \in Positions
    /\ turn \in 0..MaxTurns /\ rounds \in 0..MaxToolRounds
    /\ pc \in {"streaming", "dispatching"} \cup AtHand => rounds < MaxToolRounds
    /\ interrupted \in BOOLEAN /\ said \in BOOLEAN

\* What the provider is streaming.
StreamInv ==
    /\ meant \in Seq(Meant)
    /\ sent \in [DOMAIN meant -> [pieces : Nat, missing : BOOLEAN]]
    /\ DOMAIN partial \subseteq DOMAIN meant

\* The calls that are dispatched.
CallInv ==
    /\ count \in Nat
    /\ IsSeq(calls)
    /\ \A k \in DOMAIN calls : calls[k].n \in 1..count
    /\ pc \in AtHand => calls # <<>> /\ Current.name \in DOMAIN names
    /\ memory \subseteq acted /\ acted \subseteq 1..count
    /\ approved \subseteq 1..count /\ lost \subseteq 1..count

\* What is said and stored.
MessageInv ==
    /\ messages \in Seq(Messages)
    /\ rows \in [messages : Seq(Stored), actions : SUBSET Nat]

TypeInv == ServerInv /\ TurnInv /\ StreamInv /\ CallInv /\ MessageInv

----------------------------------------------------------------------------
(* Type correctness *)

\* Every way a turn is over.
TurnOver == SocketGone \/ StreamCancelled \/ TurnRaises \/ CancelAtGate \/ EndTurn

\* What the turn holds goes with it.
LEMMA TurnOverClears ==
    ASSUME TurnOver
    PROVE  /\ pc' \in {"waiting", "closing"}
           /\ interrupted' = FALSE /\ rounds' = 0 /\ said' = FALSE
           /\ meant' = <<>> /\ sent' = <<>> /\ DOMAIN partial' = {}
           /\ calls' = <<>> /\ messages' = <<>>
           /\ turn' = turn /\ count' = count /\ memory' = memory /\ actionLog' = actionLog
           /\ acted' = acted /\ approved' = approved /\ lost' = lost /\ pool' = pool
<1>1. ASSUME NoTurn
      PROVE  /\ interrupted' = FALSE /\ rounds' = 0 /\ said' = FALSE
             /\ meant' = <<>> /\ sent' = <<>> /\ DOMAIN partial' = {}
             /\ calls' = <<>> /\ messages' = <<>>
  BY <1>1 DEF NoTurn
<1> QED
  BY <1>1
  DEF TurnOver, SocketGone, StreamCancelled, TurnRaises, CancelAtGate, EndTurn, AbandonTurn,
      Session, serverVars, sessionVars, sessionFrame, storeVars, history

\* What a step does to the stream.
LEMMA StreamChanges ==
    ASSUME Next
    PROVE  \/ meant' = << >> /\ sent' = << >> /\ DOMAIN partial' = {}
           \/ \E batch \in Batches : OpenStream(batch)
           \/ \E i \in DOMAIN meant : Fragment(i)
           \/ UNCHANGED streamVars
<1>1. TurnOver \/ StreamEnds => meant' = << >> /\ sent' = << >> /\ DOMAIN partial' = {}
  BY TurnOverClears DEF StreamEnds
<1>2. ASSUME ServerNext \/ CallNext \/ OpenConversation \/ CloseConversation
               \/ (\E found \in SUBSET Provisions : BuildAgent(found))
      PROVE  TurnOver \/ UNCHANGED streamVars
  BY <1>2
  DEF TurnOver, turnLocals, callFrame, ServerNext, CallNext, RegisterNext, StartDatabase,
      OpenConversation, CloseConversation, BuildAgent, UnknownTool, Dispatch, Approve, Decline,
      RefuseArguments, HandlerReturns, HandlerRaises, HandlerActs, AnswerArrives, AnswerLost,
      RecordAction, Returns
<1>3. ASSUME TakeTurn \/ RecordUserMessage \/ RecallMemories \/ Interrupt \/ StreamText
               \/ StubReplies \/ NextRound \/ RoundsExhausted
      PROVE  UNCHANGED streamVars
  BY <1>3
  DEF turnLocals, TakeTurn, RecordUserMessage, RecallMemories, Interrupt, StreamText,
      StubReplies, NextRound, RoundsExhausted
<1> QED
  BY <1>1, <1>2, <1>3 DEF Next, SessionNext, TurnNext, TurnOver

\* Who streams keeps meant, sent and partial to himself.
LEMMA StreamStep ==
    ASSUME TypeInv, Next
    PROVE  StreamInv'
<1> USE DEF StreamInv
<1>0. StreamInv
  BY DEF TypeInv
<1>1. CASE meant' = << >> /\ sent' = << >> /\ DOMAIN partial' = {}
  BY <1>1
<1>2. ASSUME NEW batch \in Batches, OpenStream(batch)
      PROVE  StreamInv'
  <2>1. PICK k \in Nat : batch \in [1..k -> Meant]
    BY BoundsAssumption DEF Batches
  <2>2. batch \in Seq(Meant)
    BY <2>1
  <2>3. DOMAIN partial' = {}
    BY <1>2 DEF OpenStream
  <2>4. sent' = [i \in DOMAIN batch |-> [pieces |-> 0, missing |-> FALSE]] /\ meant' = batch
    BY <1>2 DEF OpenStream
  <2> QED
    BY <2>2, <2>3, <2>4
<1>3. ASSUME NEW i \in DOMAIN meant, Fragment(i)
      PROVE  StreamInv'
  <2>1. meant' = meant /\ sent[i] \in [pieces : Nat, missing : BOOLEAN]
    BY <1>0, <1>3 DEF Fragment
  <2>2. DOMAIN partial' \subseteq DOMAIN partial \cup {i}
    BY <1>3 DEF Fragment, Accumulate, WithSlot
  <2>3. sent' \in [DOMAIN meant -> [pieces : Nat, missing : BOOLEAN]]
    <3>1. sent \in [DOMAIN meant -> [pieces : Nat, missing : BOOLEAN]]
      BY <1>0
    <3>2. CASE sent' = [sent EXCEPT ![i].pieces = @ + 1]
      <4>1. [sent[i] EXCEPT !.pieces = @ + 1] \in [pieces : Nat, missing : BOOLEAN]
        BY <2>1
      <4>2. sent' = [sent EXCEPT ![i] = [sent[i] EXCEPT !.pieces = @ + 1]]
        BY <3>1, <3>2
      <4> QED
        BY <3>1, <4>1, <4>2
    <3>3. CASE sent' = [sent EXCEPT ![i] = [pieces |-> @.pieces + 1, missing |-> TRUE]]
      <4>1. [pieces |-> sent[i].pieces + 1, missing |-> TRUE] \in [pieces : Nat, missing : BOOLEAN]
        BY <2>1
      <4>2. sent' = [sent EXCEPT ![i] = [pieces |-> sent[i].pieces + 1, missing |-> TRUE]]
        BY <3>1, <3>3
      <4> QED
        BY <3>1, <4>1, <4>2
    <3> QED
      BY <1>3, <3>2, <3>3 DEF Fragment
  <2> QED
    BY <1>0, <2>1, <2>2, <2>3
<1>4. CASE UNCHANGED streamVars
  BY <1>0, <1>4 DEF streamVars
<1> QED
  BY <1>1, <1>2, <1>3, <1>4, StreamChanges

\* The position of the session and the state of its turn.
LEMMA TurnStep ==
    ASSUME TypeInv, Next
    PROVE  TurnInv'
<1> USE DEF TurnInv, Positions, AtHand
<1>0. TurnInv
  BY DEF TypeInv
<1>1. CASE TurnOver
  BY <1>0, <1>1, TurnOverClears, BoundsAssumption
<1>2. CASE ServerNext \/ OpenConversation \/ CloseConversation
             \/ (\E found \in SUBSET Provisions : BuildAgent(found))
  BY <1>0, <1>2
  DEF ServerNext, RegisterNext, StartDatabase, OpenConversation, CloseConversation, BuildAgent,
      Session, sessionVars, turnVars
<1>9. CASE TakeTurn
  <2>1. turn' = turn + 1 /\ turn < MaxTurns /\ MaxTurns \in Nat /\ turn \in 0..MaxTurns
    BY <1>0, <1>9, BoundsAssumption DEF TakeTurn
  <2>2. turn' \in 0..MaxTurns
    BY <2>1
  <2> QED
    BY <1>0, <1>9, <2>2 DEF TakeTurn, Session, turnVars, turnLocals
<1>3. CASE RecordUserMessage \/ RecallMemories \/ Interrupt \/ StreamText
  BY <1>0, <1>3
  DEF RecordUserMessage, RecallMemories, Interrupt, StreamText, Session,
      sessionVars, turnVars, turnLocals
<1>4. CASE StreamEnds \/ StubReplies
  BY <1>0, <1>4 DEF StreamEnds, StubReplies, Announce, turnVars
<1>5. CASE NextRound \/ RoundsExhausted
  BY <1>0, <1>5, BoundsAssumption DEF NextRound, RoundsExhausted, Session, turnVars
<1>6. ASSUME NEW batch, OpenStream(batch)
      PROVE  TurnInv'
  BY <1>0, <1>6 DEF OpenStream, Session, turnVars
<1>7. ASSUME NEW i, Fragment(i)
      PROVE  TurnInv'
  BY <1>0, <1>7 DEF Fragment, Session, turnVars
<1>8. ASSUME CallNext
      PROVE  TurnOver \/ TurnInv'
  BY <1>0, <1>8
  DEF TurnOver, CallNext, UnknownTool, Dispatch, Approve, Decline, RefuseArguments,
      HandlerReturns, HandlerRaises, HandlerActs, AnswerArrives, AnswerLost, RecordAction,
      Respond, Returns, Session, callFrame, turnVars
<1> QED
  BY <1>1, <1>2, <1>3, <1>4, <1>5, <1>6, <1>7, <1>8, <1>9
  DEF Next, SessionNext, TurnNext, TurnOver

\* The server starts once, and what a session has recorded it has recorded after.
LEMMA ServerStep ==
    ASSUME TypeInv, Next
    PROVE  ServerInv'
<1> USE DEF ServerInv
<1>0. ServerInv
  BY DEF TypeInv
<1>f. Fault \/ NoFault => faults' \in 0..MaxFaults
  <2>1. faults \in 0..MaxFaults /\ MaxFaults \in Nat
    BY <1>0, BoundsAssumption
  <2> QED
    BY <2>1 DEF Fault, NoFault
<1>1. CASE RegisterNext \/ StartDatabase
  BY <1>0, <1>1 DEF RegisterNext, StartDatabase, sessionVars, storeVars
<1>2. ASSUME /\ UNCHANGED <<serverVars, provided, provider, conversation>>
             /\ server = "starting" => FALSE
             /\ Fault \/ NoFault
      PROVE  ServerInv'
  BY <1>0, <1>f, <1>2 DEF serverVars
<1>3. CASE OpenConversation \/ CloseConversation
             \/ \E found \in SUBSET Provisions : BuildAgent(found)
  BY <1>0, <1>f, <1>3
  DEF OpenConversation, CloseConversation, BuildAgent, Session, serverVars, NoFault, Fault
<1>4. CASE TurnOver
  BY <1>0, <1>2, <1>4
  DEF TurnOver, SocketGone, StreamCancelled, TurnRaises, CancelAtGate, EndTurn, AbandonTurn,
      Record, Session, NoFault, serverVars, sessionVars, sessionFrame
<1>5. CASE \/ TakeTurn \/ RecordUserMessage \/ RecallMemories \/ Interrupt \/ StreamText
           \/ NextRound \/ RoundsExhausted
  BY <1>0, <1>2, <1>5
  DEF TakeTurn, RecordUserMessage, RecallMemories, Interrupt, StreamText, NextRound,
      RoundsExhausted, Record, Session, NoFault, serverVars, sessionVars, sessionFrame
<1>6. CASE \/ StreamEnds \/ StubReplies
           \/ \E batch \in Batches : OpenStream(batch)
           \/ \E i \in DOMAIN meant : Fragment(i)
  BY <1>0, <1>2, <1>6
  DEF StreamEnds, StubReplies, OpenStream, Fragment, Session, NoFault, sessionFrame
<1>7. ASSUME CallNext
      PROVE  TurnOver \/ ServerInv'
  BY <1>0, <1>2, <1>7
  DEF TurnOver, CallNext, UnknownTool, Dispatch, Approve, Decline, RefuseArguments,
      HandlerReturns, HandlerRaises, HandlerActs, AnswerArrives, AnswerLost, RecordAction,
      Returns, Session, NoFault, callFrame, sessionFrame
<1> QED
  BY <1>1, <1>3, <1>4, <1>5, <1>6, <1>7 DEF Next, ServerNext, SessionNext, TurnNext, TurnOver

\* A function on 1..n is a sequence.
LEMMA FunctionIsSeq ==
    ASSUME NEW n \in Nat, NEW f, DOMAIN f = 1..n, f = [k \in DOMAIN f |-> f[k]]
    PROVE  IsSeq(f) /\ Len(f) = n
<1> DEFINE S == {f[k] : k \in 1..n}
<1>1. f \in [1..n -> S]
  OBVIOUS
<1>2. f \in Seq(S) /\ Len(f) = n
  BY <1>1
<1> QED
  BY <1>2 DEF IsSeq

\* The call being dispatched and the ones after it.
LEMMA CallAtHand ==
    ASSUME CallInv, calls # <<>>
    PROVE  /\ Len(calls) \in Nat \ {0} /\ DOMAIN calls = 1..Len(calls)
           /\ Current = calls[1] /\ Current.n \in 1..count /\ Current.n \in Nat
           /\ IsSeq(Tail(calls)) /\ Len(Tail(calls)) = Len(calls) - 1
           /\ DOMAIN Tail(calls) = 1..Len(calls) - 1
           /\ \A k \in DOMAIN Tail(calls) :
                k + 1 \in DOMAIN calls /\ Tail(calls)[k] = calls[k + 1]
<1>1. PICK S : calls \in Seq(S)
  BY DEF CallInv, IsSeq
<1>2. /\ Len(calls) \in Nat \ {0} /\ DOMAIN calls = 1..Len(calls)
      /\ Head(calls) = calls[1]
      /\ Tail(calls) \in Seq(S) /\ Len(Tail(calls)) = Len(calls) - 1
      /\ \A k \in 1..Len(calls) - 1 : Tail(calls)[k] = calls[k + 1]
  BY <1>1
<1>3. DOMAIN Tail(calls) = 1..Len(calls) - 1
  BY <1>2
<1>4. calls[1].n \in 1..count /\ count \in Nat
  BY <1>2 DEF CallInv
<1> QED
  BY <1>2, <1>3, <1>4 DEF Current, IsSeq

\* The calls assembled are numbered on.
LEMMA FinaliseNumbers ==
    ASSUME TypeInv, NEW args
    PROVE  /\ IsSeq(Finalise(args)) /\ Len(Finalise(args)) \in Nat
           /\ DOMAIN Finalise(args) = 1..Len(Finalise(args))
           /\ \A k \in DOMAIN Finalise(args) : Finalise(args)[k].n = count + k
<1> DEFINE named == {i \in DOMAIN partial : partial[i].named}
<1>1. named \subseteq 1..Len(meant) /\ Len(meant) \in Nat
  BY DEF TypeInv, StreamInv
<1>2. IsFiniteSet(1..Len(meant))
  BY <1>1, FS_Interval
<1>3. Cardinality(named) \in Nat
  BY <1>1, <1>2, FS_Subset, FS_CardinalityType
<1>4. DOMAIN Finalise(args) = 1..Cardinality(named) /\ Finalise(args) = [k \in DOMAIN Finalise(args) |-> Finalise(args)[k]]
  BY DEF Finalise
<1>5. \A k \in DOMAIN Finalise(args) : Finalise(args)[k].n = count + k
  BY DEF Finalise
<1>6. IsSeq(Finalise(args)) /\ Len(Finalise(args)) = Cardinality(named)
  BY <1>3, <1>4, FunctionIsSeq
<1> QED
  BY <1>3, <1>4, <1>5, <1>6

\* The calls of a reply are taken over with new numbers.
LEMMA AnnounceCalls ==
    ASSUME CallInv, NEW batch, Announce(batch), IsSeq(batch), Len(batch) \in Nat,
           DOMAIN batch = 1..Len(batch), \A k \in DOMAIN batch : batch[k].n = count + k,
           memory' = memory, acted' = acted, approved' = approved, lost' = lost
    PROVE  CallInv'
<1>1. count \in Nat /\ count' = count + Len(batch) /\ calls' = batch
  BY DEF CallInv, Announce
<1>2. 1..count \subseteq 1..count'
  BY <1>1
<1>3. \A k \in DOMAIN calls' : calls'[k].n \in 1..count'
  BY <1>1
<1>4. pc' \notin AtHand
  BY DEF Announce, AtHand
<1> QED
  BY <1>1, <1>2, <1>3, <1>4 DEF CallInv

\* A call that has its result leaves the others to be dispatched.
LEMMA RespondCalls ==
    ASSUME CallInv, calls # <<>>, NEW outcome, Respond(outcome),
           count' = count, memory' = memory, acted' = acted, approved' = approved,
           lost' \subseteq 1..count
    PROVE  CallInv'
<1>1. calls' = Tail(calls) /\ pc' \notin AtHand
  BY DEF Respond, AtHand
<1>2. IsSeq(calls') /\ \A k \in DOMAIN calls' : calls'[k].n \in 1..count
  BY <1>1, CallAtHand DEF CallInv
<1> QED
  BY <1>1, <1>2 DEF CallInv

LEMMA CallStep ==
    ASSUME TypeInv, Next
    PROVE  CallInv'
<1>0. CallInv /\ ServerInv
  BY DEF TypeInv
<1>h. pc \in AtHand => /\ calls # <<>> /\ Current.name \in DOMAIN names
                       /\ Current.n \in 1..count
  BY <1>0, CallAtHand DEF CallInv
<1>1. ASSUME UNCHANGED <<calls, count, memory, acted>>,
             approved' \subseteq 1..count, lost' \subseteq 1..count,
             pc' \in AtHand => calls # <<>> /\ Current.name \in DOMAIN names',
             Current' = Current
      PROVE  CallInv'
  BY <1>0, <1>1 DEF CallInv
<1>2. CASE TurnOver
  <2>1. calls' = <<>> /\ DOMAIN calls' = {}
    BY <1>2, TurnOverClears
  <2>2. IsSeq(calls') /\ pc' \notin AtHand
    BY <1>2, <2>1, TurnOverClears DEF IsSeq, AtHand
  <2> QED
    BY <1>0, <1>2, <2>1, <2>2, TurnOverClears DEF CallInv
<1>3. CASE ServerNext \/ OpenConversation \/ CloseConversation
             \/ (\E found \in SUBSET Provisions : BuildAgent(found))
  <2>1. UNCHANGED <<calls, count, memory, acted, approved, lost>>
    BY <1>3
    DEF ServerNext, RegisterNext, StartDatabase, OpenConversation, CloseConversation, BuildAgent,
        storeVars, history
  <2>2. pc' \notin AtHand
    <3>1. server = "starting" => pc = "none"
      BY <1>0 DEF ServerInv
    <3> QED
      BY <1>3, <3>1
      DEF ServerNext, RegisterNext, StartDatabase, OpenConversation, CloseConversation,
          BuildAgent, Session, AtHand, sessionVars
  <2> QED
    BY <1>0, <2>1, <2>2 DEF CallInv
<1>4. CASE \/ TakeTurn \/ RecordUserMessage \/ RecallMemories \/ StreamText
           \/ NextRound \/ RoundsExhausted
           \/ \E batch \in Batches : OpenStream(batch)
           \/ \E i \in DOMAIN meant : Fragment(i)
  <2>1. UNCHANGED <<calls, count, memory, acted, approved, lost>>
    BY <1>4
    DEF TakeTurn, RecordUserMessage, RecallMemories, StreamText, NextRound, RoundsExhausted,
        OpenStream, Fragment, turnLocals, storeVars, history
  <2>2. pc' \notin AtHand
    BY <1>4
    DEF TakeTurn, RecordUserMessage, RecallMemories, StreamText, NextRound, RoundsExhausted,
        OpenStream, Fragment, Session, AtHand
  <2> QED
    BY <1>0, <2>1, <2>2 DEF CallInv
<1>5. CASE Interrupt
  <2>1. UNCHANGED <<pc, calls, names, count, memory, acted, approved, lost>>
    BY <1>5 DEF Interrupt, serverVars, storeVars, history
  <2> QED
    BY <1>0, <2>1 DEF CallInv, Current
<1>6. CASE StreamEnds
  <2>1. PICK args \in Readings : Announce(Finalise(args))
    BY <1>6 DEF StreamEnds
  <2> QED
    BY <1>0, <1>6, <2>1, FinaliseNumbers, AnnounceCalls DEF StreamEnds, storeVars, history
<1>7. CASE StubReplies
  <2>1. UNCHANGED <<memory, acted, approved, lost>>
    BY <1>7 DEF StubReplies, storeVars, history
  <2>2. CASE Announce(<<>>)
    <3>1. IsSeq(<<>>) /\ Len(<<>>) = 0 /\ DOMAIN <<>> = 1..0
      BY DEF IsSeq
    <3> QED
      BY <1>0, <2>1, <2>2, <3>1, AnnounceCalls
  <2>3. ASSUME NEW name \in StubTools, Announce(<< StubCall(name) >>)
        PROVE  CallInv'
    <3>1. StubCall(name).n = count + 1
      BY DEF StubCall
    <3>2. IsSeq(<< StubCall(name) >>) /\ Len(<< StubCall(name) >>) = 1
      <4>1. << StubCall(name) >> \in Seq({StubCall(name)})
        OBVIOUS
      <4> QED
        BY <4>1 DEF IsSeq
    <3> QED
      BY <1>0, <2>1, <2>3, <3>1, <3>2, AnnounceCalls
  <2> QED
    BY <1>7, <2>2, <2>3 DEF StubReplies
<1>8. CASE UnknownTool \/ Decline \/ RefuseArguments \/ HandlerRaises \/ AnswerLost
             \/ RecordAction
  <2>1. calls # <<>>
    BY <1>h, <1>8
    DEF UnknownTool, Decline, RefuseArguments, HandlerRaises, AnswerLost, RecordAction, AtHand
  <2>2. Current.n \in 1..count
    BY <1>0, <2>1, CallAtHand
  <2>3. \E outcome : Respond(outcome)
    BY <1>8
    DEF UnknownTool, Decline, RefuseArguments, HandlerRaises, AnswerLost, RecordAction
  <2>4. /\ UNCHANGED <<count, memory, acted, approved>>
        /\ lost' \in {lost, lost \cup {Current.n}}
    BY <1>8
    DEF UnknownTool, Decline, RefuseArguments, HandlerRaises, AnswerLost, RecordAction,
        callFrame, storeVars, history
  <2> QED
    BY <1>0, <2>1, <2>2, <2>3, <2>4, RespondCalls DEF CallInv
<1>9. CASE Dispatch \/ Approve \/ HandlerReturns \/ AnswerArrives
  <2>1. /\ UNCHANGED <<calls, names, count, memory, acted, lost>>
        /\ approved' \in {approved, approved \cup {Current.n}}
    BY <1>9
    DEF Dispatch, Approve, HandlerReturns, AnswerArrives, Returns, callFrame, sessionFrame,
        serverVars, storeVars, history
  <2>2. calls # <<>> /\ Current.name \in DOMAIN names
    BY <1>h, <1>9 DEF Dispatch, Approve, HandlerReturns, AnswerArrives, Session, AtHand
  <2>3. Current.n \in 1..count
    BY <1>0, <2>2, CallAtHand
  <2> QED
    BY <1>0, <2>1, <2>2, <2>3 DEF CallInv, Current
<1>10. CASE HandlerActs
  <2>1. /\ UNCHANGED <<calls, names, count, lost, approved>>
        /\ acted' = acted \cup {Current.n}
        /\ memory' \in {memory, memory \cup {Current.n}}
    BY <1>10 DEF HandlerActs, callFrame, sessionFrame, serverVars
  <2>2. pc = "running"
    BY <1>10 DEF HandlerActs, Session
  <2> QED
    BY <1>0, <1>h, <2>1, <2>2 DEF CallInv, Current, AtHand
<1> QED
  BY <1>2, <1>3, <1>4, <1>5, <1>6, <1>7, <1>8, <1>9, <1>10
  DEF Next, SessionNext, TurnNext, CallNext, TurnOver

----------------------------------------------------------------------------

\* What is put into the transcript.
LEMMA MessageTypes ==
    /\ \A facts \in SUBSET Nat : System(facts) \in Messages
    /\ \A k \in Nat : User(k) \in Messages
    /\ \A batch \in Seq(Nat) : Assistant(batch) \in Messages
    /\ \A n \in Nat, outcome \in Outcomes : Result(n, outcome) \in Messages
BY DEF System, User, Assistant, Result, Messages

LEMMA NumbersType ==
    ASSUME NEW batch, Len(batch) \in Nat, DOMAIN batch = 1..Len(batch),
           \A k \in DOMAIN batch : batch[k].n \in Nat
    PROVE  Numbers(batch) \in Seq(Nat) /\ Len(Numbers(batch)) = Len(batch)
<1>1. Numbers(batch) \in [1..Len(batch) -> Nat]
  BY DEF Numbers
<1> QED
  BY <1>1

\* A recorded message.
LEMMA RecordType ==
    ASSUME rows \in [messages : Seq(Stored), actions : SUBSET Nat],
           NEW message \in Stored, Record(message)
    PROVE  /\ rows' \in [messages : Seq(Stored), actions : SUBSET Nat]
           /\ rows'.actions = rows.actions
           /\ rows'.messages \in {rows.messages, Append(rows.messages, message)}
BY DEF Record

LEMMA MessageStep ==
    ASSUME TypeInv, Next
    PROVE  MessageInv'
<1>0. MessageInv /\ CallInv /\ TurnInv /\ StreamInv
  BY DEF TypeInv
<1>h. pc \in AtHand => calls # <<>> /\ Current.n \in Nat
  BY <1>0, CallAtHand DEF CallInv
<1>1. CASE TurnOver
  <2>1. messages' \in Seq(Messages)
    BY <1>1, TurnOverClears
  <2>2. CASE EndTurn
    <3>1. Reply \in Stored
      BY <1>0, BoundsAssumption DEF Reply, Stored, TurnInv
    <3> QED
      BY <1>0, <2>1, <2>2, <3>1, RecordType DEF EndTurn, MessageInv
  <2>3. CASE ~EndTurn
    <3>1. rows' = rows
      BY <1>1, <2>3
      DEF TurnOver, SocketGone, StreamCancelled, TurnRaises, CancelAtGate, AbandonTurn, storeVars
    <3> QED
      BY <1>0, <2>1, <3>1 DEF MessageInv
  <2> QED
    BY <2>2, <2>3
<1>2. CASE ServerNext \/ OpenConversation \/ CloseConversation
             \/ (\E found \in SUBSET Provisions : BuildAgent(found))
  <2>1. UNCHANGED <<messages, rows>>
    BY <1>2
    DEF ServerNext, RegisterNext, StartDatabase, OpenConversation, CloseConversation, BuildAgent,
        storeVars
  <2> QED
    BY <1>0, <2>1 DEF MessageInv
<1>3. CASE \/ TakeTurn \/ Interrupt \/ StreamText \/ NextRound \/ RoundsExhausted
           \/ \E batch \in Batches : OpenStream(batch)
           \/ \E i \in DOMAIN meant : Fragment(i)
  <2>1. UNCHANGED <<messages, rows>>
    BY <1>3
    DEF TakeTurn, Interrupt, StreamText, NextRound, RoundsExhausted, OpenStream, Fragment,
        turnLocals, storeVars
  <2> QED
    BY <1>0, <2>1 DEF MessageInv
<1>4. CASE RecordUserMessage
  <2>1. [turn |-> turn, role |-> "user", empty |-> FALSE] \in Stored
    BY <1>0, BoundsAssumption DEF Stored, TurnInv
  <2> QED
    BY <1>0, <1>4, <2>1, RecordType DEF RecordUserMessage, MessageInv
<1>5. CASE RecallMemories
  <2>1. PICK facts \in SUBSET memory : messages' = << System(facts), User(turn) >>
    BY <1>5 DEF RecallMemories
  <2>2. memory \subseteq Nat /\ turn \in Nat
    BY <1>0, BoundsAssumption DEF CallInv, TurnInv
  <2>3. System(facts) \in Messages /\ User(turn) \in Messages
    BY <2>2, MessageTypes
  <2> QED
    BY <1>0, <1>5, <2>1, <2>3 DEF RecallMemories, MessageInv, storeVars
<1>6. ASSUME NEW batch, Announce(batch), Len(batch) \in Nat, DOMAIN batch = 1..Len(batch),
             \A k \in DOMAIN batch : batch[k].n = count + k, rows' = rows
      PROVE  MessageInv'
  <2>1. Assistant(Numbers(batch)) \in Messages
    BY <1>0, <1>6, NumbersType, MessageTypes DEF CallInv
  <2> QED
    BY <1>0, <1>6, <2>1 DEF Announce, MessageInv
<1>7. CASE StreamEnds
  <2>1. PICK args \in Readings : Announce(Finalise(args))
    BY <1>7 DEF StreamEnds
  <2> QED
    BY <1>6, <1>7, <2>1, FinaliseNumbers DEF StreamEnds, storeVars
<1>8. CASE StubReplies
  <2>1. rows' = rows
    BY <1>8 DEF StubReplies, storeVars
  <2>2. CASE Announce(<<>>)
    BY <1>6, <2>1, <2>2
  <2>3. ASSUME NEW name \in StubTools, Announce(<< StubCall(name) >>)
        PROVE  MessageInv'
    <3>1. StubCall(name).n = count + 1
      BY DEF StubCall
    <3> QED
      BY <1>6, <2>1, <2>3, <3>1
  <2> QED
    BY <1>8, <2>2, <2>3 DEF StubReplies
<1>9. CASE UnknownTool \/ Decline \/ RefuseArguments \/ HandlerRaises \/ AnswerLost
             \/ RecordAction
  <2>1. calls # <<>>
    BY <1>h, <1>9
    DEF UnknownTool, Decline, RefuseArguments, HandlerRaises, AnswerLost, RecordAction, AtHand
  <2>2. Current.n \in Nat
    BY <1>0, <2>1, CallAtHand
  <2>3. PICK outcome \in Outcomes : Respond(outcome)
    BY <1>9
    DEF UnknownTool, Decline, RefuseArguments, HandlerRaises, AnswerLost, RecordAction, Outcomes
  <2>4. messages' \in Seq(Messages)
    BY <1>0, <2>2, <2>3, MessageTypes DEF Respond, MessageInv
  <2>5. rows' \in {rows, [rows EXCEPT !.actions = rows.actions \cup {Current.n}]}
    BY <1>9
    DEF UnknownTool, Decline, RefuseArguments, HandlerRaises, AnswerLost, RecordAction, storeVars
  <2>6. rows' \in [messages : Seq(Stored), actions : SUBSET Nat]
    BY <1>0, <2>2, <2>5 DEF MessageInv
  <2> QED
    BY <2>4, <2>6 DEF MessageInv
<1>10. CASE Dispatch \/ Approve \/ HandlerReturns \/ AnswerArrives \/ HandlerActs
  <2>1. UNCHANGED <<messages, rows>>
    BY <1>10
    DEF Dispatch, Approve, HandlerReturns, AnswerArrives, HandlerActs, Returns, callFrame, storeVars
  <2> QED
    BY <1>0, <2>1 DEF MessageInv
<1> QED
  BY <1>1, <1>2, <1>3, <1>4, <1>5, <1>7, <1>8, <1>9, <1>10
  DEF Next, SessionNext, TurnNext, CallNext, TurnOver

LEMMA TypeInvHolds == Spec => []TypeInv
<1>1. Init => TypeInv
  <2> SUFFICES ASSUME Init
               PROVE  TypeInv
    OBVIOUS
  <2>0. 0 \in 0..MaxFaults /\ 0 \in 0..MaxTurns /\ 0 \in 0..MaxToolRounds
    BY BoundsAssumption
  <2>1. ServerInv
    BY <2>0 DEF Init, ServerInv
  <2>4. TurnInv
    BY <2>0 DEF Init, TurnInv, Positions, AtHand
  <2>2. StreamInv
    BY DEF Init, StreamInv
  <2>3. CallInv /\ MessageInv
    BY DEF Init, CallInv, MessageInv, AtHand, IsSeq, Stored
  <2> QED
    BY <2>1, <2>2, <2>3, <2>4 DEF TypeInv
<1>2. TypeInv /\ [Next]_vars => TypeInv'
  <2> SUFFICES ASSUME TypeInv, [Next]_vars
               PROVE  TypeInv'
    OBVIOUS
  <2>1. CASE Next
    BY <2>1, ServerStep, TurnStep, StreamStep, CallStep, MessageStep DEF TypeInv
  <2>2. CASE UNCHANGED vars
    BY <2>2
    DEF vars, serverVars, sessionVars, turnVars, streamVars, storeVars, history, TypeInv,
        ServerInv, TurnInv, StreamInv, CallInv, MessageInv, Current
  <2> QED
    BY <2>1, <2>2
<1> QED
  BY <1>1, <1>2, PTL DEF Spec

\* The types of the session, and that a call of an exposed name is at hand wherever one is
\* dispatched (AgentLoop._dispatch).
THEOREM TypeCorrect == Spec => []TypeOK
<1>1. TypeInv => TypeOK
  BY DEF TypeInv, ServerInv, TurnInv, StreamInv, CallInv, TypeOK, AtHand
<1> QED
  BY <1>1, TypeInvHolds, PTL

----------------------------------------------------------------------------
(* The actions and their log *)

\* The call under way at a position.
UnderWay(position) == IF pc = position THEN {Current.n} ELSE {}

\* ActionsAccounted, of a server that is up: one that is starting has no log, and the
\* pool is opened with it.
Accounted ==
    /\ acted \subseteq actionLog \cup lost \cup UnderWay("acted")
    /\ pool => actionLog \subseteq rows.actions \cup lost \cup UnderWay("logging")

\* A step away from the two positions that changes none of the sets.
LEMMA AccountedElsewhere ==
    ASSUME Accounted, pc \notin {"acted", "logging"},
           UNCHANGED <<acted, actionLog, lost, pool>>, rows'.actions = rows.actions
    PROVE  Accounted'
BY DEF Accounted, UnderWay

\* Every step but those of a handler and its log entry leaves the accounts alone.
LEMMA AccountedStep ==
    ASSUME TypeInv, Accounted, Next
    PROVE  Accounted'
<1>0. MessageInv /\ ServerInv
  BY DEF TypeInv
<1>1. CASE TurnOver
  <2>1. pc \notin {"acted", "logging"}
    BY <1>1
    DEF TurnOver, SocketGone, StreamCancelled, TurnRaises, CancelAtGate, EndTurn, Session
  <2>2. rows'.actions = rows.actions
    <3>1. Reply \in Stored
      BY BoundsAssumption DEF Reply, Stored, TypeInv, TurnInv
    <3> QED
      BY <1>0, <1>1, <3>1, RecordType
      DEF TurnOver, SocketGone, StreamCancelled, TurnRaises, CancelAtGate, EndTurn, AbandonTurn,
          storeVars, MessageInv
  <2> QED
    BY <1>1, <2>1, <2>2, TurnOverClears, AccountedElsewhere
<1>2. CASE StartDatabase
  <2>1. actionLog = {} /\ pc = "none"
    BY <1>0, <1>2 DEF StartDatabase, ServerInv
  <2> QED
    BY <1>2, <2>1 DEF StartDatabase, storeVars, history, Accounted, UnderWay
<1>3. CASE RegisterNext \/ OpenConversation \/ CloseConversation
             \/ (\E found \in SUBSET Provisions : BuildAgent(found))
  <2>1. UNCHANGED <<acted, actionLog, lost, pool, rows>>
    BY <1>3
    DEF RegisterNext, OpenConversation, CloseConversation, BuildAgent, storeVars, history,
        serverVars
  <2>2. pc \notin {"acted", "logging"}
    <3>1. server = "starting" => pc = "none"
      BY <1>0 DEF ServerInv
    <3> QED
      BY <1>3, <3>1 DEF RegisterNext, OpenConversation, CloseConversation, BuildAgent, Session
  <2> QED
    BY <2>1, <2>2, AccountedElsewhere
<1>4. CASE RecordUserMessage
  <2>1. [turn |-> turn, role |-> "user", empty |-> FALSE] \in Stored
    BY BoundsAssumption DEF Stored, TypeInv, TurnInv
  <2>2. rows'.actions = rows.actions
    BY <1>0, <1>4, <2>1, RecordType DEF RecordUserMessage, MessageInv
  <2> QED
    BY <1>4, <2>2, AccountedElsewhere
    DEF RecordUserMessage, Session, history, sessionFrame, serverVars
<1>5. CASE \/ TakeTurn \/ RecallMemories \/ StreamText \/ StreamEnds \/ StubReplies
           \/ NextRound \/ RoundsExhausted \/ UnknownTool \/ Dispatch \/ Approve \/ Decline
           \/ RefuseArguments \/ HandlerRaises
           \/ \E batch \in Batches : OpenStream(batch)
           \/ \E i \in DOMAIN meant : Fragment(i)
  <2>1. UNCHANGED <<acted, actionLog, lost, pool, rows>>
    BY <1>5
    DEF TakeTurn, RecallMemories, StreamText, StreamEnds, StubReplies, NextRound,
        RoundsExhausted, UnknownTool, Dispatch, Approve, Decline, RefuseArguments, HandlerRaises,
        OpenStream, Fragment, storeVars, history, callFrame, sessionFrame, serverVars
  <2>2. pc \notin {"acted", "logging"}
    BY <1>5
    DEF TakeTurn, RecallMemories, StreamText, StreamEnds, StubReplies, NextRound,
        RoundsExhausted, UnknownTool, Dispatch, Approve, Decline, RefuseArguments, HandlerRaises,
        OpenStream, Fragment, Session
  <2> QED
    BY <2>1, <2>2, AccountedElsewhere
<1>6. CASE Interrupt
  BY <1>6 DEF Interrupt, serverVars, storeVars, history, Accounted, UnderWay, Current
<1>7. CASE HandlerReturns \/ AnswerArrives
  BY <1>7
  DEF HandlerReturns, AnswerArrives, Returns, Accounted, UnderWay, Current, callFrame,
      sessionFrame, serverVars, history
<1>8. CASE HandlerActs
  BY <1>8 DEF HandlerActs, Session, Accounted, UnderWay, Current, callFrame, sessionFrame, serverVars
<1>9. CASE AnswerLost
  BY <1>9
  DEF AnswerLost, Respond, Accounted, UnderWay, callFrame, sessionFrame, serverVars, storeVars
<1>10. CASE RecordAction
  <2>1. /\ UNCHANGED <<acted, actionLog, pool>> /\ pc = "logging" /\ pc' = "dispatching"
        /\ lost \subseteq lost'
    BY <1>10 DEF RecordAction, Respond, callFrame, sessionFrame, serverVars
  <2>2. pool => \/ lost' = lost \cup {Current.n} /\ rows' = rows
                \/ lost' = lost /\ rows'.actions = rows.actions \cup {Current.n}
    BY <1>0, <1>10 DEF RecordAction, MessageInv
  <2> QED
    BY <2>1, <2>2 DEF Accounted, UnderWay
<1> QED
  BY <1>1, <1>2, <1>3, <1>4, <1>5, <1>6, <1>7, <1>8, <1>9, <1>10
  DEF Next, ServerNext, SessionNext, TurnNext, CallNext, TurnOver

\* What has been done outside or stored is in the action log, unless its call is still
\* under way or an answer or a log entry was lost in a failure (AgentLoop._dispatch).
THEOREM ActionsAreAccounted == Spec => []ActionsAccounted
<1>1. Init => Accounted
  BY DEF Init, Accounted
<1>2. TypeInv /\ Accounted /\ [Next]_vars => Accounted'
  <2>1. TypeInv /\ Accounted /\ UNCHANGED vars => Accounted'
    BY DEF vars, serverVars, storeVars, history, Accounted, UnderWay, Current
  <2> QED
    BY <2>1, AccountedStep
<1>3. Accounted => ActionsAccounted
  BY DEF Accounted, ActionsAccounted, UnderWay
<1> QED
  BY <1>1, <1>2, <1>3, TypeInvHolds, PTL DEF Spec

----------------------------------------------------------------------------
(* The stored messages *)

InTurn == {"recalling", "requesting", "streaming", "dispatching", "done"} \cup AtHand

Before(m, n) ==
    \/ m.turn < n.turn
    \/ m.turn = n.turn /\ m.role = "user" /\ n.role = "edith"

\* The strengthening: nothing stored is of a later turn, or of the turn that is being
\* prepared, and of the turn under way at most the message of the user is.
Telling ==
    LET stored == rows.messages
    IN  /\ \A j, k \in DOMAIN stored : j < k => Before(stored[j], stored[k])
        /\ \A k \in DOMAIN stored :
             /\ ~stored[k].empty
             /\ stored[k].turn <= turn
             /\ pc = "preparing" => stored[k].turn < turn
             /\ pc \in InTurn /\ stored[k].turn = turn => stored[k].role = "user"
        /\ conversation = "none" => stored = <<>>
        /\ pool /\ pc \notin {"none", "closed"} => conversation # "none"

\* A step that stores nothing and stays in the turn, or leaves it.
LEMMA TellingElsewhere ==
    ASSUME Telling, rows'.messages = rows.messages, turn' = turn,
           UNCHANGED <<pool, conversation>>,
           pc' = pc \/ pc' \notin {"none", "closed", "preparing"},
           pc' \in InTurn => pc \in InTurn,
           pc \notin {"none", "closed"}
    PROVE  Telling'
BY DEF Telling

\* A message that comes after all of the stored ones.
LEMMA TellingAppends ==
    ASSUME Telling, rows.messages \in Seq(Stored), NEW message \in Stored,
           rows'.messages = Append(rows.messages, message),
           \A k \in DOMAIN rows.messages : Before(rows.messages[k], message),
           ~message.empty, message.turn = turn, turn' = turn,
           pool, UNCHANGED <<pool, conversation>>,
           pc \notin {"none", "closed"}, pc' \notin {"none", "closed", "preparing"},
           pc' \in InTurn => message.role = "user"
    PROVE  Telling'
<1> DEFINE stored == rows.messages
           n == Len(stored)
<1>1. /\ n \in Nat /\ DOMAIN stored = 1..n /\ DOMAIN stored' = 1..(n + 1)
      /\ \A k \in 1..n : stored'[k] = stored[k]
      /\ stored'[n + 1] = message
  OBVIOUS
<1>2. \A j, k \in DOMAIN stored' : j < k => Before(stored'[j], stored'[k])
  <2> SUFFICES ASSUME NEW j \in 1..(n + 1), NEW k \in 1..(n + 1), j < k
               PROVE  Before(stored'[j], stored'[k])
    BY <1>1
  <2>1. j \in 1..n /\ stored'[j] = stored[j]
    BY <1>1
  <2>2. CASE k \in 1..n
    BY <1>1, <2>1, <2>2 DEF Telling
  <2>3. CASE k = n + 1
    BY <1>1, <2>1, <2>3
  <2> QED
    BY <1>1, <2>2, <2>3
<1>3. ASSUME NEW k \in DOMAIN stored'
      PROVE  /\ ~stored'[k].empty /\ stored'[k].turn <= turn
             /\ pc' \in InTurn /\ stored'[k].turn = turn => stored'[k].role = "user"
  <2>1. CASE k \in 1..n
    <3>1. stored'[k] = stored[k] /\ Before(stored[k], message) /\ stored[k] \in Stored
      BY <1>1, <2>1
    <3> QED
      BY <1>1, <2>1, <3>1 DEF Telling, Before, Stored
  <2>2. CASE k = n + 1
    BY <1>1, <2>2 DEF Stored
  <2> QED
    BY <1>1, <2>1, <2>2
<1>4. conversation # "none"
  BY DEF Telling
<1> HIDE DEF stored, n
<1>5. /\ \A j, k \in DOMAIN rows'.messages :
           j < k => Before(rows'.messages[j], rows'.messages[k])
      /\ \A k \in DOMAIN rows'.messages :
           /\ ~rows'.messages[k].empty /\ rows'.messages[k].turn <= turn
           /\ pc' \in InTurn /\ rows'.messages[k].turn = turn => rows'.messages[k].role = "user"
  BY <1>2, <1>3 DEF stored
<1> QED
  BY <1>4, <1>5 DEF Telling, Before

LEMMA TellingStep ==
    ASSUME TypeInv, Telling, Next
    PROVE  Telling'
<1>0. MessageInv /\ ServerInv /\ TurnInv /\ turn \in Nat
  BY BoundsAssumption DEF TypeInv, TurnInv
<1>r. rows.messages \in Seq(Stored)
  BY <1>0 DEF MessageInv
<1>1. CASE EndTurn
  <2>1. /\ pc = "done" /\ pc' = "waiting" /\ turn' = turn
        /\ UNCHANGED <<pool, conversation>>
    BY <1>1 DEF EndTurn, Session, sessionFrame, serverVars
  <2>2. Reply \in Stored
    BY <1>0 DEF Reply, Stored, TurnInv
  <2>3. CASE rows'.messages = rows.messages
    BY <2>1, <2>3, TellingElsewhere DEF InTurn, AtHand
  <2>4. CASE said /\ pool /\ rows'.messages = Append(rows.messages, Reply)
    <3>1. \A k \in DOMAIN rows.messages : Before(rows.messages[k], Reply)
      <4> SUFFICES ASSUME NEW k \in DOMAIN rows.messages
                   PROVE  Before(rows.messages[k], Reply)
        OBVIOUS
      <4>1. rows.messages[k] \in Stored
        BY <1>r
      <4>2. /\ rows.messages[k].turn <= turn
            /\ rows.messages[k].turn = turn => rows.messages[k].role = "user"
        BY <2>1 DEF Telling, InTurn
      <4> QED
        BY <1>0, <4>1, <4>2 DEF Before, Reply, Stored
    <3>2. ~Reply.empty /\ Reply.turn = turn
      BY <2>4 DEF Reply
    <3>3. pc' \notin InTurn
      BY <2>1 DEF InTurn, AtHand
    <3> QED
      BY <1>r, <2>1, <2>2, <2>4, <3>1, <3>2, <3>3, TellingAppends
  <2> QED
    BY <1>0, <1>1, <2>2, <2>3, <2>4, RecordType DEF EndTurn, Record, MessageInv
<1>2. CASE RecordUserMessage
  <2> DEFINE message == [turn |-> turn, role |-> "user", empty |-> FALSE]
  <2>1. /\ pc = "preparing" /\ pc' = "recalling" /\ turn' = turn
        /\ UNCHANGED <<pool, conversation>>
    BY <1>2 DEF RecordUserMessage, Session, sessionFrame, serverVars
  <2>2. message \in Stored
    BY <1>0 DEF Stored
  <2>3. \A k \in DOMAIN rows.messages : rows.messages[k].turn < turn /\ rows.messages[k] \in Stored
    BY <1>r, <2>1 DEF Telling
  <2>4. CASE rows'.messages = rows.messages
    BY <1>0, <2>1, <2>3, <2>4 DEF Telling, Stored, InTurn, AtHand
  <2>5. CASE pool /\ rows'.messages = Append(rows.messages, message)
    <3>1. \A k \in DOMAIN rows.messages : Before(rows.messages[k], message)
      BY <2>3 DEF Before
    <3> QED
      BY <1>r, <2>1, <2>2, <2>5, <3>1, TellingAppends
  <2> QED
    BY <1>0, <1>2, <2>2, <2>4, <2>5, RecordType DEF RecordUserMessage, Record, MessageInv
<1>3. CASE TakeTurn
  <2>1. /\ pc = "waiting" /\ pc' = "preparing" /\ turn' = turn + 1 /\ rows' = rows
        /\ UNCHANGED <<pool, conversation>>
    BY <1>3 DEF TakeTurn, Session, sessionFrame, serverVars, storeVars
  <2>2. ASSUME NEW k \in DOMAIN rows.messages
        PROVE  rows.messages[k].turn < turn' /\ rows.messages[k].turn <= turn'
    <3>1. rows.messages[k] \in Stored /\ rows.messages[k].turn <= turn
      BY <1>r DEF Telling
    <3> QED
      BY <1>0, <2>1, <3>1 DEF Stored
  <2> QED
    BY <2>1, <2>2 DEF Telling, InTurn, AtHand
<1>4. CASE TurnOver /\ ~EndTurn
  <2>1. /\ UNCHANGED <<rows, pool, conversation, turn>>
        /\ pc \notin {"none", "closed"} /\ pc' \in {"waiting", "closing"}
    BY <1>4, TurnOverClears
    DEF TurnOver, SocketGone, StreamCancelled, TurnRaises, CancelAtGate, AbandonTurn, Session,
        storeVars, sessionVars
  <2> QED
    BY <2>1, TellingElsewhere DEF InTurn, AtHand
<1>5. CASE ServerNext
  <2>1. server = "starting" => pc = "none" /\ rows.messages = <<>>
    BY <1>0 DEF ServerInv
  <2>2. rows.messages = <<>> /\ pc = "none" /\ pc' = pc /\ rows' = rows
    BY <1>5, <2>1 DEF ServerNext, RegisterNext, StartDatabase, sessionVars, storeVars
  <2> QED
    BY <2>2 DEF Telling, InTurn, AtHand
<1>6. CASE OpenConversation \/ CloseConversation
             \/ (\E found \in SUBSET Provisions : BuildAgent(found))
  <2>1. /\ UNCHANGED <<rows, turn, pool>>
        /\ pc' \in {"opened", "waiting", "closed"}
        /\ conversation' # conversation => conversation' # "none"
        /\ pc' \in {"opened", "waiting"} =>
              \/ pool => conversation' # "none"
              \/ pc = "opened" /\ conversation' = conversation
    BY <1>6
    DEF OpenConversation, CloseConversation, BuildAgent, Session, serverVars, storeVars
  <2> QED
    BY <2>1 DEF Telling, InTurn, AtHand
<1>7. CASE RecallMemories \/ StreamText \/ StreamEnds \/ StubReplies \/ NextRound
             \/ RoundsExhausted
             \/ (\E batch \in Batches : OpenStream(batch))
             \/ (\E i \in DOMAIN meant : Fragment(i))
  <2>1. /\ UNCHANGED <<rows, turn, pool, conversation>>
        /\ pc \in InTurn /\ pc' \in InTurn
    BY <1>7
    DEF RecallMemories, StreamText, StreamEnds, StubReplies, NextRound, RoundsExhausted,
        OpenStream, Fragment, Announce, Session, InTurn, storeVars, sessionFrame, serverVars
  <2> QED
    BY <2>1, TellingElsewhere DEF InTurn, AtHand
<1>8. CASE CallNext /\ ~TurnOver
  <2>1. rows'.messages = rows.messages
    BY <1>0, <1>8
    DEF CallNext, TurnOver, UnknownTool, Dispatch, Approve, Decline, RefuseArguments,
        HandlerReturns, HandlerRaises, HandlerActs, AnswerArrives, AnswerLost, RecordAction,
        Returns, storeVars, MessageInv
  <2>2. UNCHANGED <<turn, pool, conversation>>
    BY <1>8
    DEF CallNext, TurnOver, UnknownTool, Dispatch, Approve, Decline, RefuseArguments,
        HandlerReturns, HandlerRaises, HandlerActs, AnswerArrives, AnswerLost, RecordAction,
        Returns, callFrame, sessionFrame, serverVars
  <2>3. pc \in InTurn /\ pc' \in InTurn
    BY <1>8
    DEF CallNext, TurnOver, UnknownTool, Dispatch, Approve, Decline, RefuseArguments,
        HandlerReturns, HandlerRaises, HandlerActs, AnswerArrives, AnswerLost, RecordAction,
        Returns, Respond, Session, InTurn, AtHand
  <2> QED
    BY <2>1, <2>2, <2>3, TellingElsewhere DEF InTurn, AtHand
<1>9. CASE Interrupt
  BY <1>9 DEF Interrupt, serverVars, sessionVars, storeVars, Telling
<1> QED
  BY <1>1, <1>2, <1>3, <1>4, <1>5, <1>6, <1>7, <1>8, <1>9
  DEF Next, SessionNext, TurnNext, CallNext, TurnOver

\* The stored messages of a conversation tell its turns in order, each with the user's
\* message before the reply, whatever fails or is interrupted (AgentLoop._run_turn).
THEOREM MessagesInOrder == Spec => []MessagesTellTheTurns
<1>1. Init => Telling
  BY DEF Init, Telling, InTurn, AtHand
<1>2. TypeInv /\ Telling /\ [Next]_vars => Telling'
  <2>1. TypeInv /\ Telling /\ UNCHANGED vars => Telling'
    BY DEF vars, serverVars, sessionVars, storeVars, Telling
  <2> QED
    BY <2>1, TellingStep
<1>3. Telling => MessagesTellTheTurns
  BY DEF Telling, Before, MessagesTellTheTurns
<1> QED
  BY <1>1, <1>2, <1>3, TypeInvHolds, PTL DEF Spec

----------------------------------------------------------------------------
(* The transcript *)

Asks(i) == i \in DOMAIN messages /\ messages[i].role = "assistant"

Asked(i) == messages[i].calls

\* Every result is that of the call in its place after the message that asks for it.
Placed ==
    /\ \A i \in DOMAIN messages : Asks(i) =>
         \A k \in DOMAIN Asked(i) : i + k \in DOMAIN messages =>
            messages[i + k].role = "tool" /\ messages[i + k].call = Asked(i)[k]
    /\ \A i \in DOMAIN messages : messages[i].role = "tool" =>
         \E j \in 1..i - 1 :
            /\ Asks(j) /\ i - j \in DOMAIN Asked(j)
            /\ Asked(j)[i - j] = messages[i].call

Answered(i) == i + Len(Asked(i)) <= Len(messages)

\* The message at i asks for what has been answered since, and for the calls that are
\* still to be dispatched.
Awaits(i) ==
    /\ Asks(i)
    /\ i + Len(Asked(i)) = Len(messages) + Len(calls)
    /\ \A k \in DOMAIN calls : calls[k].n = Asked(i)[Len(messages) - i + k]
    /\ \A j \in DOMAIN messages : Asks(j) /\ j # i => Answered(j)

\* The strengthening of TranscriptPaired: while a batch is dispatched its message is the
\* only one that is not answered in full.
Paired ==
    /\ Placed
    /\ pc \in {"requesting", "streaming"} => \A i \in DOMAIN messages : Asks(i) => Answered(i)
    /\ pc \in {"dispatching"} \cup AtHand => \E i \in DOMAIN messages : Awaits(i)

LEMMA MessageShape ==
    ASSUME MessageInv
    PROVE  /\ Len(messages) \in Nat /\ DOMAIN messages = 1..Len(messages)
           /\ \A i \in DOMAIN messages : Asks(i) =>
                /\ Asked(i) \in Seq(Nat) /\ Len(Asked(i)) \in Nat
                /\ DOMAIN Asked(i) = 1..Len(Asked(i))
<1>1. /\ Len(messages) \in Nat /\ DOMAIN messages = 1..Len(messages)
      /\ \A i \in DOMAIN messages : messages[i] \in Messages
  BY DEF MessageInv
<1>2. \A m \in Messages : m.role = "assistant" => m.calls \in Seq(Nat)
  BY DEF Messages
<1> QED
  BY <1>1, <1>2 DEF Asks, Asked

\* The result of the first call comes where its message expects it.
LEMMA RespondPairs ==
    ASSUME MessageInv, CallInv, Placed, calls # <<>>, NEW i \in DOMAIN messages, Awaits(i),
           NEW outcome, Respond(outcome)
    PROVE  Placed' /\ Awaits(i)'
<1>0. PICK L \in Nat : L = Len(messages)
  BY MessageShape
<1> DEFINE result == Result(Current.n, outcome)
<1>1. /\ L = Len(messages) /\ L \in Nat /\ DOMAIN messages = 1..L
      /\ Asked(i) \in Seq(Nat) /\ Len(Asked(i)) \in Nat /\ DOMAIN Asked(i) = 1..Len(Asked(i))
  BY <1>0, MessageShape DEF Awaits
<1>2. messages' = Append(messages, result) /\ calls' = Tail(calls)
  BY DEF Respond
<1>3. /\ DOMAIN messages' = 1..(L + 1) /\ Len(messages') = L + 1
      /\ \A j \in 1..L : messages'[j] = messages[j]
      /\ messages'[L + 1] = result
  BY <1>1, <1>2 DEF MessageInv
<1>4. result.role = "tool" /\ result.call = Current.n
  BY DEF Result
<1>5. /\ Asked(i)[L + 1 - i] = result.call
      /\ L + 1 - i \in DOMAIN Asked(i)
  <2>1. /\ Len(calls) \in Nat \ {0} /\ 1 \in DOMAIN calls /\ Current = calls[1]
    BY CallAtHand
  <2>2. calls[1].n = Asked(i)[L - i + 1]
    BY <1>1, <2>1 DEF Awaits
  <2>3. L - i + 1 = L + 1 - i /\ L + 1 - i \in 1..Len(Asked(i))
    BY <1>1, <2>1 DEF Awaits
  <2> QED
    BY <1>1, <1>4, <2>1, <2>2, <2>3
<1>6. \A j \in 1..L : (Asks(j)' <=> Asks(j)) /\ Asked(j)' = Asked(j)
  BY <1>1, <1>3 DEF Asks, Asked
<1>7. ~Asks(L + 1)'
  BY <1>3, <1>4 DEF Asks
<1> HIDE DEF result
<1>8. ASSUME NEW j \in 1..L, Asks(j), NEW k \in DOMAIN Asked(j), j + k \in 1..(L + 1)
      PROVE  messages'[j + k].role = "tool" /\ messages'[j + k].call = Asked(j)[k]
  <2>1. k \in Nat /\ k <= Len(Asked(j)) /\ Len(Asked(j)) \in Nat
    BY <1>1, <1>8, MessageShape
  <2>2. CASE j + k \in 1..L
    BY <1>1, <1>3, <1>8, <2>2 DEF Placed
  <2>3. CASE j + k = L + 1
    <3>1. ~Answered(j)
      BY <1>1, <2>1, <2>3 DEF Answered
    <3>2. j = i
      BY <1>1, <1>8, <3>1 DEF Awaits
    <3>3. k = L + 1 - i
      BY <1>1, <2>1, <2>3, <3>2
    <3> QED
      BY <1>3, <1>4, <1>5, <2>3, <3>2, <3>3
  <2> QED
    BY <1>8, <2>2, <2>3
<1>9. ASSUME NEW j \in 1..(L + 1), messages'[j].role = "tool"
      PROVE  \E m \in 1..j - 1 : /\ Asks(m)' /\ j - m \in DOMAIN Asked(m)'
                                 /\ Asked(m)'[j - m] = messages'[j].call
  <2>1. CASE j \in 1..L
    <3>1. PICK m \in 1..j - 1 : /\ Asks(m) /\ j - m \in DOMAIN Asked(m)
                                /\ Asked(m)[j - m] = messages[j].call
      BY <1>1, <1>3, <1>9, <2>1 DEF Placed
    <3>2. m \in 1..L
      BY <1>1, <2>1
    <3> QED
      BY <1>3, <1>6, <2>1, <3>1, <3>2
  <2>2. CASE j = L + 1
    <3>1. i \in 1..j - 1 /\ Asks(i)
      BY <1>1, <2>2 DEF Awaits
    <3> QED
      BY <1>1, <1>3, <1>5, <1>6, <2>2, <3>1
  <2> QED
    BY <1>1, <1>9, <2>1, <2>2
<1>10. Placed'
  <2>1. \A j \in DOMAIN messages' : Asks(j)' => j \in 1..L /\ Asks(j) /\ Asked(j)' = Asked(j)
    BY <1>1, <1>3, <1>6, <1>7
  <2> QED
    BY <1>3, <1>8, <1>9, <2>1 DEF Placed
<1>11. Awaits(i)'
  <2>1. Asks(i)' /\ Asked(i)' = Asked(i)
    BY <1>1, <1>6 DEF Awaits
  <2>2. i + Len(Asked(i)') = Len(messages') + Len(calls')
    BY <1>1, <1>2, <1>3, <2>1, CallAtHand DEF Awaits
  <2>3. ASSUME NEW k \in DOMAIN calls'
        PROVE  calls'[k].n = Asked(i)'[Len(messages') - i + k]
    <3>1. k \in Nat /\ k + 1 \in DOMAIN calls /\ calls'[k] = calls[k + 1]
      BY <1>2, CallAtHand
    <3>2. calls[k + 1].n = Asked(i)[L - i + (k + 1)]
      BY <1>1, <3>1 DEF Awaits
    <3>3. L - i + (k + 1) = Len(messages') - i + k
      BY <1>1, <1>3, <3>1
    <3> QED
      BY <2>1, <3>1, <3>2, <3>3
  <2>4. ASSUME NEW j \in DOMAIN messages', Asks(j)', j # i
        PROVE  Answered(j)'
    <3>1. j \in 1..L /\ Asks(j) /\ Asked(j)' = Asked(j)
      BY <1>1, <1>3, <1>6, <1>7, <2>4
    <3>2. Answered(j) /\ Len(Asked(j)) \in Nat
      BY <1>1, <2>4, <3>1, MessageShape DEF Awaits
    <3> QED
      BY <1>1, <1>3, <3>1, <3>2 DEF Answered
  <2> QED
    BY <2>1, <2>2, <2>3, <2>4 DEF Awaits
<1> QED
  BY <1>10, <1>11

\* A batch is announced when all before it is answered.
LEMMA AnnouncePairs ==
    ASSUME MessageInv, Placed, \A i \in DOMAIN messages : Asks(i) => Answered(i),
           NEW batch, batch # <<>>, Announce(batch), CallInv,
           Len(batch) \in Nat, DOMAIN batch = 1..Len(batch),
           \A k \in DOMAIN batch : batch[k].n \in Nat
    PROVE  Placed' /\ \E i \in DOMAIN messages' : Awaits(i)'
<1>0. PICK L \in Nat : L = Len(messages)
  BY MessageShape
<1> DEFINE asking == Assistant(Numbers(batch))
<1>1. L = Len(messages) /\ L \in Nat /\ DOMAIN messages = 1..L
  BY <1>0, MessageShape
<1>2. messages' = Append(messages, asking) /\ calls' = batch
  BY DEF Announce
<1>3. asking.role = "assistant" /\ asking.calls = Numbers(batch)
  BY DEF Assistant
<1>4. Numbers(batch) = [k \in DOMAIN batch |-> batch[k].n] /\ Len(Numbers(batch)) = Len(batch)
  BY NumbersType DEF Numbers
<1> HIDE DEF asking
<1>5. /\ DOMAIN messages' = 1..(L + 1) /\ Len(messages') = L + 1
      /\ \A j \in 1..L : messages'[j] = messages[j]
      /\ messages'[L + 1] = asking
  BY <1>1, <1>2 DEF MessageInv
<1>6. /\ \A j \in 1..L : (Asks(j)' <=> Asks(j)) /\ Asked(j)' = Asked(j)
      /\ Asks(L + 1)' /\ Asked(L + 1)' = Numbers(batch)
  BY <1>1, <1>3, <1>5 DEF Asks, Asked
<1>7. \A j \in 1..L : Asks(j) =>
         Len(Asked(j)) \in Nat /\ DOMAIN Asked(j) = 1..Len(Asked(j)) /\ j + Len(Asked(j)) <= L
  BY <1>1, MessageShape DEF Answered
<1>8. ASSUME NEW j \in 1..L, Asks(j), NEW k \in DOMAIN Asked(j), j + k \in 1..(L + 1)
      PROVE  messages'[j + k].role = "tool" /\ messages'[j + k].call = Asked(j)[k]
  <2>1. j + k \in 1..L
    BY <1>1, <1>7, <1>8
  <2> QED
    BY <1>1, <1>5, <1>8, <2>1 DEF Placed
<1>9. \A k \in DOMAIN Numbers(batch) : L + 1 + k \notin 1..(L + 1)
  BY <1>1, <1>4
<1>10. ASSUME NEW j \in 1..(L + 1), messages'[j].role = "tool"
       PROVE  \E m \in 1..j - 1 : /\ Asks(m)' /\ j - m \in DOMAIN Asked(m)'
                                  /\ Asked(m)'[j - m] = messages'[j].call
  <2>1. j \in 1..L /\ messages'[j] = messages[j]
    BY <1>1, <1>3, <1>5, <1>10
  <2>2. PICK m \in 1..j - 1 : /\ Asks(m) /\ j - m \in DOMAIN Asked(m)
                              /\ Asked(m)[j - m] = messages[j].call
    BY <1>1, <1>10, <2>1 DEF Placed
  <2>3. m \in 1..L
    BY <1>1, <2>1
  <2> QED
    BY <1>6, <2>1, <2>2, <2>3
<1>11. Placed'
  <2>1. ASSUME NEW j \in DOMAIN messages', Asks(j)', NEW k \in DOMAIN Asked(j)',
               j + k \in DOMAIN messages'
        PROVE  messages'[j + k].role = "tool" /\ messages'[j + k].call = Asked(j)'[k]
    <3>1. CASE j \in 1..L
      BY <1>5, <1>6, <1>8, <2>1, <3>1
    <3>2. CASE j = L + 1
      BY <1>5, <1>6, <1>9, <2>1, <3>2
    <3> QED
      BY <1>1, <1>5, <2>1, <3>1, <3>2
  <2> QED
    BY <1>5, <1>10, <2>1 DEF Placed
<1>12. Awaits(L + 1)'
  <2>1. L + 1 + Len(Asked(L + 1)') = Len(messages') + Len(calls')
    BY <1>2, <1>4, <1>5, <1>6
  <2>2. ASSUME NEW k \in DOMAIN calls'
        PROVE  calls'[k].n = Asked(L + 1)'[Len(messages') - (L + 1) + k]
    <3>1. Len(messages') - (L + 1) + k = k /\ k \in DOMAIN batch
      BY <1>1, <1>2, <1>5
    <3> QED
      BY <1>2, <1>4, <1>6, <3>1
  <2>3. ASSUME NEW j \in DOMAIN messages', Asks(j)', j # L + 1
        PROVE  Answered(j)'
    <3>1. j \in 1..L
      BY <1>1, <1>5, <2>3
    <3> QED
      BY <1>1, <1>5, <1>6, <1>7, <2>3, <3>1 DEF Answered
  <2> QED
    BY <1>6, <2>1, <2>2, <2>3 DEF Awaits
<1> QED
  BY <1>1, <1>5, <1>11, <1>12

\* A step that says nothing and stays where it is in the transcript.
LEMMA PairedElsewhere ==
    ASSUME Paired, messages' = messages, calls' = calls,
           pc' \in {"requesting", "streaming"} => pc \in {"requesting", "streaming"},
           pc' \in {"dispatching"} \cup AtHand => pc \in {"dispatching"} \cup AtHand
    PROVE  Paired'
<1>1. \A i : (Asks(i)' <=> Asks(i)) /\ Asked(i)' = Asked(i)
  BY DEF Asks, Asked
<1>2. \A i : (Answered(i)' <=> Answered(i)) /\ (Awaits(i)' <=> Awaits(i))
  BY <1>1 DEF Answered, Awaits
<1>3. Placed'
  BY <1>1 DEF Paired, Placed
<1> QED
  BY <1>1, <1>2, <1>3 DEF Paired

LEMMA PairedStep ==
    ASSUME TypeInv, Paired, Next
    PROVE  Paired'
<1>0. MessageInv /\ CallInv /\ ServerInv
  BY DEF TypeInv
<1>p. Placed
  BY DEF Paired
<1>1. CASE TurnOver
  <2>1. messages' = <<>> /\ DOMAIN messages' = {} /\ pc' \in {"waiting", "closing"}
    BY <1>1, TurnOverClears
  <2> QED
    BY <2>1 DEF Paired, Placed, AtHand
<1>2. CASE ServerNext \/ OpenConversation \/ CloseConversation
             \/ (\E found \in SUBSET Provisions : BuildAgent(found))
  <2>1. messages' = messages /\ calls' = calls
    BY <1>2
    DEF ServerNext, RegisterNext, StartDatabase, OpenConversation, CloseConversation, BuildAgent
  <2>2. pc' \notin {"requesting", "streaming", "dispatching"} \cup AtHand
    <3>1. server = "starting" => pc = "none"
      BY <1>0 DEF ServerInv
    <3> QED
      BY <1>2, <3>1
      DEF ServerNext, RegisterNext, StartDatabase, OpenConversation, CloseConversation,
          BuildAgent, Session, AtHand, sessionVars
  <2> QED
    BY <2>1, <2>2, PairedElsewhere
<1>3. CASE \/ TakeTurn \/ RecordUserMessage \/ StreamText \/ RoundsExhausted
           \/ \E batch \in Batches : OpenStream(batch)
           \/ \E i \in DOMAIN meant : Fragment(i)
  <2>1. /\ messages' = messages /\ calls' = calls
        /\ pc' \notin {"dispatching"} \cup AtHand
        /\ pc' \in {"requesting", "streaming"} => pc \in {"requesting", "streaming"}
    BY <1>3
    DEF TakeTurn, RecordUserMessage, StreamText, RoundsExhausted, OpenStream, Fragment, Session,
        turnLocals, AtHand
  <2> QED
    BY <2>1, PairedElsewhere
<1>4. CASE Interrupt
  <2>1. messages' = messages /\ calls' = calls /\ pc' = pc
    BY <1>4 DEF Interrupt
  <2> QED
    BY <2>1, PairedElsewhere
<1>5. CASE RecallMemories
  <2>1. PICK facts : messages' = << System(facts), User(turn) >>
    BY <1>5 DEF RecallMemories
  <2>2. DOMAIN messages' = 1..2 /\ messages'[1] = System(facts) /\ messages'[2] = User(turn)
    BY <2>1
  <2>3. System(facts).role = "system" /\ User(turn).role = "user"
    BY DEF System, User
  <2>4. \A i \in 1..2 : i = 1 \/ i = 2
    OBVIOUS
  <2>5. \A i \in DOMAIN messages' : messages'[i].role \notin {"assistant", "tool"}
    BY <2>2, <2>3, <2>4
  <2>6. pc' = "requesting"
    BY <1>5 DEF RecallMemories, Session
  <2> QED
    BY <2>5, <2>6 DEF Paired, Placed, Asks, AtHand
<1>6. ASSUME NEW batch, Announce(batch), pc \in {"requesting", "streaming"},
             Len(batch) \in Nat, DOMAIN batch = 1..Len(batch),
             \A k \in DOMAIN batch : batch[k].n = count + k
      PROVE  Paired'
  <2>1. CASE batch = <<>>
    <3>1. messages' = messages /\ pc' = "done"
      BY <1>6, <2>1 DEF Announce
    <3>2. Placed'
      BY <1>p, <3>1 DEF Placed, Asks, Asked
    <3> QED
      BY <3>1, <3>2 DEF Paired, AtHand
  <2>2. CASE batch # <<>>
    <3>1. \A i \in DOMAIN messages : Asks(i) => Answered(i)
      BY <1>6 DEF Paired
    <3>2. \A k \in DOMAIN batch : batch[k].n \in Nat
      BY <1>0, <1>6 DEF CallInv
    <3>3. Placed' /\ \E i \in DOMAIN messages' : Awaits(i)'
      BY <1>0, <1>p, <1>6, <2>2, <3>1, <3>2, AnnouncePairs
    <3>4. pc' = "dispatching"
      BY <1>6, <2>2 DEF Announce
    <3> QED
      BY <3>3, <3>4 DEF Paired
  <2> QED
    BY <2>1, <2>2
<1>7. CASE StreamEnds
  <2>1. PICK args \in Readings : Announce(Finalise(args))
    BY <1>7 DEF StreamEnds
  <2> QED
    BY <1>6, <1>7, <2>1, FinaliseNumbers DEF StreamEnds
<1>8. CASE StubReplies
  <2>1. CASE Announce(<<>>)
    BY <1>6, <1>8, <2>1 DEF StubReplies
  <2>2. ASSUME NEW name \in StubTools, Announce(<< StubCall(name) >>)
        PROVE  Paired'
    <3>1. StubCall(name).n = count + 1
      BY DEF StubCall
    <3> QED
      BY <1>6, <1>8, <2>2, <3>1 DEF StubReplies
  <2> QED
    BY <1>8, <2>1, <2>2 DEF StubReplies
<1>9. CASE UnknownTool \/ Decline \/ RefuseArguments \/ HandlerRaises \/ AnswerLost
             \/ RecordAction
  <2>1. pc \in {"dispatching"} \cup AtHand /\ calls # <<>>
    BY <1>0, <1>9
    DEF UnknownTool, Decline, RefuseArguments, HandlerRaises, AnswerLost, RecordAction, AtHand,
        CallInv
  <2>2. PICK outcome : Respond(outcome)
    BY <1>9
    DEF UnknownTool, Decline, RefuseArguments, HandlerRaises, AnswerLost, RecordAction
  <2>3. PICK i \in DOMAIN messages : Awaits(i)
    BY <2>1 DEF Paired
  <2>4. Placed' /\ Awaits(i)'
    BY <1>0, <1>p, <2>1, <2>2, <2>3, RespondPairs
  <2>5. pc' = "dispatching"
    BY <2>2 DEF Respond
  <2> QED
    BY <2>4, <2>5 DEF Paired, Awaits, Asks
<1>10. CASE Dispatch \/ Approve \/ HandlerReturns \/ AnswerArrives \/ HandlerActs
  <2>1. /\ messages' = messages /\ calls' = calls
        /\ pc \in {"dispatching"} \cup AtHand /\ pc' \in AtHand
    BY <1>10
    DEF Dispatch, Approve, HandlerReturns, AnswerArrives, HandlerActs, Returns, Session, AtHand
  <2> QED
    BY <2>1, PairedElsewhere DEF AtHand
<1>11. CASE NextRound
  <2>1. /\ messages' = messages /\ calls = <<>> /\ pc = "dispatching" /\ pc' = "requesting"
    BY <1>11 DEF NextRound, Session
  <2>2. PICK i \in DOMAIN messages : Awaits(i)
    BY <2>1 DEF Paired
  <2>3. Answered(i)
    BY <1>0, <2>1, <2>2, MessageShape DEF Awaits, Answered
  <2>4. \A j \in DOMAIN messages : Asks(j) => Answered(j)
    BY <2>2, <2>3 DEF Awaits
  <2> QED
    BY <1>p, <2>1, <2>4 DEF Paired, Placed, Asks, Asked, Answered, AtHand
<1> QED
  BY <1>1, <1>2, <1>3, <1>4, <1>5, <1>7, <1>8, <1>9, <1>10, <1>11
  DEF Next, SessionNext, TurnNext, CallNext, TurnOver

\* The model is never asked again with a call it asked for unanswered, and every result
\* stands in the place of its call (comment at loop.py:160).
THEOREM TranscriptIsPaired == Spec => []TranscriptPaired
<1>1. Init => Paired
  BY DEF Init, Paired, Placed, AtHand
<1>2. TypeInv /\ Paired /\ [Next]_vars => Paired'
  <2>1. TypeInv /\ Paired /\ UNCHANGED vars => Paired'
    BY PairedElsewhere DEF vars
  <2> QED
    BY <2>1, PairedStep
<1>3. Paired => TranscriptPaired
  BY DEF Paired, Placed, Asks, Asked, Answered, TranscriptPaired
<1> QED
  BY <1>1, <1>2, <1>3, TypeInvHolds, PTL DEF Spec

----------------------------------------------------------------------------
(* Nothing is done unasked *)

\* The tools that have a name and act outside are of class CONFIRM.
ActingNamesConfirm ==
    \A name \in DOMAIN names : names[name].tool.deed = "acts" => names[name].tool.cls = "confirm"

\* A tool that acts outside runs after the user's confirmation of this very call.
RunsConfirmed == pc = "running" /\ CurrentTool.deed = "acts" => Current.n \in approved

LEMMA RunsConfirmedStep ==
    ASSUME TypeInv, ActingNamesConfirm, RunsConfirmed, [Next]_vars
    PROVE  RunsConfirmed'
<1>1. CASE pc' # "running"
  BY <1>1 DEF RunsConfirmed
<1>2. CASE Dispatch
  <2>1. /\ Current' = Current /\ CurrentTool' = CurrentTool /\ Current.name \in DOMAIN names
        /\ pc' = "running" => CurrentTool.cls # "confirm"
    BY <1>2 DEF Dispatch, Session, Current, CurrentTool, callFrame, sessionFrame, serverVars
  <2> QED
    BY <2>1 DEF ActingNamesConfirm, RunsConfirmed, CurrentTool
<1>3. CASE Approve
  <2>1. Current' = Current /\ Current.n \in approved'
    BY <1>3 DEF Approve, Current
  <2> QED
    BY <2>1 DEF RunsConfirmed
<1>4. CASE Interrupt \/ UNCHANGED vars
  <2>1. pc' = pc /\ approved' = approved /\ Current' = Current /\ CurrentTool' = CurrentTool
    BY <1>4 DEF Interrupt, vars, history, serverVars, Current, CurrentTool
  <2> QED
    BY <2>1 DEF RunsConfirmed
<1>5. ASSUME ServerNext, pc' = "running"
      PROVE  FALSE
  BY <1>5 DEF ServerNext, RegisterNext, StartDatabase, sessionVars, TypeInv, ServerInv
<1>6. ASSUME \/ TurnOver \/ OpenConversation \/ CloseConversation
             \/ \E found \in SUBSET Provisions : BuildAgent(found)
      PROVE  pc' # "running"
  BY <1>6, TurnOverClears DEF OpenConversation, CloseConversation, BuildAgent, Session
<1>7. ASSUME \/ TakeTurn \/ RecordUserMessage \/ RecallMemories \/ StreamText \/ StreamEnds
             \/ StubReplies \/ NextRound \/ RoundsExhausted
             \/ \E batch \in Batches : OpenStream(batch)
             \/ \E i \in DOMAIN meant : Fragment(i)
      PROVE  pc' # "running"
  BY <1>7
  DEF TakeTurn, RecordUserMessage, RecallMemories, StreamText, StreamEnds, StubReplies,
      NextRound, RoundsExhausted, OpenStream, Fragment, Announce, Session
<1>8. ASSUME \/ UnknownTool \/ Decline \/ RefuseArguments \/ HandlerReturns \/ HandlerRaises
             \/ HandlerActs \/ AnswerArrives \/ AnswerLost \/ RecordAction
      PROVE  pc' # "running"
  BY <1>8
  DEF UnknownTool, Decline, RefuseArguments, HandlerReturns, HandlerRaises, HandlerActs,
      AnswerArrives, AnswerLost, RecordAction, Returns, Respond, Session
<1> QED
  BY <1>1, <1>2, <1>3, <1>4, <1>5, <1>6, <1>7, <1>8
  DEF Next, SessionNext, TurnNext, CallNext, TurnOver

\* Only a handler that acts adds to the deeds.
LEMMA DeedsByHandlers ==
    ASSUME Next, acted' # acted
    PROVE  HandlerActs
<1>1. ServerNext \/ SessionNext => acted' = acted
  BY DEF ServerNext, SessionNext, RegisterNext, StartDatabase, OpenConversation,
         CloseConversation, SocketGone, BuildAgent, history
<1>2. TurnNext => acted' = acted
  BY DEF TurnNext, TakeTurn, RecordUserMessage, RecallMemories, TurnRaises, EndTurn, Interrupt,
         StreamCancelled, StreamText, StreamEnds, StubReplies, OpenStream, Fragment, NextRound,
         RoundsExhausted, AbandonTurn, history
<1>3. CallNext => HandlerActs \/ acted' = acted
  BY DEF CallNext, UnknownTool, Dispatch, Approve, Decline, CancelAtGate, RefuseArguments,
         HandlerReturns, HandlerRaises, AnswerArrives, AnswerLost, RecordAction, Returns,
         AbandonTurn, history
<1> QED
  BY <1>1, <1>2, <1>3 DEF Next

\* Calls are taken over only while the turn is not interrupted.
LEMMA CallsUninterrupted ==
    ASSUME Next, interrupted
    PROVE  count' = count
<1>1. ServerNext \/ SessionNext => count' = count
  BY DEF ServerNext, SessionNext, RegisterNext, StartDatabase, OpenConversation,
         CloseConversation, SocketGone, BuildAgent
<1>2. TurnNext => count' = count
  BY DEF TurnNext, TakeTurn, RecordUserMessage, RecallMemories, TurnRaises, EndTurn, Interrupt,
         StreamCancelled, StreamText, StreamEnds, StubReplies, OpenStream, Fragment, NextRound,
         RoundsExhausted, AbandonTurn
<1>3. CallNext => count' = count
  BY DEF CallNext, UnknownTool, Dispatch, Approve, Decline, CancelAtGate, RefuseArguments,
         HandlerReturns, HandlerRaises, HandlerActs, AnswerArrives, AnswerLost, RecordAction,
         Returns, AbandonTurn, callFrame
<1> QED
  BY <1>1, <1>2, <1>3 DEF Next

----------------------------------------------------------------------------
(* The prompt has context *)

\* The latest of some facts are some, and no more than recall may answer.
LEMMA LatestAreSome ==
    ASSUME NEW b \in Nat, NEW facts, facts \subseteq 1..b
    PROVE  /\ Latest(facts) \subseteq facts
           /\ facts # {} => Latest(facts) # {}
           /\ IsFiniteSet(Latest(facts)) /\ Cardinality(Latest(facts)) <= RecallLimit
<1> DEFINE Later(n) == {m \in facts : m > n}
<1>0. facts \subseteq Nat /\ facts \subseteq 0..b
  OBVIOUS
<1>1. IsFiniteSet(facts)
  <2>1. IsFiniteSet(1..b)
    BY FS_Interval
  <2> QED
    BY <2>1, FS_Subset
<1>2. Latest(facts) \subseteq facts /\ IsFiniteSet(Latest(facts))
  BY <1>1, FS_Subset DEF Latest
<1>3. RecallLimit \in Nat \ {0}
  BY BoundsAssumption
<1>4. ASSUME facts # {}
      PROVE  Latest(facts) # {}
  <2>1. PICK x \in facts : \A y \in facts : y <= x
    BY <1>0, <1>4, GreatestNat
  <2>2. Later(x) = {}
    <3>1. ASSUME NEW m \in facts
          PROVE  ~(m > x)
      <4>1. m \in Nat /\ x \in Nat /\ m <= x
        BY <1>0, <2>1
      <4> QED
        BY <4>1
    <3> QED
      BY <3>1
  <2>3. Cardinality(Later(x)) < RecallLimit
    BY <1>3, <2>2, FS_EmptySet
  <2> QED
    BY <2>1, <2>3 DEF Latest
<1>5. CASE Latest(facts) = {}
  BY <1>2, <1>3, <1>4, <1>5, FS_EmptySet
<1>6. CASE Latest(facts) # {}
  <2>1. PICK x \in Latest(facts) : \A y \in Latest(facts) : x <= y
    <3>1. Latest(facts) \subseteq Nat
      BY <1>0, <1>2
    <3> QED
      BY <1>6, <3>1, SmallestNat
  <2>2. Cardinality(Later(x)) < RecallLimit
    BY <2>1 DEF Latest
  <2>3. Latest(facts) \ {x} \subseteq Later(x)
    <3>1. ASSUME NEW m \in Latest(facts), m # x
          PROVE  m > x
      <4>1. m \in Nat /\ x \in Nat /\ x <= m
        BY <1>0, <1>2, <2>1
      <4> QED
        BY <3>1, <4>1
    <3> QED
      BY <1>2, <3>1
  <2>4. IsFiniteSet(Later(x))
    BY <1>1, FS_Subset
  <2>5. Cardinality(Latest(facts) \ {x}) <= Cardinality(Later(x))
    BY <2>3, <2>4, FS_Subset
  <2>6. Cardinality(Latest(facts) \ {x}) = Cardinality(Latest(facts)) - 1
    BY <1>2, <2>1, FS_RemoveElement
  <2>7. Cardinality(Latest(facts)) \in Nat /\ Cardinality(Later(x)) \in Nat
    BY <1>2, <2>4, FS_CardinalityType
  <2> QED
    BY <1>2, <1>3, <1>4, <2>2, <2>5, <2>6, <2>7
<1> QED
  BY <1>2, <1>4, <1>5, <1>6

\* What recall answers is some of what is remembered.
LEMMA RecallAnswers ==
    ASSUME NEW b \in Nat, memory \subseteq 1..b, NEW matched \in SUBSET memory,
           NEW facts \in Recall(matched)
    PROVE  /\ memory # {} => facts # {}
           /\ Cardinality(facts) <= RecallLimit
<1>1. CASE matched = {}
  BY <1>1, LatestAreSome DEF Recall
<1>2. CASE matched # {} /\ ~pool
  BY <1>2, LatestAreSome DEF Recall
<1>3. CASE matched # {} /\ pool
  <2>1. Cardinality(facts) = Cardinality(Latest(matched))
    BY <1>3 DEF Recall
  <2>2. Cardinality(Latest(matched)) # 0
    BY <1>3, LatestAreSome, FS_EmptySet
  <2> QED
    BY <2>1, <2>2, LatestAreSome, FS_EmptySet
<1> QED
  BY <1>1, <1>2, <1>3

\* Only the recall leads to the request with a prompt.
LEMMA RequestAfterRecall ==
    ASSUME TypeInv, Next, pc = "recalling", pc' = "requesting"
    PROVE  RecallMemories
<1>1. ~ServerNext
  BY DEF ServerNext, RegisterNext, StartDatabase, TypeInv, ServerInv
<1>2. ~SessionNext
  BY DEF SessionNext, OpenConversation, CloseConversation, SocketGone, BuildAgent, Session
<1>3. ~CallNext
  BY DEF CallNext, UnknownTool, Dispatch, Approve, Decline, CancelAtGate, RefuseArguments,
         HandlerReturns, HandlerRaises, HandlerActs, AnswerArrives, AnswerLost, RecordAction,
         Session
<1>4. TurnNext => RecallMemories
  BY DEF TurnNext, TakeTurn, RecordUserMessage, TurnRaises, EndTurn, Interrupt,
         StreamCancelled, StreamText, StreamEnds, StubReplies, OpenStream, Fragment, NextRound,
         RoundsExhausted, AbandonTurn, Session
<1> QED
  BY <1>1, <1>2, <1>3, <1>4 DEF Next

\* Whatever the query finds, the prompt is given some of what is remembered, and no more
\* than RecallLimit facts (FoundationalConnector's recall, MemoryStore.recall).
THEOREM ContextInPrompt == Spec => PromptHasContext
<1>1. TypeInv /\ [Next]_vars =>
        [pc = "recalling" /\ pc' = "requesting" =>
           /\ memory # {} => Head(messages').facts # {}
           /\ Cardinality(Head(messages').facts) <= RecallLimit]_vars
  <2> SUFFICES ASSUME TypeInv, Next, pc = "recalling", pc' = "requesting"
               PROVE  /\ memory # {} => Head(messages').facts # {}
                      /\ Cardinality(Head(messages').facts) <= RecallLimit
    OBVIOUS
  <2>1. PICK matched \in SUBSET memory, facts \in SUBSET memory :
              facts \in Recall(matched) /\ messages' = << System(facts), User(turn) >>
    BY RequestAfterRecall DEF RecallMemories
  <2>2. Head(messages').facts = facts
    BY <2>1 DEF System
  <2>3. count \in Nat /\ memory \subseteq 1..count
    BY DEF TypeInv, CallInv
  <2> QED
    BY <2>1, <2>2, <2>3, RecallAnswers
<1> QED
  BY <1>1, TypeInvHolds, PTL DEF Spec, PromptHasContext

----------------------------------------------------------------------------
(* The slots hold what was streamed *)

\* The fragments up to the p-th, in their order.
UpTo(p) == [k \in 1..p |-> k]

\* A slot holds no more than was sent, all of it if nothing was lost, and less if it has
\* its name and something else was.
Slotted(i) ==
    LET fragments == sent[i].pieces
    IN  /\ fragments <= meant[i].parts + 1
        /\ fragments = 0 => ~sent[i].missing /\ i \notin DOMAIN partial
        /\ i \in DOMAIN partial /\ partial[i].named /\ sent[i].missing =>
              Len(partial[i].parts) + 1 < fragments
        /\ i \in DOMAIN partial =>
              /\ partial[i] \in [named : BOOLEAN, parts : Seq(Nat)]
              /\ \A k \in DOMAIN partial[i].parts : partial[i].parts[k] \in 1..fragments - 1
        /\ fragments > 0 /\ ~sent[i].missing =>
              /\ i \in DOMAIN partial
              /\ partial[i].named /\ partial[i].parts = UpTo(fragments - 1)

Streamed == \A i \in DOMAIN meant : Slotted(i)

\* What makes a slot after one more fragment.
LEMMA SlottedNext ==
    ASSUME NEW i, NEW p \in Nat, sent'[i].pieces = p + 1, meant' = meant,
           meant[i].parts \in Nat, p <= meant[i].parts,
           i \in DOMAIN partial' =>
              /\ partial'[i] \in [named : BOOLEAN, parts : Seq(Nat)]
              /\ \A k \in DOMAIN partial'[i].parts : partial'[i].parts[k] \in 1..p,
           ~sent'[i].missing =>
              i \in DOMAIN partial' /\ partial'[i].named /\ partial'[i].parts = UpTo(p),
           i \in DOMAIN partial' /\ partial'[i].named /\ sent'[i].missing =>
              Len(partial'[i].parts) < p
    PROVE  Slotted(i)'
<1>1. /\ sent'[i].pieces - 1 = p /\ sent'[i].pieces <= meant'[i].parts + 1
      /\ sent'[i].pieces # 0
  OBVIOUS
<1>2. i \in DOMAIN partial' => Len(partial'[i].parts) \in Nat
  OBVIOUS
<1>3. i \in DOMAIN partial' /\ partial'[i].named /\ sent'[i].missing =>
        Len(partial'[i].parts) + 1 < sent'[i].pieces
  BY <1>1, <1>2
<1> QED
  BY <1>1, <1>3 DEF Slotted

\* The calls a model may mean.
LEMMA MeantParts ==
    ASSUME StreamInv, NEW i \in DOMAIN meant
    PROVE  /\ meant[i] \in Meant /\ meant[i].parts \in {0, ArgParts} /\ ArgParts \in Nat \ {0}
           /\ sent[i].pieces \in Nat /\ sent[i].missing \in BOOLEAN
<1>1. meant[i] \in Meant /\ sent[i] \in [pieces : Nat, missing : BOOLEAN]
  BY DEF StreamInv
<1> QED
  BY <1>1, BoundsAssumption

LEMMA UpToGrows ==
    ASSUME NEW p \in Nat
    PROVE  /\ UpTo(p) \in Seq(Nat) /\ UpTo(p + 1) = Append(UpTo(p), p + 1)
           /\ UpTo(0) = << >>
<1>1. UpTo(p) \in Seq(Nat) /\ Len(UpTo(p)) = p
  BY DEF UpTo
<1>2. Append(UpTo(p), p + 1) = [k \in 1..p + 1 |-> IF k = p + 1 THEN p + 1 ELSE UpTo(p)[k]]
  BY <1>1
<1>3. \A k \in 1..p + 1 : (IF k = p + 1 THEN p + 1 ELSE UpTo(p)[k]) = k
  BY DEF UpTo
<1> QED
  BY <1>1, <1>2, <1>3 DEF UpTo

\* A fragment that arrives is added to its slot.
LEMMA FragmentSlots ==
    ASSUME StreamInv, Streamed, NEW i \in DOMAIN meant, Fragment(i)
    PROVE  Streamed'
<1> DEFINE p == sent[i].pieces
<1>0. /\ meant' = meant /\ p <= meant[i].parts
      /\ p \in Nat /\ meant[i].parts \in Nat
      /\ sent \in [DOMAIN meant -> [pieces : Nat, missing : BOOLEAN]]
  <2>1. meant' = meant /\ p <= meant[i].parts
    BY DEF Fragment
  <2>2. sent \in [DOMAIN meant -> [pieces : Nat, missing : BOOLEAN]]
    BY DEF StreamInv
  <2>3. p \in Nat
    BY <2>2
  <2>4. meant[i].parts \in Nat
    BY MeantParts
  <2> QED
    BY <2>1, <2>2, <2>3, <2>4
<1>s. Slotted(i)
  BY DEF Streamed
<1>1. ASSUME NEW j \in DOMAIN meant, j # i
      PROVE  Slotted(j)'
  <2>1. sent'[j] = sent[j]
    BY <1>0, <1>1 DEF Fragment
  <2>2. /\ j \in DOMAIN partial' <=> j \in DOMAIN partial
        /\ j \in DOMAIN partial => partial'[j] = partial[j]
    BY <1>1 DEF Fragment, Accumulate, WithSlot
  <2>3. Slotted(j)
    BY DEF Streamed
  <2> QED
    BY <1>0, <2>1, <2>2, <2>3 DEF Slotted
<1>2. ASSUME sent' = [sent EXCEPT ![i] = [pieces |-> @.pieces + 1, missing |-> TRUE]],
             UNCHANGED partial
      PROVE  Slotted(i)'
  <2>1. sent'[i].pieces = p + 1 /\ sent'[i].missing = TRUE
    BY <1>0, <1>2
  <2>2. 1..p - 1 \subseteq 1..p
    BY <1>0
  <2>3. ASSUME i \in DOMAIN partial, NEW k \in DOMAIN partial[i].parts
        PROVE  partial[i].parts[k] \in 1..p
    BY <1>s, <2>2, <2>3 DEF Slotted
  <2>5. i \in DOMAIN partial => partial[i] \in [named : BOOLEAN, parts : Seq(Nat)]
    BY <1>s DEF Slotted
  <2>6. ASSUME i \in DOMAIN partial, partial[i].named
        PROVE  Len(partial[i].parts) < p
    <3>1. Len(partial[i].parts) \in Nat /\ sent[i].missing \in BOOLEAN /\ p > 0
      BY <1>0, <1>s, <2>5, <2>6 DEF Slotted
    <3>2. CASE sent[i].missing
      <4>1. Len(partial[i].parts) + 1 < p
        BY <1>s, <2>6, <3>2 DEF Slotted
      <4> QED
        BY <1>0, <3>1, <4>1
    <3>3. CASE ~sent[i].missing
      <4>1. partial[i].parts = UpTo(p - 1) /\ p - 1 \in Nat
        BY <1>0, <1>s, <3>1, <3>3 DEF Slotted
      <4>2. Len(UpTo(p - 1)) = p - 1
        BY <4>1 DEF UpTo
      <4> QED
        BY <1>0, <4>1, <4>2
    <3> QED
      BY <3>1, <3>2, <3>3
  <2> QED
    BY <1>0, <1>2, <2>1, <2>3, <2>5, <2>6, SlottedNext
<1>3. ASSUME sent' = [sent EXCEPT ![i].pieces = @ + 1], partial' = Accumulate(i, p)
      PROVE  Slotted(i)'
  <2>1. sent'[i].pieces = p + 1 /\ sent'[i].missing = sent[i].missing
    BY <1>0, <1>3
  <2> DEFINE slot == Slot(i)
  <2>2. /\ slot \in [named : BOOLEAN, parts : Seq(Nat)]
        /\ \A k \in DOMAIN slot.parts : slot.parts[k] \in 1..p - 1
        /\ p > 0 /\ ~sent[i].missing => slot.named /\ slot.parts = UpTo(p - 1)
        /\ slot.named /\ sent[i].missing => Len(slot.parts) + 1 < p
        /\ p = 0 => ~sent[i].missing
    <3>1. CASE i \in DOMAIN partial
      <4>1. slot = partial[i]
        BY <3>1 DEF Slot
      <4>2. p = 0 => ~sent[i].missing
        BY <1>s DEF Slotted
      <4> QED
        BY <1>s, <3>1, <4>1, <4>2 DEF Slotted
    <3>2. CASE i \notin DOMAIN partial
      <4>1. slot = [named |-> FALSE, parts |-> << >>]
        BY <3>2 DEF Slot
      <4>2. ~(p > 0 /\ ~sent[i].missing) /\ (p = 0 => ~sent[i].missing)
        BY <1>s, <3>2 DEF Slotted
      <4> QED
        BY <4>1, <4>2
    <3> QED
      BY <3>1, <3>2
  <2>3. CASE p = 0
    <3>1. slot.parts = << >>
      <4>1. slot.parts \in Seq(Nat)
        BY <2>2
      <4>2. \A k \in DOMAIN slot.parts : slot.parts[k] \in 1..0 - 1
        BY <2>2, <2>3
      <4>3. 1 \notin DOMAIN slot.parts
        BY <4>2
      <4> QED
        BY <4>1, <4>3
    <3>2. i \in DOMAIN partial' /\ partial'[i] = [slot EXCEPT !.named = TRUE]
      BY <1>3, <2>3 DEF Accumulate, WithSlot
    <3>3. /\ partial'[i] \in [named : BOOLEAN, parts : Seq(Nat)]
          /\ partial'[i].named /\ partial'[i].parts = << >>
      BY <2>2, <3>1, <3>2
    <3>4. UpTo(0) = << >>
      BY UpToGrows
    <3>5. UpTo(p) = << >>
      BY <2>3, <3>4
    <3>6. DOMAIN partial'[i].parts = {} /\ ~sent'[i].missing
      BY <2>1, <2>2, <2>3, <3>3
    <3> QED
      BY <1>0, <2>1, <3>2, <3>3, <3>5, <3>6, SlottedNext
  <2>4. CASE p # 0
    <3>1. /\ i \in DOMAIN partial' /\ p - 1 \in Nat /\ (p - 1) + 1 = p
          /\ partial'[i] = [slot EXCEPT !.parts = Append(@, p)]
      BY <1>0, <1>3, <2>4 DEF Accumulate, WithSlot
    <3>2. /\ partial'[i] \in [named : BOOLEAN, parts : Seq(Nat)]
          /\ partial'[i].named = slot.named /\ partial'[i].parts = Append(slot.parts, p)
      <4>1. slot.parts \in Seq(Nat)
        BY <2>2
      <4>2. Append(slot.parts, p) \in Seq(Nat)
        BY <1>0, <4>1
      <4> QED
        BY <2>2, <3>1, <4>2
    <3>3. ASSUME NEW k \in DOMAIN partial'[i].parts
          PROVE  partial'[i].parts[k] \in 1..p
      <4>1. \/ k \in DOMAIN slot.parts /\ Append(slot.parts, p)[k] = slot.parts[k]
            \/ Append(slot.parts, p)[k] = p
        BY <1>0, <2>2, <3>2, <3>3
      <4>2. 1..p - 1 \subseteq 1..p /\ p \in 1..p
        BY <1>0, <2>4
      <4> QED
        BY <2>2, <3>2, <4>1, <4>2
    <3>4. ~sent[i].missing => slot.named /\ slot.parts = UpTo(p - 1)
      BY <1>0, <2>2, <2>4
    <3>5. Append(UpTo(p - 1), p) = UpTo(p)
      <4>1. \A q \in Nat : UpTo(q + 1) = Append(UpTo(q), q + 1)
        BY UpToGrows
      <4> QED
        BY <3>1, <4>1
    <3>6. slot.named /\ sent[i].missing => Len(Append(slot.parts, p)) < p
      <4>1. slot.parts \in Seq(Nat)
        BY <2>2
      <4>2. Len(slot.parts) \in Nat /\ Len(Append(slot.parts, p)) = Len(slot.parts) + 1
        BY <1>0, <4>1
      <4>3. slot.named /\ sent[i].missing => Len(slot.parts) + 1 < p
        BY <2>2
      <4> QED
        BY <4>2, <4>3
    <3> QED
      BY <1>0, <2>1, <3>1, <3>2, <3>3, <3>4, <3>5, <3>6, SlottedNext
  <2> QED
    BY <1>3, <2>3, <2>4
<1> QED
  BY <1>0, <1>1, <1>2, <1>3 DEF Fragment, Streamed

\* The slots hold what was sent, at every step.
LEMMA StreamedStep ==
    ASSUME StreamInv, Streamed, [Next]_vars
    PROVE  Streamed'
<1>1. CASE meant' = << >>
  BY <1>1 DEF Streamed
<1>2. ASSUME NEW batch \in Batches, OpenStream(batch)
      PROVE  Streamed'
  <2>1. /\ meant' = batch /\ DOMAIN partial' = {}
        /\ \A i \in DOMAIN batch : sent'[i].pieces = 0 /\ ~sent'[i].missing
    BY <1>2 DEF OpenStream
  <2>2. \A i \in DOMAIN batch : batch[i].parts \in Nat
    BY BoundsAssumption DEF Batches
  <2>3. ASSUME NEW i \in DOMAIN batch
        PROVE  Slotted(i)'
    BY <2>1, <2>2 DEF Slotted
  <2> QED
    BY <2>1, <2>3 DEF Streamed
<1>3. ASSUME NEW i \in DOMAIN meant, Fragment(i)
      PROVE  Streamed'
  BY <1>3, FragmentSlots
<1>4. CASE UNCHANGED streamVars
  BY <1>4 DEF streamVars, Streamed, Slotted
<1> QED
  BY <1>1, <1>2, <1>3, <1>4, StreamChanges DEF vars

----------------------------------------------------------------------------
(* The calls are what was streamed *)

\* How many of S come before i.
Rank(S, i) == Cardinality({j \in S : j < i})

\* Ranks number a finite set of naturals, in its order, from 0.
LEMMA RankNumbers ==
    ASSUME NEW b \in Nat, NEW S, S \subseteq 1..b
    PROVE  /\ Cardinality(S) \in Nat
           /\ \A i \in S : Rank(S, i) \in 0..Cardinality(S) - 1
           /\ \A i, j \in S : i < j => Rank(S, i) < Rank(S, j)
           /\ \A k \in 1..Cardinality(S) : \E i \in S : Rank(S, i) = k - 1
<1> DEFINE Below(i) == {j \in S : j < i}
<1>0. \A i \in S : i \in Nat
  OBVIOUS
<1>1. IsFiniteSet(S) /\ Cardinality(S) \in Nat
  <2>1. IsFiniteSet(1..b)
    BY FS_Interval
  <2> QED
    BY <2>1, FS_Subset, FS_CardinalityType
<1>2. ASSUME NEW T, T \subseteq S
      PROVE  IsFiniteSet(T) /\ Cardinality(T) \in Nat
  BY <1>1, <1>2, FS_Subset, FS_CardinalityType
<1>3. ASSUME NEW T, NEW x \in S, T \subseteq S, x \notin T, NEW U, U \subseteq S,
             T \cup {x} \subseteq U
      PROVE  Cardinality(T) < Cardinality(U)
  <2>1. IsFiniteSet(T) /\ Cardinality(T) \in Nat /\ IsFiniteSet(U) /\ Cardinality(U) \in Nat
    BY <1>2, <1>3
  <2>2. Cardinality(T \cup {x}) = Cardinality(T) + 1
    BY <1>3, <2>1, FS_AddElement
  <2>3. Cardinality(T \cup {x}) <= Cardinality(U)
    BY <1>3, <2>1, FS_Subset
  <2> QED
    BY <2>1, <2>2, <2>3
<1>4. ASSUME NEW i \in S
      PROVE  Rank(S, i) \in 0..Cardinality(S) - 1
  <2>1. i \notin Below(i) /\ Below(i) \cup {i} \subseteq S
    BY <1>0
  <2>2. Cardinality(Below(i)) < Cardinality(S)
    BY <1>3, <2>1
  <2>3. Cardinality(Below(i)) \in Nat
    BY <1>2
  <2> QED
    BY <1>1, <2>2, <2>3 DEF Rank
<1>5. ASSUME NEW i \in S, NEW j \in S, i < j
      PROVE  Rank(S, i) < Rank(S, j)
  <2>1. i \notin Below(i) /\ Below(i) \cup {i} \subseteq Below(j)
    <3>1. \A k \in Below(i) : k \in S /\ k < j
      <4>1. ASSUME NEW k \in Below(i)
            PROVE  k < j
        <5>1. k \in Nat /\ i \in Nat /\ j \in Nat /\ k < i
          BY <1>0
        <5> QED
          BY <1>5, <5>1
      <4> QED
        BY <4>1
    <3>2. i \notin Below(i)
      BY <1>0
    <3>3. i \in Below(j)
      BY <1>5
    <3> QED
      BY <3>1, <3>2, <3>3
  <2> QED
    BY <1>3, <2>1 DEF Rank
<1>6. ASSUME NEW k \in 1..Cardinality(S)
      PROVE  \E i \in S : Rank(S, i) = k - 1
  <2> DEFINE R == 0..Cardinality(S) - 1
             rank == [i \in S |-> Rank(S, i)]
  <2>1. IsFiniteSet(R) /\ Cardinality(R) = Cardinality(S)
    <3>1. /\ 0 \in Int /\ Cardinality(S) - 1 \in Int
          /\ (IF 0 > Cardinality(S) - 1 THEN 0 ELSE (Cardinality(S) - 1) - 0 + 1) = Cardinality(S)
      BY <1>1
    <3> QED
      BY <3>1, FS_Interval
  <2>2. rank \in [S -> R]
    BY <1>4
  <2>3. ASSUME NEW i \in S, NEW j \in S, i # j
        PROVE  rank[i] # rank[j]
    <3>1. i < j \/ j < i
      BY <1>0, <2>3
    <3>2. Rank(S, i) \in Nat /\ Rank(S, j) \in Nat
      BY <1>4
    <3> QED
      BY <1>5, <3>1, <3>2
  <2>4. rank \in Injection(S, R)
    BY <2>2, <2>3 DEF Injection, IsInjective
  <2>5. rank \in Surjection(S, R)
    BY <2>1, <2>4, FS_Injection
  <2>6. k - 1 \in R
    BY <1>1
  <2> QED
    BY <2>5, <2>6 DEF Surjection
<1> QED
  BY <1>1, <1>4, <1>5, <1>6

\* The slots that have a name, and the k-th of them.
Named == {i \in DOMAIN partial : partial[i].named}

NthNamed(k) == CHOOSE i \in Named : Rank(Named, i) = k - 1

\* The calls are those of the named slots, one for each, in their order.
LEMMA FinaliseTakesNamed ==
    ASSUME StreamInv, NEW args
    PROVE  /\ DOMAIN Finalise(args) = 1..Cardinality(Named)
           /\ \A k \in DOMAIN Finalise(args) :
                /\ NthNamed(k) \in Named /\ NthNamed(k) \in DOMAIN meant
                /\ Finalise(args)[k].name = meant[NthNamed(k)].name
                /\ Finalise(args)[k].args = args[NthNamed(k)]
           /\ \A j, k \in DOMAIN Finalise(args) : j < k => NthNamed(j) < NthNamed(k)
           /\ \A i \in Named : \E k \in DOMAIN Finalise(args) : NthNamed(k) = i
<1> DEFINE c == Cardinality(Named)
<1>1. Finalise(args) = [k \in 1..c |->
                    [n |-> count + k, name |-> meant[NthNamed(k)].name,
                     args |-> args[NthNamed(k)]]]
  BY DEF Finalise, NthNamed, Named, Rank
<1>2. Len(meant) \in Nat /\ DOMAIN meant = 1..Len(meant) /\ Named \subseteq DOMAIN meant
  BY DEF StreamInv, Named
<1>3. /\ c \in Nat
      /\ \A i \in Named : Rank(Named, i) \in 0..c - 1
      /\ \A i, j \in Named : i < j => Rank(Named, i) < Rank(Named, j)
      /\ \A k \in 1..c : \E i \in Named : Rank(Named, i) = k - 1
  BY <1>2, RankNumbers
<1>4. \A i \in Named : i \in Nat
  BY <1>2
<1>5. ASSUME NEW k \in 1..c
      PROVE  NthNamed(k) \in Named /\ Rank(Named, NthNamed(k)) = k - 1
  BY <1>3 DEF NthNamed
<1>6. ASSUME NEW j \in 1..c, NEW k \in 1..c, j < k
      PROVE  NthNamed(j) < NthNamed(k)
  <2>1. SUFFICES ASSUME ~(NthNamed(j) < NthNamed(k))
                 PROVE  FALSE
    OBVIOUS
  <2>2. Rank(Named, NthNamed(j)) = j - 1 /\ Rank(Named, NthNamed(k)) = k - 1
    BY <1>5
  <2>3. NthNamed(k) < NthNamed(j) \/ NthNamed(k) = NthNamed(j)
    BY <1>4, <1>5, <2>1
  <2>4. k - 1 < j - 1 \/ k - 1 = j - 1
    BY <1>3, <1>5, <2>2, <2>3
  <2> QED
    BY <1>3, <1>6, <2>4
<1>7. ASSUME NEW i \in Named
      PROVE  \E k \in 1..c : NthNamed(k) = i
  <2> DEFINE k == Rank(Named, i) + 1
  <2>1. k \in 1..c /\ Rank(Named, i) = k - 1
    BY <1>3
  <2>2. NthNamed(k) \in Named /\ Rank(Named, NthNamed(k)) = Rank(Named, i)
    BY <1>5, <2>1
  <2>3. Rank(Named, i) \in Nat
    BY <1>3
  <2>4. NthNamed(k) \in Nat /\ i \in Nat
    BY <1>4, <2>2
  <2>5. ~(NthNamed(k) < i) /\ ~(i < NthNamed(k))
    BY <1>3, <2>2, <2>3
  <2>6. NthNamed(k) = i
    BY <2>4, <2>5
  <2> QED
    BY <2>1, <2>6
<1> QED
  BY <1>1, <1>2, <1>5, <1>6, <1>7

\* Parts cut short are no object, and all of them are the whole.
LEMMA CutShort ==
    ASSUME NEW p \in 0..ArgParts, ArgParts \in Nat
    PROVE  ParsedArguments(UpTo(p)) = IF p = ArgParts THEN {"whole"} ELSE {"none"}
<1> DEFINE all == [k \in 1..ArgParts |-> k]
<1>1. CASE p = ArgParts
  BY <1>1 DEF ParsedArguments, UpTo
<1>2. CASE p # ArgParts
  <2>1. /\ UpTo(p) \in Seq(Nat) /\ all \in Seq(Nat) /\ Len(UpTo(p)) = p /\ Len(all) = ArgParts
        /\ p \in Nat /\ p <= ArgParts
    BY DEF UpTo
  <2>2. UpTo(p) # all
    BY <1>2, <2>1
  <2>3. SubSeq(UpTo(p), 1, p) = SubSeq(all, 1, p)
    <3>1. SubSeq(UpTo(p), 1, p) = [k \in 1..p |-> UpTo(p)[k]]
      BY <2>1
    <3>2. SubSeq(all, 1, p) = [k \in 1..p |-> all[k]]
      BY <2>1
    <3>3. \A k \in 1..p : UpTo(p)[k] = k /\ all[k] = k
      BY <2>1 DEF UpTo
    <3> QED
      BY <3>1, <3>2, <3>3
  <2>4. IsPrefix(UpTo(p), all)
    BY <2>1, <2>3 DEF IsPrefix
  <2> QED
    BY <1>2, <2>2, <2>4 DEF ParsedArguments
<1> QED
  BY <1>1, <1>2

\* A slot that has all of its call has its name, and the arguments the call has; they are
\* others only if a fragment was lost.
LEMMA SlotMeans ==
    ASSUME StreamInv, Streamed, NEW i \in DOMAIN meant, NEW args \in Readings
    PROVE  /\ Complete(i) => i \in Named
           /\ i \in Named => /\ args[i] = "whole" <=> Complete(i) /\ meant[i].parts > 0
                             /\ args[i] = "mangled" => sent[i].missing
<1>1. /\ Slotted(i)
      /\ meant[i].parts \in {0, ArgParts} /\ ArgParts \in Nat \ {0} /\ meant[i].parts \in Nat
      /\ sent[i].pieces \in Nat /\ sent[i].missing \in BOOLEAN
  BY MeantParts DEF Streamed
<1>2. i \in Named =>
        /\ i \in DOMAIN partial /\ partial[i].named /\ partial[i].parts \in Seq(Nat)
        /\ Len(partial[i].parts) \in Nat
        /\ args[i] \in ParsedArguments(partial[i].parts)
        /\ sent[i].pieces > 0
  <2>1. i \in Named => partial[i].parts \in Seq(Nat)
    BY <1>1 DEF Named, Slotted
  <2> QED
    BY <1>1, <2>1 DEF Named, Readings, Slotted
<1>3. ASSUME sent[i].pieces > 0, ~sent[i].missing
      PROVE  /\ i \in Named /\ partial[i].parts = UpTo(sent[i].pieces - 1)
             /\ sent[i].pieces - 1 \in 0..ArgParts
  BY <1>1, <1>3 DEF Slotted, Named
<1>4. Complete(i) => i \in Named
  BY <1>1, <1>3 DEF Complete
<1>5. ASSUME i \in Named, ~sent[i].missing
      PROVE  args[i] = IF sent[i].pieces - 1 = ArgParts THEN "whole" ELSE "none"
  BY <1>1, <1>2, <1>3, <1>5, CutShort
<1>6. ASSUME i \in Named, sent[i].missing
      PROVE  args[i] # "whole"
  <2>1. Len(partial[i].parts) + 1 < sent[i].pieces /\ sent[i].pieces <= meant[i].parts + 1
    BY <1>1, <1>2, <1>6 DEF Slotted
  <2>2. Len(partial[i].parts) < ArgParts
    BY <1>1, <1>2, <1>6, <2>1
  <2>3. Len([k \in 1..ArgParts |-> k]) = ArgParts
    BY <1>1
  <2>4. partial[i].parts # [k \in 1..ArgParts |-> k]
    BY <1>1, <2>2, <2>3
  <2> QED
    BY <1>2, <1>6, <2>4 DEF ParsedArguments
<1>7. ASSUME i \in Named, ~sent[i].missing
      PROVE  sent[i].pieces - 1 = ArgParts <=> Complete(i) /\ meant[i].parts > 0
  BY <1>1, <1>2, <1>7 DEF Complete, Slotted
<1>8. ASSUME i \in Named
      PROVE  /\ args[i] = "whole" <=> Complete(i) /\ meant[i].parts > 0
             /\ args[i] = "mangled" => sent[i].missing
  <2>1. CASE sent[i].missing
    BY <1>6, <1>8, <2>1 DEF Complete
  <2>2. CASE ~sent[i].missing
    BY <1>5, <1>7, <1>8, <2>2
  <2> QED
    BY <1>1, <2>1, <2>2
<1> QED
  BY <1>4, <1>8

\* Only the end of the stream leads from it to the calls.
LEMMA CallsFromStream ==
    ASSUME TypeInv, Next, pc = "streaming", pc' \in {"dispatching", "done"}
    PROVE  StreamEnds
<1>1. ~ServerNext
  BY DEF ServerNext, RegisterNext, StartDatabase, TypeInv, ServerInv
<1>2. ~SessionNext
  BY DEF SessionNext, OpenConversation, CloseConversation, SocketGone, BuildAgent, Session
<1>3. ~CallNext
  BY DEF CallNext, UnknownTool, Dispatch, Approve, Decline, CancelAtGate, RefuseArguments,
         HandlerReturns, HandlerRaises, HandlerActs, AnswerArrives, AnswerLost, RecordAction,
         Session
<1>4. TurnNext => StreamEnds
  BY DEF TurnNext, TakeTurn, RecordUserMessage, RecallMemories, TurnRaises, EndTurn, Interrupt,
         StreamCancelled, StreamText, StubReplies, OpenStream, Fragment, NextRound,
         RoundsExhausted, AbandonTurn, Session
<1> QED
  BY <1>1, <1>2, <1>3, <1>4 DEF Next

\* Whatever fragments came, in whatever order, the calls that are dispatched are calls the
\* model means, with the arguments it means once all of them came; with other arguments
\* only where a chunk was skipped (IlmuLLM.stream, _accumulate_tool_call,
\* _finalise_tool_calls).
THEOREM StreamedCalls == Spec => CallsAsStreamed
<1>1. Init => Streamed
  BY DEF Init, Streamed
<1>2. TypeInv /\ Streamed /\ [Next]_vars => Streamed'
  BY StreamedStep DEF TypeInv
<1>3. TypeInv /\ Streamed /\ [Next]_vars =>
        [pc = "streaming" /\ pc' \in {"dispatching", "done"} =>
         LET whole == {i \in DOMAIN meant : Complete(i)}
             Means(call, i) ==
                /\ call.name = meant[i].name
                /\ call.args = "whole" <=> i \in whole /\ meant[i].parts > 0
                /\ call.args = "mangled" => sent[i].missing
         IN  \E of \in [DOMAIN calls' -> DOMAIN meant] :
               /\ \A j, k \in DOMAIN calls' : j < k => of[j] < of[k]
               /\ \A k \in DOMAIN calls' : Means(calls'[k], of[k])
               /\ \A i \in whole : \E k \in DOMAIN calls' : of[k] = i]_vars
  <2> SUFFICES ASSUME TypeInv, Streamed, Next,
                      pc = "streaming", pc' \in {"dispatching", "done"}
               PROVE  \E of \in [DOMAIN calls' -> DOMAIN meant] :
                        /\ \A j, k \in DOMAIN calls' : j < k => of[j] < of[k]
                        /\ \A k \in DOMAIN calls' :
                             /\ calls'[k].name = meant[of[k]].name
                             /\ calls'[k].args = "whole" <=>
                                  of[k] \in {i \in DOMAIN meant : Complete(i)}
                                    /\ meant[of[k]].parts > 0
                             /\ calls'[k].args = "mangled" => sent[of[k]].missing
                        /\ \A i \in {j \in DOMAIN meant : Complete(j)} :
                             \E k \in DOMAIN calls' : of[k] = i
    OBVIOUS
  <2>1. PICK args \in Readings : calls' = Finalise(args)
    BY CallsFromStream DEF StreamEnds, Announce
  <2>2. StreamInv
    BY DEF TypeInv
  <2> DEFINE of == [k \in DOMAIN calls' |-> NthNamed(k)]
  <2>3. of \in [DOMAIN calls' -> DOMAIN meant]
    BY <2>1, <2>2, FinaliseTakesNamed
  <2>4. \A j, k \in DOMAIN calls' : j < k => of[j] < of[k]
    BY <2>1, <2>2, FinaliseTakesNamed
  <2>5. ASSUME NEW k \in DOMAIN calls'
        PROVE  /\ calls'[k].name = meant[of[k]].name
               /\ calls'[k].args = "whole" <=>
                    of[k] \in {i \in DOMAIN meant : Complete(i)} /\ meant[of[k]].parts > 0
               /\ calls'[k].args = "mangled" => sent[of[k]].missing
    <3>1. /\ of[k] \in Named /\ of[k] \in DOMAIN meant
          /\ calls'[k].name = meant[of[k]].name /\ calls'[k].args = args[of[k]]
      BY <2>1, <2>2, FinaliseTakesNamed
    <3>2. /\ args[of[k]] = "whole" <=> Complete(of[k]) /\ meant[of[k]].parts > 0
          /\ args[of[k]] = "mangled" => sent[of[k]].missing
      BY <2>1, <2>2, <3>1, SlotMeans
    <3> QED
      BY <3>1, <3>2
  <2>6. ASSUME NEW i \in DOMAIN meant, Complete(i)
        PROVE  \E k \in DOMAIN calls' : of[k] = i
    <3>1. i \in Named
      BY <2>1, <2>2, <2>6, SlotMeans
    <3> QED
      BY <2>1, <2>2, <3>1, FinaliseTakesNamed
  <2> QED
    BY <2>3, <2>4, <2>5, <2>6
<1> QED
  BY <1>1, <1>2, <1>3, TypeInvHolds, PTL DEF Spec, CallsAsStreamed

----------------------------------------------------------------------------
(* The folds *)

\* What the recursion of FlattenSeq says of g, up to n.
Flattens(g, seqs, n) ==
    g = [i \in 1..n |-> IF i = 1 THEN seqs[i] ELSE g[i - 1] \o seqs[i]]

LEMMA FlattensNext ==
    ASSUME NEW n \in Nat, NEW g, NEW seqs, Flattens(g, seqs, n), NEW k \in 1..n - 1
    PROVE  g[k + 1] = g[k] \o seqs[k + 1]
<1>1. k + 1 \in 1..n /\ k + 1 # 1 /\ (k + 1) - 1 = k
  OBVIOUS
<1> QED
  BY <1>1 DEF Flattens

\* There is such a g, so that FlattenSeq adds one sequence after the other.
LEMMA FlattenEquations ==
    ASSUME NEW n \in Nat, n # 0, NEW seqs, Len(seqs) = n
    PROVE  \E g : FlattenSeq(seqs) = g[n] /\ Flattens(g, seqs, n)
<1> DEFINE T == {k \in 0..n : \E g : Flattens(g, seqs, k)}
<1>1. 0 \in T
  <2> DEFINE g == [i \in 1..0 |-> seqs[i]]
  <2>1. Flattens(g, seqs, 0)
    BY DEF Flattens
  <2> QED
    BY <2>1
<1>2. ASSUME NEW k \in 0..n - 1, k \in T
      PROVE  k + 1 \in T
  <2>1. PICK g : Flattens(g, seqs, k)
    BY <1>2
  <2> DEFINE h == [i \in 1..k + 1 |-> IF i = 1 THEN seqs[i] ELSE g[i - 1] \o seqs[i]]
  <2>2. ASSUME NEW i \in 1..k + 1, i # 1
        PROVE  g[i - 1] = h[i - 1]
    <3>1. i - 1 \in 1..k /\ i - 1 \in 1..k + 1
      BY <2>2
    <3>2. g[i - 1] = (IF i - 1 = 1 THEN seqs[i - 1] ELSE g[(i - 1) - 1] \o seqs[i - 1])
      BY <2>1, <3>1 DEF Flattens
    <3> QED
      BY <3>1, <3>2
  <2>3. Flattens(h, seqs, k + 1)
    BY <2>2 DEF Flattens
  <2>4. k + 1 \in 0..n
    OBVIOUS
  <2> QED
    BY <2>3, <2>4
<1>3. n \in T
  <2>1. 0..n \subseteq T
    BY <1>1, <1>2, UpToNat
  <2> QED
    BY <2>1
<1> DEFINE g == CHOOSE h : Flattens(h, seqs, n)
<1>4. Flattens(g, seqs, n)
  BY <1>3
<1>5. FlattenSeq(seqs) = g[n]
  BY DEF FlattenSeq, Flattens
<1> HIDE DEF g
<1> QED
  BY <1>4, <1>5

NoNames == [name \in {} |-> {}]

\* What the recursion of the fold of Expose says of g, on sets up to n.
Exposes(g, tools, n) ==
    g = [s \in SUBSET (1..n) |->
           IF s = {} THEN NoNames ELSE Expose(g[s \ {Max(s)}], tools[Max(s)])]

LEMMA MaxIsGreatest ==
    ASSUME NEW n \in Nat, NEW s, s \subseteq 1..n, s # {}
    PROVE  Max(s) \in s /\ \A x \in s : x <= Max(s)
<1>1. s \subseteq 0..n
  OBVIOUS
<1>2. \E x \in s : \A y \in s : y <= x
  BY <1>1, GreatestNat
<1>3. \E x \in s : \A y \in s : x >= y
  <2>1. \A x, y \in s : x \in Nat /\ y \in Nat
    OBVIOUS
  <2> QED
    BY <1>2, <2>1
<1>4. Max(s) \in s /\ \A y \in s : Max(s) >= y
  BY <1>3 DEF Max
<1>5. \A x \in s : x \in Nat
  OBVIOUS
<1> QED
  BY <1>4, <1>5

\* There is such a g, so that the fold exposes one tool after the other.
LEMMA ExposeEquations ==
    ASSUME NEW n \in Nat, NEW tools, DOMAIN tools = 1..n
    PROVE  \E f : /\ FoldLeft(Expose, NoNames, tools) = f[n] /\ f[0] = NoNames
                  /\ \A k \in 0..n - 1 : f[k + 1] = Expose(f[k], tools[k + 1])
<1> DEFINE T == {k \in 0..n : \E g : Exposes(g, tools, k)}
<1>1. 0 \in T
  <2> DEFINE g == [s \in SUBSET (1..0) |-> NoNames]
  <2>1. \A s \in SUBSET (1..0) : s = {}
    OBVIOUS
  <2>2. Exposes(g, tools, 0)
    BY <2>1 DEF Exposes
  <2> QED
    BY <2>2
<1>2. ASSUME NEW k \in 0..n - 1, k \in T
      PROVE  k + 1 \in T
  <2>1. PICK g : Exposes(g, tools, k)
    BY <1>2
  <2> DEFINE h == [s \in SUBSET (1..k + 1) |->
                     IF s = {} THEN NoNames
                     ELSE Expose(g[s \ {Max(s)}], tools[Max(s)])]
  <2>2. ASSUME NEW s \in SUBSET (1..k + 1), s # {}
        PROVE  g[s \ {Max(s)}] = h[s \ {Max(s)}]
    <3> DEFINE r == s \ {Max(s)}
    <3>1. Max(s) \in s /\ \A x \in s : x <= Max(s)
      <4>1. k + 1 \in Nat
        OBVIOUS
      <4> QED
        BY <2>2, <4>1, MaxIsGreatest
    <3>2. r \in SUBSET (1..k)
      <4>1. ASSUME NEW x \in r
            PROVE  x \in 1..k
        <5>1. x \in 1..k + 1 /\ Max(s) \in 1..k + 1 /\ x <= Max(s) /\ x # Max(s)
          BY <3>1
        <5> QED
          BY <5>1
      <4> QED
        BY <4>1
    <3>3. r \in SUBSET (1..k + 1)
      OBVIOUS
    <3>4. g[r] = IF r = {} THEN NoNames ELSE Expose(g[r \ {Max(r)}], tools[Max(r)])
      BY <2>1, <3>2 DEF Exposes
    <3> QED
      BY <3>3, <3>4
  <2>3. Exposes(h, tools, k + 1)
    BY <2>2 DEF Exposes
  <2>4. k + 1 \in 0..n
    OBVIOUS
  <2> QED
    BY <2>3, <2>4
<1>3. n \in T
  <2>1. 0..n \subseteq T
    BY <1>1, <1>2, UpToNat
  <2> QED
    BY <2>1
<1> DEFINE g == CHOOSE h : Exposes(h, tools, n)
           f == [k \in 0..n |-> g[1..k]]
<1>4. Exposes(g, tools, n)
  BY <1>3
<1>5. FoldLeft(Expose, NoNames, tools) = g[1..n]
  BY DEF FoldLeft, MapThenFoldSet, Exposes
<1> HIDE DEF g
<1>6. f[0] = NoNames
  <2>1. 1..0 = {}
    OBVIOUS
  <2> QED
    BY <1>4, <2>1 DEF Exposes
<1>7. ASSUME NEW k \in 0..n - 1
      PROVE  f[k + 1] = Expose(f[k], tools[k + 1])
  <2> DEFINE s == 1..k + 1
  <2>1. s \in SUBSET (1..n) /\ s # {} /\ k \in 0..n /\ k + 1 \in 0..n /\ k + 1 \in Nat
    OBVIOUS
  <2>2. Max(s) = k + 1
    <3>1. Max(s) \in s /\ \A x \in s : x <= Max(s)
      BY <2>1, MaxIsGreatest
    <3> QED
      BY <3>1
  <2>3. s \ {k + 1} = 1..k
    OBVIOUS
  <2>4. g[s] = Expose(g[s \ {Max(s)}], tools[Max(s)])
    BY <1>4, <2>1 DEF Exposes
  <2> QED
    BY <2>1, <2>2, <2>3, <2>4
<1>8. FoldLeft(Expose, NoNames, tools) = f[n]
  BY <1>5
<1> HIDE DEF f
<1> QED
  BY <1>6, <1>7, <1>8

----------------------------------------------------------------------------
(* The names *)

\* A registry as the server fills it.
Registered(connectors) ==
    /\ connectors \in Seq(Installable)
    /\ \A i \in DOMAIN connectors : IsValid(connectors[i])
    /\ \A i, j \in DOMAIN connectors : i # j => connectors[i].key # connectors[j].key

\* The j-th tool of the i-th connector.
Entry(connectors, i, j) == [key |-> connectors[i].key, tool |-> connectors[i].tools[j]]

\* Tools of a sequence are told apart by key and name.
Apart(tools) ==
    \A k, l \in DOMAIN tools :
       k # l => tools[k].key # tools[l].key \/ tools[k].tool.name # tools[l].tool.name

\* The tools of connectors up to the n-th.
FromFirst(connectors, tools, n) ==
    /\ IsSeq(tools) /\ Apart(tools)
    /\ \A k \in DOMAIN tools : \E i \in 1..n : \E j \in DOMAIN connectors[i].tools :
          tools[k] = Entry(connectors, i, j)

\* Concatenation of sequences of any elements.
Joins(u, s, t) == u = s \o t

LEMMA ConcatIsSeq ==
    ASSUME NEW s, NEW t, IsSeq(s), IsSeq(t), NEW u, Joins(u, s, t)
    PROVE  /\ IsSeq(u) /\ Len(s) \in Nat /\ DOMAIN s = 1..Len(s)
           /\ \A k \in DOMAIN u :
                \/ k \in DOMAIN s /\ u[k] = s[k]
                \/ k - Len(s) \in DOMAIN t /\ k \notin DOMAIN s /\ u[k] = t[k - Len(s)]
<1>1. PICK S, T : s \in Seq(S) /\ t \in Seq(T)
  BY DEF IsSeq
<1> DEFINE U == S \cup T
<1>2. s \in Seq(U) /\ t \in Seq(U)
  <2>1. /\ s \in [1..Len(s) -> S] /\ Len(s) \in Nat
        /\ t \in [1..Len(t) -> T] /\ Len(t) \in Nat
    BY <1>1
  <2>2. s \in [1..Len(s) -> U] /\ t \in [1..Len(t) -> U]
    BY <2>1
  <2> QED
    BY <2>1, <2>2
<1>j. u = s \o t
  BY DEF Joins
<1>3. /\ u \in Seq(U) /\ Len(u) = Len(s) + Len(t)
      /\ Len(s) \in Nat /\ Len(t) \in Nat /\ DOMAIN s = 1..Len(s) /\ DOMAIN t = 1..Len(t)
      /\ \A k \in 1..Len(s) + Len(t) :
           u[k] = IF k <= Len(s) THEN s[k] ELSE t[k - Len(s)]
  BY <1>2, <1>j
<1>4. IsSeq(u)
  BY <1>3 DEF IsSeq
<1>5. DOMAIN u = 1..Len(s) + Len(t)
  BY <1>3
<1>6. ASSUME NEW k \in DOMAIN u
      PROVE  \/ k \in DOMAIN s /\ u[k] = s[k]
             \/ k - Len(s) \in DOMAIN t /\ k \notin DOMAIN s /\ u[k] = t[k - Len(s)]
  <2>1. k \in 1..Len(s) + Len(t)
    BY <1>5
  <2>2. k <= Len(s) => k \in DOMAIN s /\ u[k] = s[k]
    BY <1>3, <2>1
  <2>3. ~(k <= Len(s)) => k - Len(s) \in DOMAIN t /\ k \notin DOMAIN s /\ u[k] = t[k - Len(s)]
    BY <1>3, <2>1
  <2> QED
    BY <2>2, <2>3
<1> QED
  BY <1>3, <1>4, <1>6

\* The tools of one more connector stay apart from the ones before.
LEMMA OneMoreConnector ==
    ASSUME NEW connectors, Registered(connectors), NEW n \in Nat,
           n + 1 \in DOMAIN connectors, 1..n \subseteq DOMAIN connectors,
           NEW before, FromFirst(connectors, before, n), NEW more,
           more = [j \in DOMAIN connectors[n + 1].tools |-> Entry(connectors, n + 1, j)],
           NEW tools, Joins(tools, before, more)
    PROVE  FromFirst(connectors, tools, n + 1)
<1>1. IsSeq(more)
  <2>1. connectors[n + 1] \in Installable
    BY DEF Registered
  <2>2. PICK m \in Nat : DOMAIN connectors[n + 1].tools = 1..m
    BY <2>1, ConnectorsAssumption
  <2> QED
    BY <2>2, FunctionIsSeq
<1>2. IsSeq(before)
  BY DEF FromFirst
<1>3. /\ IsSeq(tools)
      /\ \A k \in DOMAIN tools :
           \/ k \in DOMAIN before /\ tools[k] = before[k]
           \/ k - Len(before) \in DOMAIN more /\ k \notin DOMAIN before
                /\ tools[k] = more[k - Len(before)]
      /\ Len(before) \in Nat
  BY <1>1, <1>2, ConcatIsSeq
<1>4. \A k \in DOMAIN tools : k \in Nat
  BY <1>3 DEF IsSeq
<1>5. ASSUME NEW k \in DOMAIN before
      PROVE  \E i \in 1..n : /\ before[k].key = connectors[i].key /\ i \in 1..n + 1
                             /\ \E j \in DOMAIN connectors[i].tools :
                                  before[k] = Entry(connectors, i, j)
  BY DEF FromFirst, Entry
<1>6. ASSUME NEW j \in DOMAIN more
      PROVE  /\ more[j] = Entry(connectors, n + 1, j) /\ j \in DOMAIN connectors[n + 1].tools
             /\ more[j].key = connectors[n + 1].key
             /\ more[j].tool.name = connectors[n + 1].tools[j].name
  BY DEF Entry
<1>7. ASSUME NEW k \in DOMAIN before, NEW j \in DOMAIN more
      PROVE  before[k].key # more[j].key
  <2>1. PICK i \in 1..n : before[k].key = connectors[i].key
    BY <1>5
  <2>2. i # n + 1 /\ i \in DOMAIN connectors
    OBVIOUS
  <2>3. connectors[i].key # connectors[n + 1].key
    BY <2>2 DEF Registered
  <2> QED
    BY <1>6, <2>1, <2>3
<1>8. ASSUME NEW i \in DOMAIN more, NEW j \in DOMAIN more, i # j
      PROVE  more[i].tool.name # more[j].tool.name
  <2>1. IsValid(connectors[n + 1])
    BY DEF Registered
  <2>2. connectors[n + 1].tools[i].name # connectors[n + 1].tools[j].name
    BY <1>6, <1>8, <2>1 DEF IsValid
  <2> QED
    BY <1>6, <2>2
<1>9. ASSUME NEW k \in DOMAIN tools, NEW l \in DOMAIN tools, k # l
      PROVE  tools[k].key # tools[l].key \/ tools[k].tool.name # tools[l].tool.name
  <2>1. CASE k \in DOMAIN before /\ l \in DOMAIN before
    BY <1>3, <1>9, <2>1 DEF FromFirst, Apart
  <2>2. CASE k \in DOMAIN before /\ l \notin DOMAIN before
    BY <1>3, <1>7, <2>2
  <2>3. CASE k \notin DOMAIN before /\ l \in DOMAIN before
    BY <1>3, <1>7, <2>3
  <2>4. CASE k \notin DOMAIN before /\ l \notin DOMAIN before
    <3> DEFINE i == k - Len(before)
               j == l - Len(before)
    <3>1. i # j
      BY <1>3, <1>4, <1>9
    <3>2. /\ i \in DOMAIN more /\ tools[k] = more[i]
          /\ j \in DOMAIN more /\ tools[l] = more[j]
      BY <1>3, <2>4
    <3> HIDE DEF i, j
    <3> QED
      BY <1>8, <3>1, <3>2
  <2> QED
    BY <2>1, <2>2, <2>3, <2>4
<1>10. ASSUME NEW k \in DOMAIN tools
       PROVE  \E i \in 1..n + 1 : \E j \in DOMAIN connectors[i].tools :
                 tools[k] = Entry(connectors, i, j)
  <2>1. n + 1 \in 1..n + 1
    OBVIOUS
  <2>2. CASE k \in DOMAIN before
    BY <1>3, <1>5, <2>2
  <2>3. CASE k \notin DOMAIN before
    <3> DEFINE j == k - Len(before)
    <3>1. j \in DOMAIN more /\ tools[k] = more[j]
      BY <1>3, <2>3
    <3> HIDE DEF j
    <3> QED
      BY <1>6, <2>1, <3>1
  <2> QED
    BY <2>2, <2>3
<1> QED
  BY <1>3, <1>9, <1>10 DEF FromFirst, Apart

\* All tools come from a connector, no two of one key and name.
LEMMA AllToolsApart ==
    ASSUME NEW connectors, Registered(connectors)
    PROVE  FromFirst(connectors, AllTools(connectors), Len(connectors))
<1> DEFINE n == Len(connectors)
           seqs == [i \in DOMAIN connectors |->
                      [j \in DOMAIN connectors[i].tools |-> Entry(connectors, i, j)]]
<1>1. n \in Nat /\ DOMAIN connectors = 1..n
  BY DEF Registered
<1>2. Len(seqs) = n /\ AllTools(connectors) = FlattenSeq(seqs)
  <2>1. Len(seqs) = n
    BY <1>1, FunctionIsSeq
  <2> QED
    BY <2>1 DEF AllTools, Entry
<1>s. \A i \in DOMAIN connectors :
        seqs[i] = [j \in DOMAIN connectors[i].tools |-> Entry(connectors, i, j)]
  OBVIOUS
<1>e. FromFirst(connectors, << >>, 0)
  BY DEF FromFirst, Apart, IsSeq
<1>3. CASE n = 0
  <2>1. seqs = << >>
    BY <1>1, <1>3
  <2>2. FlattenSeq(seqs) = seqs
    BY <1>2, <1>3 DEF FlattenSeq
  <2> QED
    BY <1>2, <1>3, <1>e, <2>1, <2>2
<1>4. CASE n # 0
  <2> HIDE DEF seqs
  <2>1. PICK g : FlattenSeq(seqs) = g[n] /\ Flattens(g, seqs, n)
    BY <1>1, <1>2, <1>4, FlattenEquations
  <2>f. g[1] = seqs[1]
    <3>1. 1 \in 1..n
      BY <1>1, <1>4
    <3> QED
      BY <2>1, <3>1 DEF Flattens
  <2> DEFINE T == {k \in 0..n : k # 0 => FromFirst(connectors, g[k], k)}
  <2>2. ASSUME NEW k \in 0..n - 1, k \in T
        PROVE  k + 1 \in T
    <3>1. /\ k \in Nat /\ k + 1 \in DOMAIN connectors /\ 1..k \subseteq DOMAIN connectors
          /\ k + 1 \in 0..n
      BY <1>1
    <3>2. seqs[k + 1] = [j \in DOMAIN connectors[k + 1].tools |-> Entry(connectors, k + 1, j)]
      BY <1>s, <3>1
    <3>3. CASE k = 0
      <4>1. FromFirst(connectors, seqs[1], 0 + 1)
        <5>1. /\ seqs[1] = [j \in DOMAIN connectors[0 + 1].tools |-> Entry(connectors, 0 + 1, j)]
              /\ 0 \in Nat /\ 0 + 1 \in DOMAIN connectors /\ 1..0 \subseteq DOMAIN connectors
          BY <3>1, <3>2, <3>3
        <5>2. IsSeq(seqs[1])
          <6>1. connectors[1] \in Installable
            BY <3>1, <3>3 DEF Registered
          <6>2. PICK m \in Nat : DOMAIN connectors[1].tools = 1..m
            BY <6>1, ConnectorsAssumption
          <6> QED
            BY <5>1, <6>2, FunctionIsSeq
        <5>3. Joins(seqs[1], << >>, seqs[1])
          BY <5>2 DEF IsSeq, Joins
        <5> QED
          BY <1>e, <5>1, <5>3, OneMoreConnector
      <4> QED
        BY <2>f, <3>1, <3>3, <4>1
    <3>4. CASE k # 0
      <4>1. FromFirst(connectors, g[k], k) /\ Joins(g[k + 1], g[k], seqs[k + 1])
        <5>1. k \in 1..n - 1
          BY <1>1, <3>4
        <5>2. FromFirst(connectors, g[k], k)
          BY <2>2, <3>4
        <5> QED
          BY <1>1, <2>1, <5>1, <5>2, FlattensNext DEF Joins
      <4>2. FromFirst(connectors, g[k + 1], k + 1)
        BY <3>1, <3>2, <4>1, OneMoreConnector
      <4> QED
        BY <3>1, <4>2
    <3> QED
      BY <3>3, <3>4
  <2>3. 0 \in T
    BY <1>1
  <2>4. n \in T
    <3>1. 0..n \subseteq T
      BY <1>1, <2>2, <2>3, UpToNat
    <3> QED
      BY <1>1, <3>1
  <2> QED
    BY <1>2, <1>4, <2>1, <2>4
<1> QED
  BY <1>3, <1>4

\* No prefixed name of a tool is a name of another.
NamesOf(t) == {t.tool.name, Namespaced(t.key, t.tool.name)}

PrefixesApart(tools) ==
    \A k, l \in DOMAIN tools :
       LET prefixed == Namespaced(tools[k].key, tools[k].tool.name)
       IN  /\ prefixed # tools[l].tool.name
           /\ prefixed = Namespaced(tools[l].key, tools[l].tool.name) => k = l

\* The first k tools are exposed, each under one name, the first of a name under it.
Resolved(resolved, tools, k) ==
    /\ \A n \in DOMAIN resolved :
          \E j \in 1..k : resolved[n] = tools[j] /\ n \in NamesOf(tools[j])
    /\ \A j \in 1..k : \E n \in DOMAIN resolved :
          /\ resolved[n] = tools[j]
          /\ \A m \in DOMAIN resolved : resolved[m] = tools[j] => m = n
    /\ \A j \in 1..k : /\ tools[j].tool.name \in DOMAIN resolved
                       /\ \E i \in 1..j : resolved[tools[j].tool.name] = tools[i]

\* The name that a tool is exposed under is new.
LEMMA ExposeResolves ==
    ASSUME NEW tools, Apart(tools), PrefixesApart(tools), NEW n \in Nat, DOMAIN tools = 1..n,
           NEW k \in 0..n - 1, NEW resolved, Resolved(resolved, tools, k)
    PROVE  Resolved(Expose(resolved, tools[k + 1]), tools, k + 1)
<1> DEFINE t == tools[k + 1]
           bare == t.tool.name
           name == IF bare \in DOMAIN resolved THEN Namespaced(t.key, bare) ELSE bare
           new == Expose(resolved, t)
<1>0. /\ k + 1 \in DOMAIN tools /\ k + 1 \in 1..k + 1 /\ k + 1 \notin 1..k
      /\ 1..k \subseteq DOMAIN tools /\ 1..k \subseteq 1..k + 1
      /\ 1..k + 1 = (1..k) \cup {k + 1}
  OBVIOUS
<1>1. ASSUME NEW i \in 1..k + 1, NEW j \in 1..k + 1, tools[i] = tools[j]
      PROVE  i = j
  <2>1. i \in DOMAIN tools /\ j \in DOMAIN tools
    BY <1>0
  <2> QED
    BY <1>1, <2>1 DEF Apart
<1>2. name \notin DOMAIN resolved /\ name \in NamesOf(t)
  <2>1. ASSUME bare \in DOMAIN resolved, Namespaced(t.key, bare) \in DOMAIN resolved
        PROVE  FALSE
    <3>1. PICK j \in 1..k : Namespaced(t.key, bare) \in NamesOf(tools[j])
      BY <2>1 DEF Resolved
    <3>2. j \in DOMAIN tools /\ j # k + 1
      BY <1>0
    <3> QED
      BY <1>0, <3>1, <3>2 DEF NamesOf, PrefixesApart
  <2> QED
    BY <2>1 DEF NamesOf
<1>3. /\ DOMAIN new = DOMAIN resolved \cup {name} /\ new[name] = t
      /\ \A n0 \in DOMAIN resolved : new[n0] = resolved[n0]
  BY <1>2 DEF Expose
<1>4. \A n0 \in DOMAIN resolved : \E j \in 1..k : resolved[n0] = tools[j] /\ n0 \in NamesOf(tools[j])
  BY DEF Resolved
<1> HIDE DEF name, new
<1>5. ASSUME NEW m \in DOMAIN new
      PROVE  \E j \in 1..k + 1 : new[m] = tools[j] /\ m \in NamesOf(tools[j])
  <2>1. CASE m \in DOMAIN resolved
    BY <1>0, <1>3, <1>4, <2>1
  <2>2. CASE m = name
    BY <1>0, <1>2, <1>3, <2>2
  <2> QED
    BY <1>3, <2>1, <2>2
<1>6. ASSUME NEW j \in 1..k + 1
      PROVE  \E m \in DOMAIN new : /\ new[m] = tools[j]
                                   /\ \A p \in DOMAIN new : new[p] = tools[j] => p = m
  <2>1. CASE j = k + 1
    <3>1. \A p \in DOMAIN resolved : resolved[p] # t
      BY <1>0, <1>1, <1>4
    <3> QED
      BY <1>3, <2>1, <3>1
  <2>2. CASE j \in 1..k
    <3>1. PICK m \in DOMAIN resolved :
                 /\ resolved[m] = tools[j]
                 /\ \A p \in DOMAIN resolved : resolved[p] = tools[j] => p = m
      BY <2>2 DEF Resolved
    <3>2. t # tools[j]
      BY <1>0, <1>1, <2>2
    <3> QED
      BY <1>3, <3>1, <3>2
  <2> QED
    BY <1>0, <2>1, <2>2
<1>7. ASSUME NEW j \in 1..k + 1
      PROVE  /\ tools[j].tool.name \in DOMAIN new
             /\ \E i \in 1..j : new[tools[j].tool.name] = tools[i]
  <2>1. CASE j \in 1..k
    <3>1. /\ tools[j].tool.name \in DOMAIN resolved
          /\ \E i \in 1..j : resolved[tools[j].tool.name] = tools[i]
      BY <2>1 DEF Resolved
    <3>2. new[tools[j].tool.name] = resolved[tools[j].tool.name]
      BY <1>3, <3>1
    <3> QED
      BY <1>3, <3>1, <3>2
  <2>2. CASE j = k + 1 /\ bare \in DOMAIN resolved
    BY <1>0, <1>3, <1>4, <2>2
  <2>3. CASE j = k + 1 /\ bare \notin DOMAIN resolved
    <3>1. name = bare
      BY <2>3 DEF name
    <3> QED
      BY <1>0, <1>3, <2>3, <3>1
  <2> QED
    BY <1>0, <2>1, <2>2, <2>3
<1>8. Resolved(new, tools, k + 1)
  BY <1>5, <1>6, <1>7 DEF Resolved
<1> QED
  BY <1>8 DEF new

\* All the tools of a registry are exposed.
LEMMA NamesAreResolved ==
    ASSUME NEW tools, Apart(tools), PrefixesApart(tools), NEW n \in Nat, DOMAIN tools = 1..n
    PROVE  Resolved(FoldLeft(Expose, NoNames, tools), tools, n)
<1>1. PICK f : /\ FoldLeft(Expose, NoNames, tools) = f[n] /\ f[0] = NoNames
               /\ \A k \in 0..n - 1 : f[k + 1] = Expose(f[k], tools[k + 1])
  BY ExposeEquations
<1> DEFINE T == {k \in 0..n : Resolved(f[k], tools, k)}
<1>2. 0 \in T
  <2>1. DOMAIN f[0] = {} /\ 1..0 = {}
    BY <1>1 DEF NoNames
  <2> QED
    BY <2>1 DEF Resolved
<1>3. ASSUME NEW k \in 0..n - 1, k \in T
      PROVE  k + 1 \in T
  <2>1. Resolved(Expose(f[k], tools[k + 1]), tools, k + 1)
    BY <1>3, ExposeResolves
  <2>2. k + 1 \in 0..n
    OBVIOUS
  <2> QED
    BY <1>1, <2>1, <2>2
<1>4. 0..n \subseteq T
  BY <1>2, <1>3, UpToNat
<1> QED
  BY <1>1, <1>4

\* The tools of a registry are tools of connectors that may be installed.
LEMMA ToolsAreInstalled ==
    ASSUME NEW connectors, Registered(connectors), NEW k \in DOMAIN AllTools(connectors)
    PROVE  \E c \in Installable : \E j \in DOMAIN c.tools :
              AllTools(connectors)[k].key = c.key /\ AllTools(connectors)[k].tool = c.tools[j]
<1> DEFINE tools == AllTools(connectors)
<1>1. FromFirst(connectors, tools, Len(connectors))
  BY AllToolsApart
<1>2. DOMAIN connectors = 1..Len(connectors) /\ k \in DOMAIN tools
  BY DEF Registered
<1> HIDE DEF tools
<1>3. PICK i \in 1..Len(connectors) :
             \E j \in DOMAIN connectors[i].tools : tools[k] = Entry(connectors, i, j)
  BY <1>1, <1>2 DEF FromFirst
<1>4. PICK j \in DOMAIN connectors[i].tools : tools[k] = Entry(connectors, i, j)
  BY <1>3
<1>5. connectors[i] \in Installable
  BY <1>2 DEF Registered
<1>6. \E c \in Installable : \E l \in DOMAIN c.tools :
         tools[k].key = c.key /\ tools[k].tool = c.tools[l]
  BY <1>4, <1>5 DEF Entry
<1> QED
  BY <1>6 DEF tools

\* What has a name is a tool of the registry, whatever the names are.
LEMMA NamesAreOfTools ==
    ASSUME NEW tools, NEW n \in Nat, DOMAIN tools = 1..n,
           NEW name \in DOMAIN FoldLeft(Expose, NoNames, tools)
    PROVE  \E j \in 1..n : FoldLeft(Expose, NoNames, tools)[name] = tools[j]
<1>1. PICK f : /\ FoldLeft(Expose, NoNames, tools) = f[n] /\ f[0] = NoNames
               /\ \A k \in 0..n - 1 : f[k + 1] = Expose(f[k], tools[k + 1])
  BY ExposeEquations
<1> DEFINE Taken(k) == \A m \in DOMAIN f[k] : \E j \in 1..n : f[k][m] = tools[j]
           T == {k \in 0..n : Taken(k)}
<1>2. 0 \in T
  BY <1>1 DEF NoNames
<1>3. ASSUME NEW k \in 0..n - 1, k \in T
      PROVE  k + 1 \in T
  <2>1. k + 1 \in 0..n /\ k + 1 \in 1..n
    OBVIOUS
  <2>2. ASSUME NEW m \in DOMAIN Expose(f[k], tools[k + 1])
        PROVE  \/ m \in DOMAIN f[k] /\ Expose(f[k], tools[k + 1])[m] = f[k][m]
               \/ Expose(f[k], tools[k + 1])[m] = tools[k + 1]
    BY DEF Expose
  <2>3. Taken(k + 1)
    BY <1>1, <1>3, <2>1, <2>2
  <2> QED
    BY <2>1, <2>3
<1>4. 0..n \subseteq T
  BY <1>2, <1>3, UpToNat
<1> QED
  BY <1>1, <1>4

\* What NamesApart says of connectors that may be installed it says of a registry's tools.
LEMMA RegistryPrefixesApart ==
    ASSUME NamesApart, NEW connectors, Registered(connectors)
    PROVE  PrefixesApart(AllTools(connectors))
<1> DEFINE tools == AllTools(connectors)
<1>1. FromFirst(connectors, tools, Len(connectors))
  BY AllToolsApart
<1>3. ASSUME NEW k \in DOMAIN tools
      PROVE  \E c \in Installable : \E j \in DOMAIN c.tools :
                tools[k].key = c.key /\ tools[k].tool = c.tools[j]
  BY ToolsAreInstalled
<1> HIDE DEF tools
<1>4. ASSUME NEW k \in DOMAIN tools, NEW l \in DOMAIN tools
      PROVE  LET prefixed == Namespaced(tools[k].key, tools[k].tool.name)
             IN  /\ prefixed # tools[l].tool.name
                 /\ prefixed = Namespaced(tools[l].key, tools[l].tool.name) => k = l
  <2>c. PICK c \in Installable : \E i \in DOMAIN c.tools :
               tools[k].key = c.key /\ tools[k].tool = c.tools[i]
    BY <1>3
  <2>1. PICK i \in DOMAIN c.tools :
               tools[k].key = c.key /\ tools[k].tool = c.tools[i]
    BY <2>c
  <2>d. PICK d \in Installable : \E j \in DOMAIN d.tools :
               tools[l].key = d.key /\ tools[l].tool = d.tools[j]
    BY <1>3
  <2>2. PICK j \in DOMAIN d.tools :
               tools[l].key = d.key /\ tools[l].tool = d.tools[j]
    BY <2>d
  <2>3. /\ Namespaced(c.key, c.tools[i].name) # d.tools[j].name
        /\ Namespaced(c.key, c.tools[i].name) = Namespaced(d.key, d.tools[j].name) =>
             c.key = d.key /\ c.tools[i].name = d.tools[j].name
    BY DEF NamesApart
  <2>4. k # l => tools[k].key # tools[l].key \/ tools[k].tool.name # tools[l].tool.name
    BY <1>1 DEF FromFirst, Apart
  <2> QED
    BY <2>1, <2>2, <2>3, <2>4
<1> QED
  BY <1>4 DEF PrefixesApart, tools

----------------------------------------------------------------------------
(* The registry *)

\* What the registry lets in, and what becomes of it.
RegistryInv ==
    /\ queue \in Seq(Installable) /\ registry \in Seq(Installable)
    /\ \A i \in DOMAIN registry : IsValid(registry[i])
    /\ \A i, j \in DOMAIN registry : i # j => registry[i].key # registry[j].key
    /\ server = "up" => names = ResolveNames(registry)

\* Only the start of the server touches what is the server's.
LEMMA ServerChanges ==
    ASSUME Next
    PROVE  RegisterNext \/ StartDatabase \/ UNCHANGED serverVars
<1>1. ASSUME SessionNext
      PROVE  UNCHANGED serverVars
  BY <1>1 DEF SessionNext, OpenConversation, CloseConversation, SocketGone, BuildAgent
<1>2. ASSUME TurnNext
      PROVE  UNCHANGED serverVars
  BY <1>2
  DEF TurnNext, TakeTurn, RecordUserMessage, RecallMemories, TurnRaises, EndTurn, Interrupt,
      StreamCancelled, StreamText, StreamEnds, StubReplies, OpenStream, Fragment, NextRound,
      RoundsExhausted, AbandonTurn, sessionFrame
<1>3. ASSUME CallNext
      PROVE  UNCHANGED serverVars
  BY <1>3
  DEF CallNext, UnknownTool, Dispatch, Approve, Decline, CancelAtGate, RefuseArguments,
      HandlerReturns, HandlerRaises, HandlerActs, AnswerArrives, AnswerLost, RecordAction,
      Returns, AbandonTurn, callFrame, sessionFrame
<1> QED
  BY <1>1, <1>2, <1>3 DEF Next, ServerNext

LEMMA RegistryInit == Init => RegistryInv
<1> SUFFICES ASSUME Init
             PROVE  RegistryInv
  OBVIOUS
<1>1. Modules \in Seq(Installable)
  <2>1. Range(Modules) \subseteq Installable
    BY DEF Installable
  <2>2. Modules \in Seq(Range(Modules))
    BY ConnectorsAssumption
  <2> QED
    BY <2>1, <2>2
<1>2. queue \in Seq(Installable)
  <2>1. CASE queue = Modules
    BY <1>1, <2>1
  <2>2. ASSUME NEW c \in Communities, queue = Append(Modules, c)
        PROVE  queue \in Seq(Installable)
    <3>1. c \in Installable
      BY DEF Installable
    <3> QED
      BY <1>1, <2>2, <3>1
  <2> QED
    BY <2>1, <2>2 DEF Init
<1> QED
  BY <1>2 DEF Init, RegistryInv

LEMMA RegistryStep ==
    ASSUME RegistryInv, [Next]_vars
    PROVE  RegistryInv'
<1>1. CASE RegisterNext
  <2>1. /\ queue # << >> /\ queue' = Tail(queue) /\ server = "starting"
        /\ server' # "up"
    BY <1>1 DEF RegisterNext
  <2>2. /\ queue' \in Seq(Installable) /\ Head(queue) \in Installable
        /\ registry \in Seq(Installable)
    BY <2>1 DEF RegistryInv
  <2>3. CASE registry' = registry
    BY <2>1, <2>2, <2>3 DEF RegistryInv
  <2>4. CASE MayRegister(registry, Head(queue)) /\ registry' = Append(registry, Head(queue))
    <3> DEFINE n == Len(registry)
               c == Head(queue)
    <3>1. /\ n \in Nat /\ DOMAIN registry = 1..n
          /\ registry' \in Seq(Installable) /\ DOMAIN registry' = 1..n + 1
          /\ registry'[n + 1] = c /\ \A i \in 1..n : registry'[i] = registry[i]
      BY <2>2, <2>4
    <3>2. IsValid(c) /\ \A i \in 1..n : registry[i].key # c.key
      BY <2>4, <3>1 DEF MayRegister, HasKey
    <3> HIDE DEF c
    <3>3. ASSUME NEW i \in DOMAIN registry'
          PROVE  IsValid(registry'[i])
      <4>1. i \in 1..n \/ i = n + 1
        BY <3>1
      <4> QED
        BY <3>1, <3>2, <4>1 DEF RegistryInv
    <3>4. ASSUME NEW i \in DOMAIN registry', NEW j \in DOMAIN registry', i # j
          PROVE  registry'[i].key # registry'[j].key
      <4>1. (i \in 1..n \/ i = n + 1) /\ (j \in 1..n \/ j = n + 1)
        BY <3>1
      <4>2. CASE i \in 1..n /\ j \in 1..n
        BY <3>1, <3>4, <4>2 DEF RegistryInv
      <4>3. CASE i \in 1..n /\ j = n + 1
        BY <3>1, <3>2, <4>3
      <4>4. CASE i = n + 1 /\ j \in 1..n
        BY <3>1, <3>2, <4>4
      <4> QED
        BY <3>4, <4>1, <4>2, <4>3, <4>4
    <3> QED
      BY <2>1, <2>2, <3>1, <3>3, <3>4 DEF RegistryInv
  <2> QED
    BY <1>1, <2>3, <2>4 DEF RegisterNext
<1>2. CASE StartDatabase
  BY <1>2 DEF StartDatabase, RegistryInv
<1>3. CASE UNCHANGED serverVars
  BY <1>3 DEF serverVars, RegistryInv
<1> QED
  BY <1>1, <1>2, <1>3, ServerChanges DEF vars

LEMMA RegistryInvHolds == Spec => []RegistryInv
<1> QED
  BY RegistryInit, RegistryStep, PTL DEF Spec

LEMMA RegistryResolves ==
    ASSUME NamesApart, RegistryInv
    PROVE  NamesResolve
<1> DEFINE tools == AllTools(registry)
<1> SUFFICES ASSUME server = "up"
             PROVE  /\ \A k \in DOMAIN tools :
                         Cardinality({n \in DOMAIN names : names[n] = tools[k]}) = 1
                    /\ \A j, k \in DOMAIN tools :
                         j < k => names[tools[j].tool.name] # tools[k]
  BY DEF NamesResolve
<1>1. Registered(registry)
  BY DEF RegistryInv, Registered
<1>2. Apart(tools) /\ PrefixesApart(tools) /\ IsSeq(tools)
  BY <1>1, AllToolsApart, RegistryPrefixesApart DEF FromFirst
<1> HIDE DEF tools
<1>3. Len(tools) \in Nat /\ DOMAIN tools = 1..Len(tools)
  BY <1>2 DEF IsSeq
<1>4. Resolved(names, tools, Len(tools))
  <2>1. names = FoldLeft(Expose, NoNames, tools)
    BY DEF RegistryInv, ResolveNames, NoNames, tools
  <2> QED
    BY <1>2, <1>3, <2>1, NamesAreResolved
<1>5. ASSUME NEW k \in DOMAIN tools
      PROVE  Cardinality({n \in DOMAIN names : names[n] = tools[k]}) = 1
  <2>1. PICK n \in DOMAIN names :
               names[n] = tools[k] /\ \A m \in DOMAIN names : names[m] = tools[k] => m = n
    BY <1>3, <1>4 DEF Resolved
  <2>2. {m \in DOMAIN names : names[m] = tools[k]} = {n}
    BY <2>1
  <2> QED
    BY <2>2, FS_Singleton
<1>6. ASSUME NEW j \in DOMAIN tools, NEW k \in DOMAIN tools, j < k
      PROVE  names[tools[j].tool.name] # tools[k]
  <2>1. PICK i \in 1..j : names[tools[j].tool.name] = tools[i]
    BY <1>3, <1>4 DEF Resolved
  <2>2. i \in DOMAIN tools /\ i # k
    BY <1>3, <1>6
  <2>3. tools[i] # tools[k]
    BY <1>2, <2>2 DEF Apart
  <2> QED
    BY <2>1, <2>3
<1> QED
  BY <1>5, <1>6

\* Whatever connectors are installed, every registered tool answers to one name and keeps it
\* from those that come later (ToolCatalog._resolve_names), provided that no tool is named
\* like another with its prefix: the registry would let such a tool in.
THEOREM ToolsAnswerToNames == NamesApart => (Spec => []NamesResolve)
<1> SUFFICES ASSUME NamesApart
             PROVE  Spec => []NamesResolve
  OBVIOUS
<1>1. RegistryInv => NamesResolve
  BY RegistryResolves
<1> QED
  BY <1>1, RegistryInvHolds, PTL

----------------------------------------------------------------------------
(* Nothing is done unasked, whatever is installed *)

\* What has a name is a tool of a connector that may be installed.
NamesInstalled ==
    \A name \in DOMAIN names : \E c \in Installable : \E j \in DOMAIN c.tools :
       names[name].tool = c.tools[j]

LEMMA NamesInstalledStep ==
    ASSUME RegistryInv, NamesInstalled, [Next]_vars
    PROVE  NamesInstalled'
<1>1. CASE StartDatabase
  <2> DEFINE tools == AllTools(registry)
  <2>1. Registered(registry)
    BY DEF RegistryInv, Registered
  <2>2. IsSeq(tools)
    BY <2>1, AllToolsApart DEF FromFirst
  <2>3. names' = FoldLeft(Expose, NoNames, tools)
    BY <1>1 DEF StartDatabase, ResolveNames, NoNames
  <2>4. ASSUME NEW k \in DOMAIN tools
        PROVE  \E c \in Installable : \E j \in DOMAIN c.tools : tools[k].tool = c.tools[j]
    BY <2>1, ToolsAreInstalled
  <2> HIDE DEF tools
  <2>5. Len(tools) \in Nat /\ DOMAIN tools = 1..Len(tools)
    BY <2>2 DEF IsSeq
  <2>6. ASSUME NEW name \in DOMAIN names'
        PROVE  \E k \in DOMAIN tools : names'[name] = tools[k]
    BY <2>3, <2>5, NamesAreOfTools
  <2> QED
    BY <2>4, <2>6 DEF NamesInstalled
<1>2. CASE RegisterNext \/ UNCHANGED serverVars
  BY <1>2 DEF RegisterNext, serverVars, NamesInstalled
<1> QED
  BY <1>1, <1>2, ServerChanges DEF vars

\* Whatever connectors are installed, if every tool of theirs that acts outside is of class
\* CONFIRM, nothing is done outside that the user has not confirmed, and an interrupted turn
\* calls for nothing more (AgentLoop._dispatch, ConfirmGate).
THEOREM DoneOnDemand == ActingToolsConfirm => (Spec => ActsOnDemand)
<1> SUFFICES ASSUME ActingToolsConfirm
             PROVE  Spec => ActsOnDemand
  OBVIOUS
<1>1. Init => RunsConfirmed /\ NamesInstalled
  BY DEF Init, RunsConfirmed, NamesInstalled
<1>4. NamesInstalled => ActingNamesConfirm
  BY DEF ActingToolsConfirm, NamesInstalled, ActingNamesConfirm
<1>2. TypeInv /\ RegistryInv /\ NamesInstalled /\ RunsConfirmed /\ [Next]_vars =>
        RunsConfirmed' /\ NamesInstalled'
  BY <1>4, RunsConfirmedStep, NamesInstalledStep
<1>3. TypeInv /\ RunsConfirmed /\ [Next]_vars =>
        [/\ \A n \in acted' \ acted : CurrentTool.deed = "acts" => n \in approved
         /\ interrupted => count' = count]_vars
  <2> SUFFICES ASSUME RunsConfirmed, Next
               PROVE  /\ \A n \in acted' \ acted : CurrentTool.deed = "acts" => n \in approved
                      /\ interrupted => count' = count
    OBVIOUS
  <2>1. CASE HandlerActs
    <3>1. pc = "running" /\ acted' = acted \cup {Current.n}
      BY <2>1 DEF HandlerActs, Session
    <3> QED
      BY <3>1, CallsUninterrupted DEF RunsConfirmed
  <2>2. CASE acted' = acted
    BY <2>2, CallsUninterrupted
  <2> QED
    BY <2>1, <2>2, DeedsByHandlers
<1> QED
  BY <1>1, <1>2, <1>3, TypeInvHolds, RegistryInvHolds, PTL DEF Spec, ActsOnDemand
==============================================================================
