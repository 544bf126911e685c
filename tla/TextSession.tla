---------------------------- MODULE TextSession ----------------------------
(***************************************************************************)
(* One authenticated text-mode WebSocket session of the EDITH server.      *)
(*                                                                         *)
(* Three asyncio tasks of Session.run share the state of TextTransport:    *)
(*   demux  (session.py)         socket frames  -> inbound                 *)
(*   pump   (text_transport.py)  inbound        -> turns, _barge_in,       *)
(*                                                 _pending futures        *)
(*   agent  (loop.py, confirm.py) turns         -> LLM rounds, tool calls, *)
(*                                                 the confirmation gate   *)
(* A fourth, per-turn task, the watcher, copies _barge_in into `cancel'.   *)
(*                                                                         *)
(* An action is what one task does between two suspension points (await).  *)
(* Tool calls carry a serial number n, which the code does not have: it is *)
(* the identity the properties talk about.  What the code has is the       *)
(* action id, `id'.                                                        *)
(***************************************************************************)
EXTENDS Integers, Sequences, FiniteSets

CONSTANTS
    MaxTexts,        \* bound: text frames the client sends
    MaxExtras,       \* bound: other frames the client sends
    MaxToolRounds,   \* _MAX_TOOL_ROUNDS of loop.py
    MaxBatch,        \* bound: tool calls the model puts in one reply
    ToolClasses,     \* classes of the tools the model may name
    IdSources        \* where the id of a tool call comes from

ASSUME BoundsAssumption ==
    /\ MaxTexts \in Nat /\ MaxExtras \in Nat /\ MaxBatch \in Nat
    /\ MaxToolRounds \in Nat \ {0}

\* "unknown" is a name the catalog does not know.
ASSUME ToolClassesAssumption == ToolClasses \subseteq {"auto", "confirm", "unknown"}

\* "own": the provider sends an id of its own for the call, unique in the
\* session.  "index": it sends none, and the id is made of the position of
\* the call in the batch.
ASSUME IdSourcesAssumption == IdSources \subseteq {"own", "index"}

VARIABLES
    connected,    \* the client holds its end of the socket open
    sent,         \* how much the client has sent: [texts, extras]
    prompt,       \* the confirmation the client displays
    demux,        \* "receiving" or "ended"
    inbound,      \* Session._inbound
    pump,         \* "draining" or "ended"
    turns,        \* TextTransport._turns
    bargeIn,      \* the flag of the current _barge_in event
    turnActive,   \* TextTransport._turn_active
    pending,      \* TextTransport._pending: action id -> the call awaiting it
    fut,          \* the future of the open confirmation: "unset", "ok", "no"
    pc,           \* where the agent task is suspended
    turn,         \* the turn being run, 0 when there is none
    cancel,       \* the turn's cancel event
    round,        \* tool rounds the turn has completed
    batch,        \* the tool calls still to dispatch, the current one first
    replied,      \* some text of the reply has been streamed
    calls,        \* tool calls the model has made in the session
    session,      \* "running" or "closed"
    approved,     \* history: CONFIRM calls the user answered with ok:true
    declined,     \* history: CONFIRM calls the user answered with ok:false
    ran           \* history: CONFIRM calls whose handler has been invoked

clientVars  == <<connected, sent, prompt, approved, declined>>
queueVars   == <<demux, inbound, pump, turns>>
signalVars  == <<bargeIn, turnActive, pending, fut>>
agentVars   == <<pc, turn, cancel, round, batch, replied, calls>>
outcomeVars == <<session, ran>>
vars == <<clientVars, queueVars, signalVars, agentVars, outcomeVars>>

----------------------------------------------------------------------------
(* Data *)

TextFrame(k)          == [type |-> "text", turn |-> k]
ConfirmFrame(c, ok)   == [type |-> "confirm", id |-> c.id, ok |-> ok, about |-> c.n]
BargeInFrame          == [type |-> "barge_in"]
AudioFrame            == [type |-> "audio"]
CloseFrame            == [type |-> "close"]

\* _CLOSE on the turns queue; a turn is the number of its text frame.
CLOSE == 0

\* The client shows no confirmation.
NoPrompt == [n |-> 0, id |-> 0]

\* The id of the call numbered n at position i of its batch: the provider's own
\* one, or call_<i>, which every batch of the session uses again.
ActionId(source, n, i) == IF source = "own" THEN n ELSE -i

\* The batches of tool calls one LLM reply may end with.
Batches ==
    UNION {[1..k -> [cls : ToolClasses, source : IdSources]] : k \in 0..MaxBatch}

Numbered(shape) ==
    [i \in DOMAIN shape |-> [n   |-> calls + i,
                             id  |-> ActionId(shape[i].source, calls + i, i),
                             cls |-> shape[i].cls]]

Call == Head(batch)

InTurn == turn # 0

\* Mutant: the loop looks at the watcher's copy of the signal only.
CancelledByWatcher == cancel

\* AgentLoop._cancelled
Cancelled == cancel \/ bargeIn

Init ==
    /\ connected = TRUE
    /\ sent = [texts |-> 0, extras |-> 0]
    /\ prompt = NoPrompt
    /\ demux = "receiving" /\ inbound = <<>>
    /\ pump = "draining" /\ turns = <<>>
    /\ bargeIn = FALSE /\ turnActive = FALSE
    /\ pending = {} /\ fut = "unset"
    /\ pc = "waiting" /\ turn = 0 /\ cancel = FALSE
    /\ round = 0 /\ batch = <<>> /\ replied = FALSE /\ calls = 0
    /\ session = "running"
    /\ approved = {} /\ declined = {} /\ ran = {}

----------------------------------------------------------------------------
(* The client's frames, as the demux receives them *)

Receive(frame) ==
    /\ demux = "receiving"
    /\ connected
    /\ inbound' = Append(inbound, frame)
    /\ UNCHANGED <<connected, demux, pump, turns, signalVars, agentVars, outcomeVars>>

ReceiveText ==
    /\ sent.texts < MaxTexts
    /\ sent' = [sent EXCEPT !.texts = @ + 1]
    /\ Receive(TextFrame(sent.texts + 1))
    /\ UNCHANGED <<prompt, approved, declined>>

\* ChatController.respondConfirm: the displayed confirmation is answered, once.
ReceiveConfirm(ok) ==
    /\ prompt # NoPrompt
    /\ sent.extras < MaxExtras
    /\ sent' = [sent EXCEPT !.extras = @ + 1]
    /\ Receive(ConfirmFrame(prompt, ok))
    /\ prompt' = NoPrompt
    /\ approved' = IF ok THEN approved \cup {prompt.n} ELSE approved
    /\ declined' = IF ok THEN declined ELSE declined \cup {prompt.n}

ReceiveExtra(frame) ==
    /\ sent.extras < MaxExtras
    /\ sent' = [sent EXCEPT !.extras = @ + 1]
    /\ Receive(frame)
    /\ UNCHANGED <<prompt, approved, declined>>

ReceiveBargeIn == ReceiveExtra(BargeInFrame)
ReceiveAudio   == ReceiveExtra(AudioFrame)

\* The receive raises: the peer has gone, or the frame was not a JSON object, in
\* which case the socket stays open.  Either way the demux ends with a sentinel.
DemuxEnds(stillConnected) ==
    /\ demux = "receiving"
    /\ demux' = "ended"
    /\ connected' = stillConnected
    /\ inbound' = Append(inbound, CloseFrame)
    /\ UNCHANGED <<sent, prompt, approved, declined, pump, turns, signalVars,
                   agentVars, outcomeVars>>

Disconnect     == DemuxEnds(FALSE)
MalformedFrame == DemuxEnds(TRUE)

\* A socket whose demux has ended is lost without anyone noticing.
LateDisconnect ==
    /\ demux = "ended" /\ connected
    /\ connected' = FALSE
    /\ UNCHANGED <<sent, prompt, approved, declined, queueVars, signalVars,
                   agentVars, outcomeVars>>

----------------------------------------------------------------------------
(* TextTransport.pump *)

Pump(type) ==
    /\ pump = "draining"
    /\ inbound # <<>>
    /\ Head(inbound).type = type
    /\ inbound' = Tail(inbound)
    /\ UNCHANGED <<clientVars, demux, agentVars, outcomeVars>>

\* Mutant: text that interrupts a turn is taken for a barge-in hint only.
PumpTextOrInterrupt ==
    /\ Pump("text")
    /\ IF turnActive
         THEN bargeIn' = TRUE /\ UNCHANGED turns
         ELSE turns' = Append(turns, Head(inbound).turn) /\ UNCHANGED bargeIn
    /\ UNCHANGED <<pump, turnActive, pending, fut>>

\* Text that arrives while a turn is active interrupts it and queues the next.
PumpText ==
    /\ Pump("text")
    /\ turns' = Append(turns, Head(inbound).turn)
    /\ bargeIn' = (bargeIn \/ turnActive)
    /\ UNCHANGED <<pump, turnActive, pending, fut>>

\* Mutant: any reply resolves the open request.
PumpConfirmAnyId ==
    /\ Pump("confirm")
    /\ LET open == pc \in {"asking", "awaiting"}
       IN  /\ pending' = IF open THEN {} ELSE pending
           /\ fut' = IF ~open THEN fut ELSE IF Head(inbound).ok THEN "ok" ELSE "no"
    /\ UNCHANGED <<pump, turns, bargeIn, turnActive>>

\* Mutant: a reply is consumed but lost when it comes before the future is awaited.
PumpConfirmAwaitedOnly ==
    /\ Pump("confirm")
    /\ LET reply == Head(inbound)
           owner == {p \in pending : p.id = reply.id}
           live  == \E p \in owner : pc = "awaiting" /\ p.n = Call.n
       IN  /\ pending' = pending \ owner
           /\ fut' = IF live THEN IF reply.ok THEN "ok" ELSE "no" ELSE fut
    /\ UNCHANGED <<pump, turns, bargeIn, turnActive>>

\* A reply resolves the future pending under its action id, if there is one;
\* the future of a call that is no longer at the gate has no one to wake.
PumpConfirm ==
    /\ Pump("confirm")
    /\ LET reply == Head(inbound)
           owner == {p \in pending : p.id = reply.id}
           live  == \E p \in owner : pc \in {"asking", "awaiting"} /\ p.n = Call.n
       IN  /\ pending' = pending \ owner
           /\ fut' = IF live THEN IF reply.ok THEN "ok" ELSE "no" ELSE fut
    /\ UNCHANGED <<pump, turns, bargeIn, turnActive>>

PumpBargeIn ==
    /\ Pump("barge_in")
    /\ bargeIn' = TRUE
    /\ UNCHANGED <<pump, turns, turnActive, pending, fut>>

PumpAudio ==
    /\ Pump("audio")
    /\ UNCHANGED <<pump, turns, signalVars>>

\* Mutant: the pump returns without passing the sentinel on.
PumpCloseSilently ==
    /\ Pump("close")
    /\ pump' = "ended"
    /\ UNCHANGED <<turns, signalVars>>

PumpClose ==
    /\ Pump("close")
    /\ turns' = Append(turns, CLOSE)
    /\ pump' = "ended"
    /\ UNCHANGED signalVars

----------------------------------------------------------------------------
(* The agent task: AgentLoop.run and _run_turn *)

AgentStep(from, to) ==
    /\ session = "running"
    /\ pc = from
    /\ pc' = to

PcStep(from, to) ==
    /\ AgentStep(from, to)
    /\ UNCHANGED <<clientVars, queueVars, signalVars, turn, cancel, round, batch,
                   replied, calls, outcomeVars>>

\* Mutant: LISTENING does not mark the turn inactive.
TurnCancelledStillActive ==
    /\ pc' = "closing"
    /\ batch' = <<>>
    /\ UNCHANGED turnActive

\* `raise TurnCancelled', caught in run: set_status(LISTENING) marks the turn
\* inactive before it awaits the send.
TurnCancelled ==
    /\ pc' = "closing"
    /\ turnActive' = FALSE
    /\ batch' = <<>>

\* Any other exception, caught in run: an error frame goes out first.
TurnRaises ==
    /\ pc' = "failing"
    /\ batch' = <<>>
    /\ UNCHANGED turnActive

\* user_turns hands a turn out: a new barge-in event, a new cancel event, a new
\* watcher.  _run_turn's first check cannot be true here.
TakeTurn ==
    /\ AgentStep("waiting", "preparing")
    /\ turns # <<>> /\ Head(turns) # CLOSE
    /\ turn' = Head(turns)
    /\ turns' = Tail(turns)
    /\ bargeIn' = FALSE
    /\ turnActive' = TRUE
    /\ cancel' = FALSE
    /\ round' = 0
    /\ replied' = FALSE
    /\ UNCHANGED <<clientVars, demux, inbound, pump, pending, fut, batch, calls,
                   outcomeVars>>

TakeClose ==
    /\ AgentStep("waiting", "returned")
    /\ turns # <<>> /\ Head(turns) = CLOSE
    /\ turns' = Tail(turns)
    /\ UNCHANGED <<clientVars, demux, inbound, pump, signalVars, turn, cancel, round,
                   batch, replied, calls, outcomeVars>>

\* THINKING and the transcript are sent, the message is recorded, memories recalled.
Prepare == PcStep("preparing", "streaming")

StreamText ==
    /\ AgentStep("streaming", "streaming")
    /\ ~Cancelled
    /\ replied' = TRUE
    /\ UNCHANGED <<clientVars, queueVars, signalVars, turn, cancel, round, batch,
                   calls, outcomeVars>>

\* The stream ends: its tool calls and the TurnEnd come without a suspension.
StreamEnd(shape) ==
    /\ AgentStep("streaming", IF shape = <<>> THEN "finishing" ELSE "announcing")
    /\ ~Cancelled
    /\ batch' = Numbered(shape)
    /\ calls' = calls + Len(shape)
    /\ UNCHANGED <<clientVars, queueVars, signalVars, turn, cancel, round, replied,
                   outcomeVars>>

\* A delta arrives after a barge-in.
StreamCancelled ==
    /\ session = "running"
    /\ pc = "streaming"
    /\ Cancelled
    /\ TurnCancelled
    /\ UNCHANGED <<clientVars, queueVars, bargeIn, pending, fut, turn, cancel, round,
                   replied, calls, outcomeVars>>

\* Recall or the provider raises.
TurnFails ==
    /\ session = "running"
    /\ pc \in {"preparing", "streaming"}
    /\ TurnRaises
    /\ UNCHANGED <<clientVars, queueVars, bargeIn, pending, fut, turn, cancel, round,
                   replied, calls, outcomeVars>>

\* The reply is recorded; emit(TurnComplete) marks the turn inactive, then sends.
CompleteTurn ==
    /\ AgentStep("finishing", "completing")
    /\ turnActive' = FALSE
    /\ UNCHANGED <<clientVars, queueVars, bargeIn, pending, fut, turn, cancel, round,
                   batch, replied, calls, outcomeVars>>

\* The error frame is out; set_status(IDLE) marks the turn inactive, then sends.
ReportFailure ==
    /\ AgentStep("failing", "closing")
    /\ turnActive' = FALSE
    /\ UNCHANGED <<clientVars, queueVars, bargeIn, pending, fut, turn, cancel, round,
                   batch, replied, calls, outcomeVars>>

\* The last status is out: the watcher is cancelled and user_turns resumes.
EndTurn ==
    /\ session = "running"
    /\ pc \in {"completing", "closing"}
    /\ pc' = "waiting"
    /\ turn' = 0
    /\ turnActive' = FALSE
    /\ UNCHANGED <<clientVars, queueVars, bargeIn, pending, fut, cancel, round, batch,
                   replied, calls, outcomeVars>>

\* _watch_barge_in: the signal reaches the turn's cancel event.
WatcherFires ==
    /\ session = "running"
    /\ InTurn /\ bargeIn /\ ~cancel
    /\ cancel' = TRUE
    /\ UNCHANGED <<clientVars, queueVars, signalVars, pc, turn, round, batch, replied,
                   calls, outcomeVars>>

----------------------------------------------------------------------------
(* AgentLoop._dispatch and ConfirmGate.await_reply *)

\* The next call of the batch is announced; after the last one the model is asked
\* again, unless the rounds are used up (the else branch of the for loop).
NextCall ==
    /\ batch' = Tail(batch)
    /\ IF Len(batch) > 1
         THEN pc' = "announcing" /\ UNCHANGED round
         ELSE /\ round' = round + 1
              /\ pc' = IF round + 1 = MaxToolRounds THEN "finishing" ELSE "streaming"

\* The handler of an AUTO tool is invoked as soon as its announcement is out.
RunAuto ==
    /\ PcStep("announcing", "running")
    /\ Call.cls = "auto"

SkipUnknown ==
    /\ session = "running"
    /\ pc = "announcing"
    /\ Call.cls = "unknown"
    /\ NextCall
    /\ UNCHANGED <<clientVars, queueVars, signalVars, turn, cancel, replied, calls,
                   outcomeVars>>

\* request_confirm registers a future under the action id, replacing any other, and
\* sends the request.
RequestConfirm ==
    /\ AgentStep("announcing", "asking")
    /\ Call.cls = "confirm"
    /\ pending' = {p \in pending : p.id # Call.id} \cup {[id |-> Call.id, n |-> Call.n]}
    /\ fut' = "unset"
    /\ prompt' = IF connected THEN [n |-> Call.n, id |-> Call.id] ELSE prompt
    /\ UNCHANGED <<connected, sent, approved, declined, queueVars, bargeIn, turnActive,
                   turn, cancel, round, batch, replied, calls, outcomeVars>>

\* The send is done; the future is awaited.
AwaitReply == PcStep("asking", "awaiting")

Unregister(id) == pending' = {p \in pending : p.id # id}

\* Mutant: any reply lets the call run.
ConfirmedByAnyReply ==
    /\ AgentStep("awaiting", "running")
    /\ fut # "unset"
    /\ Unregister(Call.id)
    /\ fut' = "unset"
    /\ ran' = ran \cup {Call.n}
    /\ UNCHANGED <<clientVars, queueVars, bargeIn, turnActive, turn, cancel, round,
                   batch, replied, calls, session>>

\* The reply task has finished.  It wins over a cancel that finished too.
Confirmed ==
    /\ AgentStep("awaiting", "running")
    /\ fut = "ok"
    /\ Unregister(Call.id)
    /\ fut' = "unset"
    /\ ran' = ran \cup {Call.n}
    /\ UNCHANGED <<clientVars, queueVars, bargeIn, turnActive, turn, cancel, round,
                   batch, replied, calls, session>>

Declined ==
    /\ AgentStep("awaiting", "reporting")
    /\ fut = "no"
    /\ Unregister(Call.id)
    /\ fut' = "unset"
    /\ UNCHANGED <<clientVars, queueVars, bargeIn, turnActive, turn, cancel, round,
                   batch, replied, calls, outcomeVars>>

\* Mutant: the wait for the reply does not race the cancel event.
GateCancelledAskingOnly ==
    /\ session = "running"
    /\ cancel
    /\ pc = "asking" /\ UNCHANGED pending
    /\ TurnCancelled
    /\ fut' = "unset"
    /\ UNCHANGED <<clientVars, queueVars, bargeIn, turn, cancel, round, replied, calls,
                   outcomeVars>>

\* Only the cancel has finished, though the future may be resolved by now: the reply
\* task is cancelled.  Its finally, which drops the future, is entered after the send
\* only.
GateCancelled ==
    /\ session = "running"
    /\ cancel
    /\ \/ pc = "awaiting" /\ Unregister(Call.id)
       \/ pc = "asking" /\ UNCHANGED pending
    /\ TurnCancelled
    /\ fut' = "unset"
    /\ UNCHANGED <<clientVars, queueVars, bargeIn, turn, cancel, round, replied, calls,
                   outcomeVars>>

\* The handler returns, and the action is logged and recorded, or it raises, and is
\* not; the outcome is announced and becomes a result for the model.
ToolEnds == PcStep("running", "reporting")

\* Mutant: an interrupted turn stops dispatching, but nothing ends it.
CallReportedUnlessCancelled ==
    /\ session = "running"
    /\ pc = "reporting"
    /\ ~Cancelled
    /\ NextCall
    /\ UNCHANGED <<clientVars, queueVars, signalVars, turn, cancel, replied, calls,
                   outcomeVars>>

CallReported ==
    /\ session = "running"
    /\ pc = "reporting"
    /\ NextCall
    /\ UNCHANGED <<clientVars, queueVars, signalVars, turn, cancel, replied, calls,
                   outcomeVars>>

----------------------------------------------------------------------------
(* The end of the session *)

\* A send may raise once the socket is gone.  In the body of the turn that is one
\* more failed turn; in an exception handler of run it ends the agent task.
SendRaises ==
    /\ session = "running"
    /\ ~connected
    /\ \/ pc \in {"announcing", "asking", "reporting", "completing"} /\ TurnRaises
          /\ UNCHANGED turn
       \/ pc \in {"failing", "closing"} /\ pc' = "crashed"
          /\ turn' = 0
          /\ UNCHANGED <<batch, turnActive>>
    /\ UNCHANGED <<clientVars, queueVars, bargeIn, pending, fut, cancel, round,
                   replied, calls, outcomeVars>>

\* The TaskGroup is left when its three tasks have ended, or when the agent has
\* raised and the other two have been cancelled.  Only then does the finally close
\* the transport and end the conversation.
Close ==
    /\ session = "running"
    /\ \/ demux = "ended" /\ pump = "ended" /\ pc = "returned"
       \/ pc = "crashed"
    /\ session' = "closed"
    /\ demux' = "ended" /\ pump' = "ended"
    /\ pending' = {}
    /\ UNCHANGED <<clientVars, inbound, turns, bargeIn, turnActive, fut, agentVars,
                   ran>>

----------------------------------------------------------------------------

ClientNext ==
    \/ ReceiveText
    \/ \E ok \in BOOLEAN : ReceiveConfirm(ok)
    \/ ReceiveBargeIn
    \/ ReceiveAudio
    \/ Disconnect
    \/ MalformedFrame
    \/ LateDisconnect

PumpNext == PumpText \/ PumpConfirm \/ PumpBargeIn \/ PumpAudio \/ PumpClose

AgentNext ==
    \/ TakeTurn \/ TakeClose
    \/ Prepare \/ StreamText \/ (\E shape \in Batches : StreamEnd(shape))
    \/ StreamCancelled \/ TurnFails
    \/ CompleteTurn \/ ReportFailure \/ EndTurn
    \/ RunAuto \/ SkipUnknown \/ RequestConfirm \/ AwaitReply
    \/ Confirmed \/ Declined \/ GateCancelled
    \/ ToolEnds \/ CallReported
    \/ SendRaises

Next == ClientNext \/ PumpNext \/ AgentNext \/ WatcherFires \/ Close

Spec == Init /\ [][Next]_vars

\* asyncio runs every task that can run; the provider and the tool handlers have
\* timeouts, so a stream or a handler ends.  Nothing is assumed of the client.
Fairness ==
    /\ WF_vars(PumpNext)
    /\ WF_vars(AgentNext)
    /\ WF_vars(WatcherFires)
    /\ WF_vars(Close)

FairSpec == Spec /\ Fairness

----------------------------------------------------------------------------
(* Type correctness *)

Frames ==
    [type : {"text"}, turn : Nat]
      \cup [type : {"confirm"}, id : Int, ok : BOOLEAN, about : Nat]
      \cup [type : {"barge_in", "audio", "close"}]

ToolCalls == [n : Nat, id : Int, cls : {"auto", "confirm", "unknown"}]

InFlight == {"preparing", "streaming", "announcing", "asking", "awaiting", "running",
             "reporting", "finishing", "failing"}

Dispatching == {"announcing", "asking", "awaiting", "running", "reporting"}

ClientTypes ==
    /\ connected \in BOOLEAN
    /\ sent \in [texts : Nat, extras : Nat]
    /\ prompt \in [n : Nat, id : Int]
    /\ approved \in SUBSET Nat
    /\ declined \in SUBSET Nat

QueueTypes ==
    /\ demux \in {"receiving", "ended"}
    /\ inbound \in Seq(Frames)
    /\ pump \in {"draining", "ended"}
    /\ turns \in Seq(Nat)

SignalTypes ==
    /\ bargeIn \in BOOLEAN
    /\ turnActive \in BOOLEAN
    /\ pending \in SUBSET [id : Int, n : Nat]
    /\ fut \in {"unset", "ok", "no"}

\* A batch is held exactly while its calls are dispatched, and the model is asked, and
\* its calls run, only while rounds are left.
AgentTypes ==
    /\ pc \in InFlight \cup {"waiting", "completing", "closing", "returned", "crashed"}
    /\ turn \in Nat
    /\ cancel \in BOOLEAN
    /\ round \in 0..MaxToolRounds
    /\ batch \in Seq(ToolCalls)
    /\ (pc \in Dispatching) <=> (batch # <<>>)
    /\ pc \in {"preparing", "streaming"} \cup Dispatching => round < MaxToolRounds
    /\ replied \in BOOLEAN
    /\ calls \in Nat

OutcomeTypes ==
    /\ session \in {"running", "closed"}
    /\ ran \in SUBSET Nat

\* The types of the state of Session, TextTransport and AgentLoop; the rounds of a turn
\* stay within _MAX_TOOL_ROUNDS and no call of a batch is left behind by a turn's end.
TypeOK == ClientTypes /\ QueueTypes /\ SignalTypes /\ AgentTypes /\ OutcomeTypes

----------------------------------------------------------------------------
(* Safety *)

AtGate == pc \in {"asking", "awaiting"}

\* A CONFIRM tool runs only when the user has answered the request of that very call
\* with ok:true, whatever replies to other requests are still under way when its own
\* is open (confirm.py: "never runs without an explicit ok:true from the user").
ConfirmedOnly == ran \subseteq approved

\* The open request can always be answered: until its future is resolved it is
\* registered under the call's id, whether or not the request has left the socket
\* yet and whatever earlier requests left behind (TextTransport._pending).
GateReachable ==
    AtGate /\ fut = "unset" => [id |-> Call.id, n |-> Call.n] \in pending

\* Text interrupts exactly the turn that is in flight: _turn_active is true from the
\* moment a turn is handed out until its last status or turn_end is being sent, on
\* every way out of the turn (completed, interrupted, failed).  A turn that fails may
\* have been active or, when sending its turn_end failed, no longer.
TurnActiveExact ==
    /\ pc \in InFlight \ {"failing"} => turnActive
    /\ turnActive => pc \in InFlight \cup {"crashed"}

\* The turn under way, the turns that wait and the frames on their way, as the numbers of
\* their texts; 0 is what is no text.
Line ==
    <<turn>> \o turns
      \o [i \in 1..Len(inbound) |-> IF inbound[i].type = "text" THEN inbound[i].turn ELSE 0]

\* Every text becomes a turn, once and in the order sent, also when it interrupts
\* another: between the demux, the pump and the agent none is doubled or overtaken, and
\* none is lost that was sent after one that is still to be answered.
TextsInOrder ==
    LET Texts == {i \in 1..Len(Line) : Line[i] # 0}
    IN  /\ \A i, j \in Texts : i < j => Line[i] < Line[j]
        /\ \A i \in Texts :
             \/ Line[i] = sent.texts
             \/ Line[i] < sent.texts /\ \E j \in Texts : Line[j] = Line[i] + 1

\* A turn interrupted while the model streams says nothing more, makes no tool call
\* and is not completed, even if the watcher has not run yet (AgentLoop._cancelled).
InterruptedStreamStops ==
    [][pc = "streaming" /\ bargeIn =>
         /\ pc' \in {"streaming", "closing", "failing"}
         /\ replied' = replied
         /\ batch' = batch]_vars

Promise == INSTANCE ConfirmPromise
    WITH open <- IF AtGate THEN Call.n ELSE 0

\* The gate, with its queues, futures and races, keeps the promise of ConfirmPromise.
KeepsPromise == Promise!Spec

----------------------------------------------------------------------------
(* Liveness *)

\* A wait at the gate ends once the user has answered, or has interrupted: the reply takes
\* the pump and the future, the interruption the signal, the watcher and the cancel event.
GateReleases ==
    (pc = "awaiting" /\ (Call.n \in approved \cup declined \/ bargeIn)) ~> (pc # "awaiting")

\* A turn ends by itself, after at most MaxToolRounds rounds, unless it waits for the user.
TurnEnds == InTurn ~> (~InTurn \/ pc = "awaiting")

\* When the receive side ends, so does the session, unless the agent is at the gate.
SessionEnds == (demux = "ended") ~> (session = "closed" \/ pc = "awaiting")

\* When the client is gone the session ends and is cleaned up (phase-1-runtime.md:
\* "runs the Session; cleans up on disconnect").
DisconnectEndsSession == ~connected ~> (session = "closed")
============================================================================
