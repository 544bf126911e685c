---------------------------- MODULE VoicePipeline ----------------------------
(***************************************************************************)
(* One voice-mode session: the VoicePipeline of server/app/voice and the   *)
(* agent loop it serves.                                                   *)
(*                                                                         *)
(*   pump    inbound -> endpointer, ASR -> turns, and the barge-in event   *)
(*   agent   turns -> reply -> sentences -> TTS -> audio frames            *)
(*   speaker _speak, run by the agent or, for a question, by the gate's    *)
(*           reply task                                                    *)
(*   watcher copies the barge-in event into the turn's cancel event        *)
(*                                                                         *)
(* An action is what one task does between two awaits.  Audio is what the  *)
(* endpointer makes of it: a chunk in which speech begins, one in which an *)
(* utterance ends, or both; only the pump feeds the endpointer, in order.  *)
(* Inputs (utterances by their end, typed texts) are numbered as they are  *)
(* sent, which the code does not do: the number is their identity here.    *)
(* The tools of a turn, but for its questions, are in TextSession.         *)
(***************************************************************************)
EXTENDS Integers, Sequences, FiniteSets, SequencesExt

CONSTANTS
    MaxInputs,     \* bound: utterances and typed texts of the client
    MaxHints,      \* bound: barge-in frames of the client
    MaxTokens,     \* bound: tokens of a reply
    MaxQuestions   \* bound: confirmations the model asks for in the session

ASSUME BoundsAssumption ==
    {MaxInputs, MaxHints, MaxTokens, MaxQuestions} \subseteq Nat

VARIABLES
    connected,    \* the client holds its end of the socket open
    said,         \* inputs the client has sent
    hints,        \* barge-in frames the client has sent
    mic,          \* the endpointer after every chunk sent: "quiet" or "speech"
    inbound,      \* Session._inbound, with what is still on the wire
    voice,        \* the endpointer after every chunk the pump has handled
    pump,         \* where the pump is suspended
    hearing,      \* the utterance the pump has given to the ASR
    turns,        \* VoicePipeline._turns
    bargeIn,      \* the flag of the current _barge_in event
    cause,        \* history: the first input the interruption may be part of
    turnActive,   \* VoicePipeline._turn_active
    fut,          \* the future of the open question: "unset", "ok", "no"
    pc,           \* where the agent task is suspended
    turn,         \* the turn being run, or the last one
    cancel,       \* the turn's cancel event
    tokens,       \* tokens of the reply so far
    asked,        \* questions of the session so far
    buf,          \* _sentence_buf: [whole, tail]
    spoke,        \* _spoke_this_turn
    speaker,      \* where _speak is suspended, "idle" when it is not running
    chunk,        \* the turns whose text is in the sentence _speak was given
    status,       \* the last status sent
    late,         \* history: audio frames sent in this turn after its barge-in
    taken,        \* history: inputs that became a turn
    lost,         \* history: utterances without a turn (ASR failed, blank, no socket)
    session       \* "running" or "closed"

clientVars  == <<connected, said, hints, mic>>
pumpVars    == <<voice, pump, hearing, lost>>
signalVars  == <<bargeIn, cause, turnActive>>
turnVars    == <<turn, cancel, tokens, taken>>
speechVars  == <<spoke, speaker, chunk, late>>
vars == <<clientVars, inbound, pumpVars, turns, signalVars, fut, pc, turnVars, asked,
          buf, speechVars, status, session>>

----------------------------------------------------------------------------
(* Data *)

CLOSE == 0

\* before: inputs sent before the frame; ends: the utterance that ends in a chunk.
AudioFrame(onset, ends) == [type |-> "audio", onset |-> onset, ends |-> ends, before |-> said]
TextFrame(k)      == [type |-> "text", k |-> k]
ConfirmFrame(ok)  == [type |-> "confirm", ok |-> ok, q |-> asked]
HintFrame         == [type |-> "barge_in", before |-> said]
CloseFrame        == [type |-> "close"]

\* What a token does to the buffer: how many sentences it completes and whether
\* it leaves a partial one.
TokenShapes == {[ends |-> 0, rest |-> TRUE], [ends |-> 1, rest |-> FALSE],
                [ends |-> 1, rest |-> TRUE], [ends |-> 2, rest |-> FALSE]}

\* A sentence is the set of the turns whose text is in it.
EmptyBuf == [whole |-> <<>>, tail |-> {}]

Extended(shape) ==
    LET mine  == buf.tail \cup {turn}
        first == IF shape.ends = 0 THEN <<>>
                 ELSE <<mine>> \o [i \in 1..(shape.ends - 1) |-> {turn}]
    IN  [whole |-> buf.whole \o first,
         tail  |-> IF shape.ends = 0 THEN mine ELSE IF shape.rest THEN {turn} ELSE {}]

InTurn == pc \notin {"waiting", "returned", "crashed"}

\* Mutant: _speak looks at the turn's cancel event, which the watcher sets.
InterruptedByWatcher == cancel

\* _barge_in.is_set(), as _speak and AgentLoop._cancelled ask it.
Interrupted == bargeIn

Init ==
    /\ connected = TRUE /\ said = 0 /\ hints = 0 /\ mic = "quiet"
    /\ inbound = <<>> /\ voice = "quiet" /\ pump = "draining" /\ hearing = 0
    /\ turns = <<>> /\ bargeIn = FALSE /\ cause = 0 /\ turnActive = FALSE
    /\ fut = "unset" /\ pc = "waiting" /\ turn = 0 /\ cancel = FALSE /\ tokens = 0
    /\ asked = 0 /\ buf = EmptyBuf /\ spoke = FALSE /\ speaker = "idle" /\ chunk = {}
    /\ status = "none" /\ late = 0 /\ taken = {} /\ lost = {} /\ session = "running"

----------------------------------------------------------------------------
(* The client's frames *)

Receive(frame) ==
    /\ connected
    /\ inbound' = Append(inbound, frame)
    /\ UNCHANGED <<connected, pumpVars, turns, signalVars, fut, pc, turnVars, asked, buf,
                   speechVars, status, session>>

\* Speech begins in a chunk, or an utterance ends in it, or both.
ReceiveAudio(onset, ends) ==
    /\ onset \/ ends
    /\ onset <=> (mic = "quiet")
    /\ said < MaxInputs
    /\ said' = IF ends THEN said + 1 ELSE said
    /\ mic' = IF ends THEN "quiet" ELSE "speech"
    /\ Receive(AudioFrame(onset, IF ends THEN said + 1 ELSE 0))
    /\ UNCHANGED hints

ReceiveText ==
    /\ said < MaxInputs
    /\ said' = said + 1
    /\ Receive(TextFrame(said + 1))
    /\ UNCHANGED <<hints, mic>>

ReceiveBargeIn ==
    /\ hints < MaxHints
    /\ hints' = hints + 1
    /\ Receive(HintFrame)
    /\ UNCHANGED <<said, mic>>

\* The open question is answered, once.
ReceiveConfirm(ok) ==
    /\ pc = "confirming" /\ fut = "unset"
    /\ \A i \in DOMAIN inbound : inbound[i] \notin {ConfirmFrame(TRUE), ConfirmFrame(FALSE)}
    /\ Receive(ConfirmFrame(ok))
    /\ UNCHANGED <<said, hints, mic>>

\* The socket closes: the demux ends with its sentinel.
Disconnect ==
    /\ connected
    /\ connected' = FALSE
    /\ inbound' = Append(inbound, CloseFrame)
    /\ UNCHANGED <<said, hints, mic, pumpVars, turns, signalVars, fut, pc, turnVars, asked,
                   buf, speechVars, status, session>>

----------------------------------------------------------------------------
(* VoicePipeline.pump *)

Pump(type) ==
    /\ session = "running"
    /\ pump = "draining"
    /\ inbound # <<>>
    /\ Head(inbound).type = type
    /\ inbound' = Tail(inbound)
    /\ UNCHANGED <<clientVars, turnActive, pc, turnVars, asked, buf, speechVars, status,
                   session>>

PumpStep(from, to) ==
    /\ session = "running"
    /\ pump = from
    /\ pump' = to
    /\ UNCHANGED <<clientVars, inbound, voice, signalVars, fut, pc, turnVars, asked, buf,
                   speechVars, status, session>>

SetBargeIn(when, from) ==
    /\ bargeIn' = (bargeIn \/ when)
    /\ cause' = IF when THEN from ELSE cause

\* The onset of speech interrupts an active turn; the pump then waits for the
\* transcription of the utterance that ends.
PumpAudio ==
    /\ Pump("audio")
    /\ LET chunkIn == Head(inbound)
       IN  /\ SetBargeIn(chunkIn.onset /\ turnActive, chunkIn.before + 1)
           /\ voice' = IF chunkIn.ends # 0 THEN "quiet" ELSE "speech"
           /\ hearing' = chunkIn.ends
           /\ pump' = IF chunkIn.ends # 0 THEN "transcribing" ELSE "draining"
    /\ UNCHANGED <<turns, fut, lost>>

PumpText ==
    /\ Pump("text")
    /\ SetBargeIn(turnActive, Head(inbound).k)
    /\ turns' = Append(turns, Head(inbound).k)
    /\ UNCHANGED <<pumpVars, fut>>

PumpConfirm ==
    /\ Pump("confirm")
    /\ fut' = IF pc = "confirming" /\ Head(inbound).q = asked
              THEN IF Head(inbound).ok THEN "ok" ELSE "no"
              ELSE fut
    /\ UNCHANGED <<pumpVars, turns, bargeIn, cause>>

PumpBargeIn ==
    /\ Pump("barge_in")
    /\ SetBargeIn(TRUE, Head(inbound).before + 1)
    /\ UNCHANGED <<pumpVars, turns, fut>>

\* Mutant: the pump returns without passing the sentinel on.
PumpCloseSilently ==
    /\ Pump("close")
    /\ pump' = "ended"
    /\ UNCHANGED <<turns, voice, hearing, lost, bargeIn, cause, fut>>

PumpClose ==
    /\ Pump("close")
    /\ turns' = Append(turns, CLOSE)
    /\ pump' = "ended"
    /\ UNCHANGED <<voice, hearing, lost, bargeIn, cause, fut>>

\* The transcription arrives and is metered; its text is shown, then handed on.
Transcribed == PumpStep("transcribing", "showing") /\ UNCHANGED <<turns, hearing, lost>>

QueueUtterance ==
    /\ PumpStep("showing", "draining")
    /\ turns' = Append(turns, hearing)
    /\ hearing' = 0
    /\ UNCHANGED lost

\* Mutant: what goes wrong with an utterance ends the pump.
DropUtteranceAndStop(from, to) ==
    /\ PumpStep(from, "ended")
    /\ lost' = lost \cup {hearing}
    /\ hearing' = 0
    /\ UNCHANGED turns

\* No turn comes of the utterance.
DropUtterance(from, to) ==
    /\ PumpStep(from, to)
    /\ lost' = lost \cup {hearing}
    /\ hearing' = 0
    /\ UNCHANGED turns

\* The text is blank.
HeardNothing == DropUtterance("transcribing", "draining")

\* The ASR fails, and an error is sent.
AsrFails == DropUtterance("transcribing", "apologising")

Apologised == PumpStep("apologising", "draining") /\ UNCHANGED <<turns, hearing, lost>>

\* The transcript cannot be sent: pump logs the exception and goes on.
ShowFails == ~connected /\ DropUtterance("showing", "draining")

----------------------------------------------------------------------------
(* _speak *)

SpeakerStep(from, to) ==
    /\ session = "running"
    /\ speaker = from
    /\ speaker' = to
    /\ UNCHANGED <<clientVars, inbound, pumpVars, turns, signalVars, fut, turnVars, asked,
                   session>>

\* What a call of _speak comes to before its first await.
Speak(sentence) ==
    /\ speaker' = IF Interrupted \/ sentence = {} THEN "idle" ELSE "synthesizing"
    /\ chunk' = IF Interrupted THEN {} ELSE sentence

SendAudio == late' = IF bargeIn THEN late + 1 ELSE late

\* The TTS fails or returns nothing, or there was an interruption meanwhile.
NothingToPlay ==
    /\ SpeakerStep("synthesizing", "idle")
    /\ chunk' = {}
    /\ UNCHANGED <<pc, buf, spoke, late, status>>

FirstAudio ==
    /\ SpeakerStep("synthesizing", "announcing")
    /\ ~Interrupted /\ ~spoke
    /\ spoke' = TRUE
    /\ status' = "speaking"
    /\ UNCHANGED <<pc, buf, chunk, late>>

MoreAudio ==
    /\ SpeakerStep("synthesizing", "playing")
    /\ ~Interrupted /\ spoke
    /\ SendAudio
    /\ UNCHANGED <<pc, buf, spoke, chunk, status>>

Announced ==
    /\ SpeakerStep("announcing", "playing")
    /\ SendAudio
    /\ UNCHANGED <<pc, buf, spoke, chunk, status>>

\* The audio is sent and metered.
Played ==
    /\ SpeakerStep("playing", "idle")
    /\ chunk' = {}
    /\ UNCHANGED <<pc, buf, spoke, late, status>>

SpeakerNext == NothingToPlay \/ FirstAudio \/ MoreAudio \/ Announced \/ Played

----------------------------------------------------------------------------
(* The agent task: AgentLoop.run and _run_turn, and emit as it calls it *)

AgentStep(from, to) ==
    /\ session = "running"
    /\ pc = from
    /\ pc' = to
    /\ UNCHANGED <<clientVars, inbound, pumpVars, session>>

\* A step between two awaits of the agent that touches only pc and the status.
Go(from, to) ==
    /\ AgentStep(from, to)
    /\ UNCHANGED <<turns, bargeIn, cause, fut, turnVars, asked, buf, speechVars>>

Quiet == speaker = "idle"

\* Mutant: user_turns keeps what the last turn left in the sentence buffer.
FreshSpeechButBuffer == buf' = buf /\ spoke' = FALSE

FreshSpeech == buf' = EmptyBuf /\ spoke' = FALSE

\* Mutant: user_turns keeps the event of the last turn.
SameSignal == UNCHANGED <<bargeIn, cause>>

FreshSignal == bargeIn' = FALSE /\ cause' = 0

\* Mutant: the latest input first.
LatestTurn ==
    /\ turn' = Last(turns)
    /\ turns' = Front(turns)

NextTurn ==
    /\ turn' = Head(turns)
    /\ turns' = Tail(turns)

\* user_turns hands a turn out, and THINKING is sent.
TakeTurn ==
    /\ AgentStep("waiting", "preparing")
    /\ turns # <<>> /\ Head(turns) # CLOSE
    /\ NextTurn
    /\ taken' = taken \cup {turn'}
    /\ FreshSignal
    /\ turnActive' = TRUE
    /\ cancel' = FALSE
    /\ tokens' = 0
    /\ late' = 0
    /\ FreshSpeech
    /\ status' = "thinking"
    /\ UNCHANGED <<fut, asked, speaker, chunk>>

TakeClose ==
    /\ turns # <<>> /\ Head(turns) = CLOSE
    /\ AgentStep("waiting", "returned")
    /\ turns' = Tail(turns)
    /\ UNCHANGED <<signalVars, fut, turnVars, asked, buf, speechVars, status>>

Cancelled == cancel \/ Interrupted

\* The watcher of the turn.
WatcherFires ==
    /\ session = "running" /\ InTurn /\ bargeIn /\ ~cancel
    /\ cancel' = TRUE
    /\ UNCHANGED <<clientVars, inbound, pumpVars, turns, signalVars, fut, pc, turn, tokens,
                   taken, asked, buf, speechVars, status, session>>

\* The text is echoed and recorded, the memories are recalled.
Prepare == Go("preparing", "streaming") /\ UNCHANGED <<turnActive, status>>

\* A token arrives and is mirrored as text.
Token ==
    /\ AgentStep("streaming", "mirroring")
    /\ ~Cancelled
    /\ tokens < MaxTokens
    /\ tokens' = tokens + 1
    /\ UNCHANGED <<turns, signalVars, fut, turn, cancel, taken, asked, buf, speechVars, status>>

\* It is added to the sentence buffer.
Buffer(shape) ==
    /\ AgentStep("mirroring", "voicing")
    /\ buf' = Extended(shape)
    /\ UNCHANGED <<turns, signalVars, fut, turnVars, asked, speechVars, status>>

\* _speak_complete_sentences: one sentence after the other, to the last.
SpeakSentence ==
    /\ Quiet /\ buf.whole # <<>>
    /\ AgentStep("voicing", "voicing")
    /\ buf' = [buf EXCEPT !.whole = Tail(@)]
    /\ Speak(Head(buf.whole))
    /\ UNCHANGED <<turns, signalVars, fut, turnVars, asked, spoke, late, status>>

SentencesSpoken ==
    /\ Quiet /\ buf.whole = <<>>
    /\ Go("voicing", "streaming")
    /\ UNCHANGED <<turnActive, status>>

\* The reply ends with a question about a tool call; its running is announced.
ReplyAsks ==
    /\ ~Cancelled /\ asked < MaxQuestions
    /\ Go("streaming", "dispatching")
    /\ UNCHANGED <<turnActive, status>>

\* request_confirm registers a future, sends the request, speaks the question ...
AskConfirm ==
    /\ AgentStep("dispatching", "confirming")
    /\ asked' = asked + 1
    /\ fut' = "unset"
    /\ speaker' = "asking"
    /\ UNCHANGED <<turns, signalVars, turnVars, buf, spoke, chunk, late, status>>

SpeakQuestion ==
    /\ session = "running" /\ pc = "confirming" /\ speaker = "asking"
    /\ Speak({turn})
    /\ UNCHANGED <<clientVars, inbound, pumpVars, turns, signalVars, fut, pc, turnVars,
                   asked, buf, spoke, late, status, session>>

\* ... and awaits the reply, after which the tool runs and the model goes on.
Answered ==
    /\ Quiet /\ fut # "unset"
    /\ Go("confirming", "streaming")
    /\ UNCHANGED <<turnActive, status>>

\* Mutant: the gate looks for an interruption once it has the reply.
GateEndsOnceAnswered ==
    /\ cancel /\ fut # "unset"
    /\ pc' = "closing"
    /\ speaker' = "idle" /\ chunk' = {}

\* The gate is cancelled: so is its reply task, wherever it is.
GateEnds ==
    /\ cancel
    /\ pc' = "closing"
    /\ speaker' = "idle" /\ chunk' = {}

\* set_status(LISTENING) of a cancelled turn.
Listening == turnActive' = FALSE /\ status' = "listening"

TurnCancelled ==
    /\ Cancelled
    /\ Go("streaming", "closing")
    /\ Listening

GateCancelled ==
    /\ session = "running" /\ pc = "confirming"
    /\ GateEnds
    /\ Listening
    /\ UNCHANGED <<clientVars, inbound, pumpVars, turns, bargeIn, cause, fut, turnVars, asked,
                   buf, spoke, late, session>>

\* The model, the memory or a tool raises: an error is sent, then IDLE.
TurnRaises ==
    /\ pc \in {"preparing", "streaming"}
    /\ Go(pc, "failing")
    /\ UNCHANGED <<turnActive, status>>

TurnFailed == Go("failing", "closing") /\ turnActive' = FALSE /\ status' = "idle"

\* The reply is complete and recorded; flush_output speaks the rest of the buffer.
ReplyEnds == ~Cancelled /\ Go("streaming", "recording") /\ UNCHANGED <<turnActive, status>>

Flush ==
    /\ AgentStep("recording", "flushing")
    /\ buf' = [buf EXCEPT !.tail = {}]
    /\ Speak(buf.tail)
    /\ UNCHANGED <<turns, signalVars, fut, turnVars, asked, spoke, late, status>>

\* turn_end, then set_status(IDLE).
TurnComplete == Quiet /\ Go("flushing", "completing") /\ turnActive' = FALSE /\ UNCHANGED status

TurnIdle == Go("completing", "closing") /\ turnActive' = FALSE /\ status' = "idle"

\* The last status is sent.
TurnOver == Go("closing", "waiting") /\ UNCHANGED <<turnActive, status>>

Sending == pc \in {"preparing", "mirroring", "dispatching", "failing", "completing", "closing"}
             \/ speaker \in {"asking", "announcing", "playing"}

\* A send on a closed socket raises, and so does the error frame that reports it: the
\* exception leaves the loop and the TaskGroup cancels the other tasks.
SendRaises ==
    /\ session = "running" /\ InTurn /\ ~connected /\ Sending
    /\ session' = "closed" /\ pc' = "crashed" /\ pump' = "ended" /\ speaker' = "idle"
    /\ chunk' = {}
    /\ UNCHANGED <<clientVars, inbound, voice, hearing, lost, turns, signalVars, fut,
                   turnVars, asked, buf, spoke, late, status>>

Close ==
    /\ session = "running" /\ pc = "returned" /\ pump = "ended"
    /\ session' = "closed"
    /\ UNCHANGED <<clientVars, inbound, pumpVars, turns, signalVars, fut, pc, turnVars, asked,
                   buf, speechVars, status>>

----------------------------------------------------------------------------

ClientNext ==
    \/ \E onset, ends \in BOOLEAN : ReceiveAudio(onset, ends)
    \/ ReceiveText \/ ReceiveBargeIn \/ Disconnect
    \/ \E ok \in BOOLEAN : ReceiveConfirm(ok)

PumpNext ==
    \/ PumpAudio \/ PumpText \/ PumpConfirm \/ PumpBargeIn \/ PumpClose
    \/ Transcribed \/ QueueUtterance \/ HeardNothing \/ AsrFails \/ Apologised \/ ShowFails

AgentNext ==
    \/ TakeTurn \/ TakeClose \/ Prepare \/ Token \/ SpeakSentence \/ SentencesSpoken
    \/ \E shape \in TokenShapes : Buffer(shape)
    \/ ReplyAsks \/ AskConfirm \/ SpeakQuestion \/ Answered \/ GateCancelled
    \/ TurnCancelled \/ TurnRaises \/ TurnFailed
    \/ ReplyEnds \/ Flush \/ TurnComplete \/ TurnIdle \/ TurnOver \/ SendRaises

Next == ClientNext \/ PumpNext \/ AgentNext \/ SpeakerNext \/ WatcherFires \/ Close

\* The event loop runs every task that can run, and each request to the model, the ASR
\* and the TTS returns or times out.  The client owes nothing.
Fairness ==
    /\ WF_vars(PumpNext)
    /\ WF_vars(AgentNext)
    /\ WF_vars(SpeakerNext)
    /\ WF_vars(WatcherFires)
    /\ WF_vars(Close)

Spec == Init /\ [][Next]_vars

FairSpec == Spec /\ Fairness

----------------------------------------------------------------------------
(* Type correctness *)

Frames ==
    [type : {"audio"}, onset : BOOLEAN, ends : 0..MaxInputs, before : 0..MaxInputs]
      \cup [type : {"text"}, k : 1..MaxInputs]
      \cup [type : {"confirm"}, ok : BOOLEAN, q : 1..MaxQuestions]
      \cup [type : {"barge_in"}, before : 0..MaxInputs]
      \cup [type : {"close"}]

\* The types of the state of VoicePipeline and of the loop it serves; _speak runs only
\* within a token, a question or the flush, and the ASR only on an utterance.
TypeOK ==
    /\ connected \in BOOLEAN /\ said \in 0..MaxInputs /\ hints \in 0..MaxHints
    /\ {mic, voice} \subseteq {"quiet", "speech"}
    /\ inbound \in Seq(Frames)
    /\ pump \in {"draining", "transcribing", "showing", "apologising", "ended"}
    /\ hearing \in 0..MaxInputs
    /\ pump \in {"transcribing", "showing"} => hearing # 0
    /\ turns \in Seq(0..MaxInputs)
    /\ bargeIn \in BOOLEAN /\ cause \in 0..(MaxInputs + 1) /\ turnActive \in BOOLEAN
    /\ fut \in {"unset", "ok", "no"}
    /\ pc \in {"waiting", "preparing", "streaming", "mirroring", "voicing", "dispatching",
               "confirming", "recording", "flushing", "completing", "failing", "closing",
               "returned", "crashed"}
    /\ turn \in 0..MaxInputs /\ cancel \in BOOLEAN
    /\ tokens \in 0..MaxTokens /\ asked \in 0..MaxQuestions
    /\ buf \in [whole : Seq(SUBSET (1..MaxInputs)), tail : SUBSET (1..MaxInputs)]
    /\ speaker \in {"idle", "asking", "synthesizing", "announcing", "playing"}
    /\ speaker # "idle" => pc \in {"voicing", "confirming", "flushing"}
    /\ (chunk # {}) <=> speaker \in {"synthesizing", "announcing", "playing"}
    /\ chunk \subseteq 1..MaxInputs /\ spoke \in BOOLEAN /\ late \in Nat
    /\ status \in {"none", "thinking", "speaking", "listening", "idle"}
    /\ taken \cup lost \subseteq 1..MaxInputs
    /\ session \in {"running", "closed"}

----------------------------------------------------------------------------
(* Safety *)

\* What is synthesized and played in a turn is text of that turn's own reply: what an
\* interrupted or failed turn left in the sentence buffer is never spoken, neither by
\* itself nor joined to a sentence of the next reply (_sentence_buf, user_turns, emit).
SpeaksOwnReply == chunk \subseteq {turn}

\* After an interruption at most one more audio frame goes out, the one that was ready
\* when it came ("Speech during playback is a barge-in: it cancels the turn").
FallsSilent == late <= 1

\* Inputs become turns in the order in which the user gave them, spoken or typed: none
\* overtakes an utterance that is still being transcribed, and none is left out but
\* the utterances nothing was heard in.
InputsInOrder == \A k \in taken : \A j \in 1..(k - 1) : j \in taken \cup lost

\* What interrupts a turn was said after the turn's own input: no turn is cancelled by
\* the onset of the utterance it answers or by what interrupted an earlier turn.
InterruptedFromLater == InTurn /\ bargeIn => cause > turn

\* Speech during playback is a barge-in (module text of pipeline.py): while audio is
\* sent to a user who is speaking, the turn is interrupted.
SpeechStopsPlayback == speaker = "playing" /\ voice = "speech" => bargeIn

----------------------------------------------------------------------------
(* Liveness *)

\* An interruption ends the turn, at whatever the turn is waiting for: the model, the
\* TTS, or the user's answer.
BargeInEndsTurn == (InTurn /\ bargeIn) ~> ~InTurn

\* The session ends when the client has gone, whatever the pump and the agent were at,
\* unless the agent is left at the gate.
HangUpEndsSession == ~connected ~> (session = "closed" \/ pc = "confirming")

\* Every input becomes a turn, or nothing is heard in it, unless the session is over or
\* a question is never answered.
InputsAreHeard ==
    \A k \in 1..MaxInputs :
        (said >= k) ~> (k \in taken \cup lost \/ session = "closed" \/ [](pc = "confirming"))
============================================================================
