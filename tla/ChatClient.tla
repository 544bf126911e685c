----------------------------- MODULE ChatClient -----------------------------
(***************************************************************************)
(* The chat side of the app, on one end of a socket: ChatController with   *)
(* its reducer, the confirmation dialog of the screen, and WsTransport,    *)
(* which may be reconnected in text or in voice mode; on the other end a   *)
(* session of the server, reduced to the frames it exchanges (TextSession  *)
(* has its tasks, queues and futures).                                     *)
(*                                                                         *)
(* A turn is numbered in the order in which the user typed or spoke; a     *)
(* request for confirmation in the order in which the server made it.      *)
(***************************************************************************)
EXTENDS Integers, Sequences, FiniteSets

CONSTANTS
    MaxTurns,     \* bound: turns the user starts
    MaxChunks,    \* bound: chunks of reply text
    MaxAsks,      \* bound: confirmations the server requests
    MaxBreaks     \* bound: connections lost or replaced

ASSUME BoundsAssumption ==
    MaxTurns \in Nat /\ MaxChunks \in Nat /\ MaxAsks \in Nat /\ MaxBreaks \in Nat

VARIABLES
    channel,        \* WsTransport._channel: "none", or the mode of the open one
    reconnecting,   \* the modes of the calls of reconnect that await the close
    connected,      \* ChatState.connected
    messages,       \* ChatState.messages: [role, turns, streaming]
    sessionState,   \* ChatState.sessionState
    pending,        \* ChatState.pendingConfirm, 0 for null
    dialog,         \* the request whose summary is on the screen, 0 for none
    toClient,       \* frames on their way to the app
    toServer,       \* frames on their way to the server
    phase,          \* the session: "none", "handshake", "idle", "turn", "asking"
    queue,          \* TextTransport._turns
    turn,           \* the turn the session runs
    interrupted,    \* its _barge_in
    spoke,          \* VoicePipeline._spoke_this_turn
    answer,         \* the reply to the open request: "none", "yes" or "no"
    count,          \* history: [turns, chunks, asks, breaks] so far
    shown,          \* history: requests whose own dialog the user answered Yes
    ran,            \* history: requests whose call has been let run
    cut             \* history: the app is busy with a turn it will hear nothing of

chatState  == <<connected, messages, sessionState, pending, dialog>>
socket     == <<channel, reconnecting>>
wires      == <<toClient, toServer>>
serverVars == <<phase, queue, turn, interrupted, spoke, answer>>
history    == <<count, shown, ran, cut>>
vars == <<chatState, socket, wires, serverVars, history>>

----------------------------------------------------------------------------
(* Frames and messages *)

AuthOk          == [type |-> "auth_ok"]
StatusFrame(s)  == [type |-> "status", state |-> s]
UserText(k)     == [type |-> "transcript", role |-> "user", turn |-> k]
EdithText(k)    == [type |-> "transcript", role |-> "edith", turn |-> k]
RequestFrame(n) == [type |-> "confirm_request", ask |-> n]
TurnEnd         == [type |-> "turn_end"]
Closed          == [type |-> "ws_closed"]

TextFrame(k)         == [type |-> "text", turn |-> k]
ConfirmFrame(n, yes) == [type |-> "confirm", ask |-> n, yes |-> yes]

\* A bubble; the turns whose text it shows are history.
UserMessage(k)   == [role |-> "user", turns |-> {k}, streaming |-> FALSE]
EdithMessage(k)  == [role |-> "edith", turns |-> {k}, streaming |-> TRUE]

IsBusy  == sessionState \in {"thinking", "speaking"}
CanSend == connected /\ pending = 0 /\ ~IsBusy

Init ==
    /\ channel = "none" /\ reconnecting = {"text"}
    /\ connected = FALSE /\ messages = <<>> /\ sessionState = "idle"
    /\ pending = 0 /\ dialog = 0
    /\ toClient = <<>> /\ toServer = <<>>
    /\ phase = "none" /\ queue = <<>> /\ turn = 0 /\ interrupted = FALSE
    /\ spoke = FALSE /\ answer = "none"
    /\ count = [turns |-> 0, chunks |-> 0, asks |-> 0, breaks |-> 0]
    /\ shown = {} /\ ran = {} /\ cut = FALSE

----------------------------------------------------------------------------
(* The app: events of the socket (reduce) *)

Receive(type) ==
    /\ channel # "none"
    /\ toClient # <<>>
    /\ Head(toClient).type = type
    /\ toClient' = Tail(toClient)
    /\ UNCHANGED <<toServer, serverVars, count, shown, ran>>

ReceiveAuthOk ==
    /\ Receive("auth_ok")
    /\ connected' = TRUE
    /\ UNCHANGED <<messages, sessionState, pending, dialog, socket, cut>>

ReceiveStatus ==
    /\ Receive("status")
    /\ sessionState' = Head(toClient).state
    /\ cut' = FALSE
    /\ UNCHANGED <<connected, messages, pending, dialog, socket>>

\* Mutant: a user transcript that only repeats the local echo is dropped.
ShowUserTextOnce(k) ==
    IF \E i \in DOMAIN messages : messages[i].role = "user" /\ k \in messages[i].turns
      THEN UNCHANGED messages
      ELSE messages' = Append(messages, UserMessage(k))

ShowUserText(k) == messages' = Append(messages, UserMessage(k))

\* A chunk goes into the last bubble if that is one still streaming.
ShowEdithText(k) ==
    LET last == Len(messages)
    IN  IF last > 0 /\ messages[last].streaming
          THEN messages' = [messages EXCEPT ![last].turns = @ \cup {k}]
          ELSE messages' = Append(messages, EdithMessage(k))

ReceiveTranscript ==
    /\ Receive("transcript")
    /\ LET frame == Head(toClient)
       IN  IF frame.role = "user" THEN ShowUserText(frame.turn)
                                  ELSE ShowEdithText(frame.turn)
    /\ UNCHANGED <<connected, sessionState, pending, dialog, socket, cut>>

\* The request replaces any other; the screen opens a dialog only when there was none.
ReceiveRequest ==
    /\ Receive("confirm_request")
    /\ pending' = Head(toClient).ask
    /\ dialog' = IF pending = 0 THEN Head(toClient).ask ELSE dialog
    /\ UNCHANGED <<connected, messages, sessionState, socket, cut>>

ReceiveTurnEnd ==
    /\ Receive("turn_end")
    /\ messages' = [i \in DOMAIN messages |->
                      IF i = Len(messages) THEN [messages[i] EXCEPT !.streaming = FALSE]
                                           ELSE messages[i]]
    /\ sessionState' = "idle"
    /\ cut' = FALSE
    /\ UNCHANGED <<connected, pending, dialog, socket>>

\* WsTransport._onDone: an error message, and connected stays as it was.
ReceiveClosed ==
    /\ Receive("ws_closed")
    /\ channel' = "none"
    /\ cut' = (cut \/ IsBusy)
    /\ UNCHANGED <<chatState, reconnecting>>

----------------------------------------------------------------------------
(* The app: what the user does *)

\* WsTransport.send drops the frame when there is no channel.
Send(frame) ==
    toServer' = IF channel = "none" THEN toServer ELSE Append(toServer, frame)

SendText ==
    /\ CanSend
    /\ count.turns < MaxTurns
    /\ count' = [count EXCEPT !.turns = @ + 1]
    /\ messages' = Append(messages, UserMessage(count.turns + 1))
    /\ sessionState' = "thinking"
    /\ Send(TextFrame(count.turns + 1))
    /\ cut' = (channel = "none")
    /\ UNCHANGED <<connected, pending, dialog, socket, toClient, serverVars, shown,
                   ran>>

\* The dialog is closed, and whichever request is pending by then is answered.
RespondConfirm(yes) ==
    /\ dialog # 0
    /\ Send(ConfirmFrame(pending, yes))
    /\ dialog' = 0
    /\ pending' = 0
    /\ sessionState' = IF yes THEN "thinking" ELSE "idle"
    /\ shown' = IF yes THEN shown \cup {dialog} ELSE shown
    /\ cut' = (yes /\ channel = "none")
    /\ UNCHANGED <<connected, messages, socket, toClient, serverVars, count, ran>>

\* WsTransport.reconnect, from the orb's buttons, which a dialog covers; but a Stop waits
\* for the microphone first, and a dialog may open meanwhile.  The old channel is given
\* up at once, the session behind it sees a disconnect.
ReconnectBegins(mode) ==
    /\ mode = "voice" => dialog = 0
    /\ mode \notin reconnecting
    /\ count.breaks < MaxBreaks
    /\ count' = [count EXCEPT !.breaks = @ + 1]
    /\ reconnecting' = reconnecting \cup {mode}
    /\ channel' = "none"
    /\ toClient' = <<>> /\ toServer' = <<>>
    /\ phase' = "none" /\ queue' = <<>> /\ turn' = 0 /\ interrupted' = FALSE
    /\ spoke' = FALSE /\ answer' = "none"
    /\ cut' = (cut \/ IsBusy)
    /\ UNCHANGED <<chatState, shown, ran>>

\* connect: nothing happens if another call has connected already.
Connect(mode) ==
    /\ mode \in reconnecting
    /\ reconnecting' = reconnecting \ {mode}
    /\ IF channel = "none"
         THEN /\ channel' = mode
              /\ phase' = "handshake"
              /\ toClient' = <<>> /\ toServer' = <<>>
         ELSE UNCHANGED <<channel, phase, wires>>
    /\ UNCHANGED <<chatState, queue, turn, interrupted, spoke, answer, history>>

----------------------------------------------------------------------------
(* The session, as the app sees it *)

Sends(frames) == toClient' = toClient \o frames

SessionStep(from, to) ==
    /\ phase = from
    /\ phase' = to
    /\ UNCHANGED <<chatState, socket, toServer, shown, cut>>

Authenticate ==
    /\ SessionStep("handshake", "idle")
    /\ Sends(<<AuthOk>>)
    /\ UNCHANGED <<queue, turn, interrupted, spoke, answer, count, ran>>

\* The socket is closed by the network, or by the server when it refuses the token.
Lost ==
    /\ phase # "none"
    /\ count.breaks < MaxBreaks
    /\ count' = [count EXCEPT !.breaks = @ + 1]
    /\ SessionStep(phase, "none")
    /\ Sends(<<Closed>>)
    /\ queue' = <<>> /\ turn' = 0 /\ interrupted' = FALSE /\ spoke' = FALSE
    /\ answer' = "none"
    /\ UNCHANGED ran

TurnActive == phase \in {"turn", "asking"}

\* The pump: text interrupts a turn and queues the next.
HandleText ==
    /\ phase \notin {"none", "handshake"}
    /\ toServer # <<>> /\ Head(toServer).type = "text"
    /\ toServer' = Tail(toServer)
    /\ queue' = Append(queue, Head(toServer).turn)
    /\ interrupted' = (interrupted \/ TurnActive)
    /\ UNCHANGED <<chatState, socket, toClient, phase, turn, spoke, answer, history>>

\* The pump: a reply resolves the open request if it names it.  A Yes that comes too
\* late leaves the app waiting for a turn that is over.
HandleConfirm ==
    /\ phase \notin {"none", "handshake"}
    /\ toServer # <<>> /\ Head(toServer).type = "confirm"
    /\ LET reply == Head(toServer)
           open  == phase = "asking" /\ answer = "none" /\ reply.ask = count.asks
       IN  /\ answer' = IF open THEN IF reply.yes THEN "yes" ELSE "no" ELSE answer
           /\ cut' = (cut \/ (reply.yes /\ ~open))
    /\ toServer' = Tail(toServer)
    /\ UNCHANGED <<chatState, socket, toClient, phase, queue, turn, interrupted, spoke,
                   count, shown, ran>>

\* Endpointer and pump: the onset of speech interrupts a turn.
Onset ==
    /\ channel = "voice"
    /\ TurnActive /\ ~interrupted
    /\ interrupted' = TRUE
    /\ UNCHANGED <<chatState, socket, wires, phase, queue, turn, spoke, answer, history>>

\* An utterance becomes a turn; the pump sends its text to the app, ahead of the loop.
Utterance ==
    /\ channel = "voice"
    /\ phase \in {"idle", "turn", "asking"}
    /\ count.turns < MaxTurns
    /\ count' = [count EXCEPT !.turns = @ + 1]
    /\ queue' = Append(queue, count.turns + 1)
    /\ Sends(<<UserText(count.turns + 1)>>)
    /\ UNCHANGED <<chatState, socket, toServer, phase, turn, interrupted, spoke, answer,
                   shown, ran, cut>>

StartTurn ==
    /\ SessionStep("idle", "turn")
    /\ queue # <<>>
    /\ turn' = Head(queue)
    /\ queue' = Tail(queue)
    /\ interrupted' = FALSE
    /\ spoke' = FALSE
    /\ Sends(<<StatusFrame("thinking"), UserText(Head(queue))>>)
    /\ UNCHANGED <<answer, count, ran>>

SendChunk ==
    /\ SessionStep("turn", "turn")
    /\ ~interrupted
    /\ count.chunks < MaxChunks
    /\ count' = [count EXCEPT !.chunks = @ + 1]
    /\ Sends(<<EdithText(turn)>>)
    /\ UNCHANGED <<queue, turn, interrupted, spoke, answer, ran>>

\* VoicePipeline._speak: before the first audio of a turn, of its reply or of a request.
StartSpeaking ==
    /\ channel = "voice" /\ phase \in {"turn", "asking"}
    /\ SessionStep(phase, phase)
    /\ ~interrupted /\ ~spoke
    /\ spoke' = TRUE
    /\ Sends(<<StatusFrame("speaking")>>)
    /\ UNCHANGED <<queue, turn, interrupted, answer, count, ran>>

\* A tool of class CONFIRM: announced and asked about, interrupted or not.
Ask ==
    /\ SessionStep("turn", "asking")
    /\ count.asks < MaxAsks
    /\ count' = [count EXCEPT !.asks = @ + 1]
    /\ answer' = "none"
    /\ Sends(<<RequestFrame(count.asks + 1)>>)
    /\ UNCHANGED <<queue, turn, interrupted, spoke, ran>>

\* The reply wins over an interruption.
Answered ==
    /\ SessionStep("asking", "turn")
    /\ answer # "none"
    /\ ran' = IF answer = "yes" THEN ran \cup {count.asks} ELSE ran
    /\ answer' = "none"
    /\ UNCHANGED <<toClient, queue, turn, interrupted, spoke, count>>

\* Mutant: a cancelled turn reports no status.
InterruptTurnSilently ==
    /\ interrupted /\ TurnActive
    /\ SessionStep(phase, "idle")
    /\ phase = "asking" => answer = "none"
    /\ turn' = 0
    /\ UNCHANGED <<toClient, queue, interrupted, spoke, answer, count, ran>>

InterruptTurn ==
    /\ interrupted /\ TurnActive
    /\ SessionStep(phase, "idle")
    /\ phase = "asking" => answer = "none"
    /\ turn' = 0
    /\ Sends(<<StatusFrame("listening")>>)
    /\ UNCHANGED <<queue, interrupted, spoke, answer, count, ran>>

\* Mutant: a turn that fails reports no status.
EndTurnQuietly(complete) ==
    /\ SessionStep("turn", "idle")
    /\ turn' = 0
    /\ Sends(IF complete THEN <<TurnEnd, StatusFrame("idle")>> ELSE <<>>)
    /\ UNCHANGED <<queue, interrupted, spoke, answer, count, ran>>

\* Completed, also when the interruption came after the last chunk, or failed.
EndTurn(complete) ==
    /\ SessionStep("turn", "idle")
    /\ turn' = 0
    /\ Sends(IF complete THEN <<TurnEnd, StatusFrame("idle")>> ELSE <<StatusFrame("idle")>>)
    /\ UNCHANGED <<queue, interrupted, spoke, answer, count, ran>>

----------------------------------------------------------------------------

EventNext ==
    \/ ReceiveAuthOk \/ ReceiveStatus \/ ReceiveTranscript \/ ReceiveRequest
    \/ ReceiveTurnEnd \/ ReceiveClosed
    \/ \E mode \in {"text", "voice"} : Connect(mode)

UserNext ==
    \/ SendText \/ Onset \/ Utterance
    \/ \E yes \in BOOLEAN : RespondConfirm(yes)
    \/ \E mode \in {"text", "voice"} : ReconnectBegins(mode)

SessionNext ==
    \/ Authenticate \/ HandleText \/ HandleConfirm
    \/ StartTurn \/ SendChunk \/ StartSpeaking \/ Ask \/ Answered \/ InterruptTurn
    \/ \E complete \in BOOLEAN : EndTurn(complete)

Next == EventNext \/ UserNext \/ SessionNext \/ Lost

Spec == Init /\ [][Next]_vars

\* The app handles the events that have arrived and the session runs (TextSession:
\* TurnEnds); nothing is assumed of the user.
FairSpec == Spec /\ WF_vars(EventNext) /\ WF_vars(SessionNext)

----------------------------------------------------------------------------

Turns == 1..MaxTurns
Asks  == 1..MaxAsks

Messages ==
    [role : {"user", "edith"}, turns : (SUBSET Turns) \ {{}}, streaming : BOOLEAN]

\* The types of the state; a dialog is on the screen exactly while a request is pending,
\* and only EDITH's bubbles stream.
TypeOK ==
    /\ channel \in {"none", "text", "voice"}
    /\ reconnecting \subseteq {"text", "voice"}
    /\ connected \in BOOLEAN
    /\ messages \in Seq(Messages)
    /\ \A i \in DOMAIN messages : messages[i].streaming => messages[i].role = "edith"
    /\ sessionState \in {"listening", "thinking", "speaking", "idle"}
    /\ pending \in 0..MaxAsks /\ dialog \in 0..MaxAsks
    /\ (pending = 0) <=> (dialog = 0)
    /\ phase \in {"none", "handshake", "idle", "turn", "asking"}
    /\ queue \in Seq(Turns) /\ turn \in 0..MaxTurns
    /\ interrupted \in BOOLEAN /\ spoke \in BOOLEAN
    /\ answer \in {"none", "yes", "no"}
    /\ shown \subseteq Asks /\ ran \subseteq Asks /\ cut \in BOOLEAN

\* A bubble of EDITH's shows the reply to one turn only, also when turns are interrupted,
\* never finalised, or cut off by a reconnect: the user transcript with which the server
\* begins a turn keeps the replies apart (reduce, _accumulateEdith).
BubblesOfOneTurn ==
    \A i \in DOMAIN messages : Cardinality(messages[i].turns) = 1

Quiet ==
    /\ channel # "none" /\ phase = "idle" /\ queue = <<>>
    /\ toClient = <<>> /\ toServer = <<>>

\* When the session has nothing more to do or to say, the user can type again, unless the
\* app is left busy by a turn whose connection was lost or replaced, or by a Yes that came
\* too late (chat_controller.dart: "the server also confirms via status").
InputReturns == Quiet /\ ~cut /\ dialog = 0 => CanSend

\* The app does not stay busy: it hears of the end of every turn, completed, interrupted or
\* failed, unless its user is asked, or as in InputReturns.
BusyEnds == IsBusy ~> (~IsBusy \/ dialog # 0 \/ cut)

\* A call runs only if the user answered Yes to the dialog that showed its own summary
\* (chat_models.dart: "A pending action awaiting the user's yes/no").
RunsWhatWasShown == ran \subseteq shown
=============================================================================
