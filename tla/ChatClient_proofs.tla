-------------------------- MODULE ChatClient_proofs --------------------------
(***************************************************************************)
(* Theorems about ChatClient, for any numbers of turns, chunks, requests   *)
(* and broken connections.                                                 *)
(*                                                                         *)
(*   TypeCorrect       the types; a dialog is up exactly while a request   *)
(*                     is pending                                          *)
(*   BubblesStayApart  a bubble shows the reply to one turn                *)
(*   InputComesBack    when all is quiet, the user can type again          *)
(***************************************************************************)
EXTENDS ChatClient, SequenceTheorems, FiniteSetTheorems, TLAPS

----------------------------------------------------------------------------
(* Types *)

States == {"listening", "thinking", "speaking", "idle"}

FramesToClient ==
    [type : {"auth_ok", "turn_end", "ws_closed"}]
      \cup [type : {"status"}, state : States]
      \cup [type : {"transcript"}, role : {"user", "edith"}, turn : Turns]
      \cup [type : {"confirm_request"}, ask : Asks]

FramesToServer ==
    [type : {"text"}, turn : Turns] \cup [type : {"confirm"}, ask : Asks, yes : BOOLEAN]

Counts ==
    [turns : 0..MaxTurns, chunks : 0..MaxChunks, asks : 0..MaxAsks, breaks : 0..MaxBreaks]

\* The app: TypeOK's part of it.
AppTypes ==
    /\ channel \in {"none", "text", "voice"}
    /\ reconnecting \subseteq {"text", "voice"}
    /\ connected \in BOOLEAN
    /\ messages \in Seq(Messages)
    /\ \A i \in DOMAIN messages : messages[i].streaming => messages[i].role = "edith"
    /\ sessionState \in States
    /\ pending \in 0..MaxAsks /\ dialog \in 0..MaxAsks
    /\ (pending = 0) <=> (dialog = 0)
    /\ shown \subseteq Asks /\ cut \in BOOLEAN

\* The session: TypeOK's part of it, a turn while one runs, a request while one is open.
ServerTypes ==
    /\ phase \in {"none", "handshake", "idle", "turn", "asking"}
    /\ queue \in Seq(Turns) /\ turn \in 0..MaxTurns
    /\ interrupted \in BOOLEAN /\ spoke \in BOOLEAN
    /\ answer \in {"none", "yes", "no"}
    /\ ran \subseteq Asks
    /\ count \in Counts
    /\ phase \in {"turn", "asking"} => turn # 0
    /\ phase = "asking" => count.asks # 0

WireTypes == toClient \in Seq(FramesToClient) /\ toServer \in Seq(FramesToServer)

TypeInv == AppTypes /\ ServerTypes /\ WireTypes

LEMMA TypeInvImpliesTypeOK == TypeInv => TypeOK
BY DEF TypeInv, AppTypes, ServerTypes, TypeOK, States

\* What a received frame has in it.
LEMMA ReceivedType ==
    ASSUME TypeInv, NEW type, Receive(type)
    PROVE  /\ Head(toClient) \in FramesToClient
           /\ toClient' \in Seq(FramesToClient)
           /\ type = "status" => Head(toClient).state \in States
           /\ type = "transcript" =>
                /\ Head(toClient).role \in {"user", "edith"}
                /\ Head(toClient).turn \in Turns
           /\ type = "confirm_request" => Head(toClient).ask \in Asks
<1>1. Head(toClient) \in FramesToClient /\ toClient' \in Seq(FramesToClient)
  BY DEF TypeInv, WireTypes, Receive
<1>2. Head(toClient).type = type
  BY DEF Receive
<1> QED
  BY <1>1, <1>2 DEF FramesToClient

\* The frames are of their types.
LEMMA FrameTypes ==
    /\ {AuthOk, TurnEnd, Closed} \subseteq FramesToClient
    /\ \A s \in States : StatusFrame(s) \in FramesToClient
    /\ \A k \in Turns : UserText(k) \in FramesToClient /\ EdithText(k) \in FramesToClient
    /\ \A n \in Asks : RequestFrame(n) \in FramesToClient
    /\ \A k \in Turns : TextFrame(k) \in FramesToServer
    /\ \A n \in Asks, yes \in BOOLEAN : ConfirmFrame(n, yes) \in FramesToServer
BY DEF AuthOk, TurnEnd, Closed, StatusFrame, UserText, EdithText, RequestFrame, TextFrame,
       ConfirmFrame, FramesToClient, FramesToServer

LEMMA SentType ==
    ASSUME TypeInv, NEW f \in FramesToClient, NEW g \in FramesToClient
    PROVE  /\ toClient \o <<f>> \in Seq(FramesToClient)
           /\ toClient \o <<f, g>> \in Seq(FramesToClient)
BY DEF TypeInv, WireTypes

\* The counters stay within their bounds.
LEMMA CountedType ==
    ASSUME TypeInv
    PROVE  /\ count.turns < MaxTurns =>
                count.turns + 1 \in Turns /\ [count EXCEPT !.turns = @ + 1] \in Counts
           /\ count.chunks < MaxChunks => [count EXCEPT !.chunks = @ + 1] \in Counts
           /\ count.asks < MaxAsks =>
                /\ count.asks + 1 \in Asks
                /\ [count EXCEPT !.asks = @ + 1] \in Counts
                /\ [count EXCEPT !.asks = @ + 1].asks # 0
           /\ count.breaks < MaxBreaks =>
                /\ [count EXCEPT !.breaks = @ + 1] \in Counts
                /\ [count EXCEPT !.breaks = @ + 1].asks = count.asks
<1>1. count \in Counts
  BY DEF TypeInv, ServerTypes
<1> QED
  BY <1>1, BoundsAssumption DEF Counts, Turns, Asks

\* The bubbles after a text has been shown.
LEMMA ShownType ==
    ASSUME TypeInv, NEW k \in Turns
    PROVE  /\ Append(messages, UserMessage(k)) \in Seq(Messages)
           /\ Append(messages, EdithMessage(k)) \in Seq(Messages)
           /\ Len(messages) > 0 =>
                [messages EXCEPT ![Len(messages)].turns = @ \cup {k}] \in Seq(Messages)
<1>1. UserMessage(k) \in Messages /\ EdithMessage(k) \in Messages
  BY DEF UserMessage, EdithMessage, Messages, Turns
<1>2. messages \in Seq(Messages) /\ Len(messages) \in Nat /\ DOMAIN messages = 1..Len(messages)
  BY DEF TypeInv, AppTypes
<1>3. ASSUME Len(messages) > 0
      PROVE  [messages EXCEPT ![Len(messages)].turns = @ \cup {k}] \in Seq(Messages)
  <2> DEFINE n == Len(messages)
             m == [messages[n] EXCEPT !.turns = @ \cup {k}]
  <2>1. messages[n] \in Messages
    BY <1>2, <1>3
  <2>2. m \in Messages
    BY <2>1 DEF Messages
  <2> HIDE DEF m
  <2>3. [messages EXCEPT ![n] = m] \in Seq(Messages)
    BY <1>2, <1>3, <2>2
  <2> QED
    BY <2>3 DEF m
<1> QED
  BY <1>1, <1>2, <1>3

LEMMA TypeInit == Init => TypeInv
<1> SUFFICES ASSUME Init
             PROVE  TypeInv
  OBVIOUS
<1>1. messages \in Seq(Messages) /\ queue \in Seq(Turns) /\ DOMAIN messages = {}
  BY DEF Init
<1>2. WireTypes
  BY DEF Init, WireTypes
<1>3. count \in Counts
  BY BoundsAssumption DEF Init, Counts
<1>4. 0 \in 0..MaxAsks /\ 0 \in 0..MaxTurns
  BY BoundsAssumption
<1>5. /\ channel = "none" /\ reconnecting = {"text"} /\ connected = FALSE
      /\ sessionState = "idle" /\ pending = 0 /\ dialog = 0 /\ shown = {} /\ cut = FALSE
      /\ phase = "none" /\ turn = 0 /\ interrupted = FALSE /\ spoke = FALSE
      /\ answer = "none" /\ ran = {}
  BY DEF Init
<1>6. AppTypes
  BY <1>1, <1>4, <1>5 DEF AppTypes, States
<1>7. ServerTypes
  BY <1>1, <1>3, <1>4, <1>5 DEF ServerTypes
<1> QED
  BY <1>2, <1>6, <1>7 DEF TypeInv

\* A text that is shown goes into a bubble.
LEMMA TranscriptTypes ==
    ASSUME TypeInv, ReceiveTranscript
    PROVE  /\ messages' \in Seq(Messages)
           /\ \A i \in DOMAIN messages' :
                messages'[i].streaming => messages'[i].role = "edith"
<1> DEFINE k == Head(toClient).turn
<1>1. k \in Turns
  BY ReceivedType DEF ReceiveTranscript
<1>2. /\ messages \in Seq(Messages) /\ Len(messages) \in Nat
      /\ DOMAIN messages = 1..Len(messages)
      /\ \A i \in DOMAIN messages : messages[i].streaming => messages[i].role = "edith"
  BY DEF TypeInv, AppTypes
<1>3. \/ messages' = Append(messages, UserMessage(k))
      \/ messages' = Append(messages, EdithMessage(k))
      \/ /\ Len(messages) > 0 /\ messages[Len(messages)].streaming
         /\ messages' = [messages EXCEPT ![Len(messages)].turns = @ \cup {k}]
  BY DEF ReceiveTranscript, ShowUserText, ShowEdithText
<1> HIDE DEF k
<1>4. messages' \in Seq(Messages)
  BY <1>1, <1>3, ShownType
<1>5. CASE messages' = Append(messages, UserMessage(k))
  BY <1>2, <1>4, <1>5 DEF UserMessage
<1>6. CASE messages' = Append(messages, EdithMessage(k))
  BY <1>2, <1>4, <1>6 DEF EdithMessage
<1>7. CASE /\ Len(messages) > 0
           /\ messages' = [messages EXCEPT ![Len(messages)].turns = @ \cup {k}]
  <2>1. \A i \in DOMAIN messages' : /\ i \in DOMAIN messages
                                    /\ messages'[i].streaming = messages[i].streaming
                                    /\ messages'[i].role = messages[i].role
    BY <1>2, <1>7 DEF Messages
  <2> QED
    BY <1>2, <1>4, <2>1
<1> QED
  BY <1>3, <1>5, <1>6, <1>7

\* At the end of a turn the last bubble stops to stream.
LEMMA FinalizedTypes ==
    ASSUME TypeInv, ReceiveTurnEnd
    PROVE  /\ messages' \in Seq(Messages)
           /\ \A i \in DOMAIN messages' :
                messages'[i].streaming => messages'[i].role = "edith"
<1> DEFINE m(i) == IF i = Len(messages) THEN [messages[i] EXCEPT !.streaming = FALSE]
                                        ELSE messages[i]
<1>1. /\ messages \in Seq(Messages) /\ Len(messages) \in Nat
      /\ DOMAIN messages = 1..Len(messages)
      /\ \A i \in DOMAIN messages : messages[i].streaming => messages[i].role = "edith"
  BY DEF TypeInv, AppTypes
<1>2. messages' = [i \in 1..Len(messages) |-> m(i)]
  BY <1>1 DEF ReceiveTurnEnd
<1>3. \A i \in 1..Len(messages) : messages[i] \in Messages
  BY <1>1
<1>4. \A i \in 1..Len(messages) : m(i) \in Messages /\ (m(i).streaming => m(i).role = "edith")
  BY <1>1, <1>3 DEF Messages
<1> HIDE DEF m
<1>5. messages' \in [1..Len(messages) -> Messages]
  BY <1>2, <1>4
<1>6. messages' \in Seq(Messages)
  BY <1>1, <1>5
<1> QED
  BY <1>2, <1>4, <1>6

\* What the app does with an event keeps the types.
LEMMA EventTypes ==
    ASSUME TypeInv, EventNext
    PROVE  TypeInv'
<1> USE DEF chatState, socket, serverVars, wires, history
<1>1. ASSUME NEW type, Receive(type), count' = count
      PROVE  ServerTypes' /\ WireTypes'
  BY <1>1, ReceivedType DEF Receive, ServerTypes, WireTypes, TypeInv
<1>2. CASE ReceiveAuthOk
  BY <1>1, <1>2 DEF ReceiveAuthOk, Receive, AppTypes, TypeInv
<1>3. CASE ReceiveStatus
  <2>1. Receive("status") /\ sessionState' = Head(toClient).state
    BY <1>3 DEF ReceiveStatus
  <2>2. sessionState' \in States
    BY <2>1, ReceivedType
  <2> QED
    BY <1>1, <1>3, <2>2 DEF ReceiveStatus, Receive, AppTypes, TypeInv
<1>4. CASE ReceiveTranscript
  BY <1>1, <1>4, TranscriptTypes DEF ReceiveTranscript, Receive, AppTypes, TypeInv
<1>5. CASE ReceiveRequest
  <2>1. /\ Receive("confirm_request") /\ pending' = Head(toClient).ask
        /\ dialog' = IF pending = 0 THEN Head(toClient).ask ELSE dialog
    BY <1>5 DEF ReceiveRequest
  <2>2. pending' \in Asks
    BY <2>1, ReceivedType
  <2>3. /\ pending' \in 0..MaxAsks /\ dialog' \in 0..MaxAsks
        /\ pending' # 0 /\ dialog' # 0
    BY <2>1, <2>2, BoundsAssumption DEF Asks, TypeInv, AppTypes
  <2> QED
    BY <1>1, <1>5, <2>3 DEF ReceiveRequest, Receive, AppTypes, TypeInv
<1>6. CASE ReceiveTurnEnd
  BY <1>1, <1>6, FinalizedTypes DEF ReceiveTurnEnd, Receive, AppTypes, TypeInv, States
<1>7. CASE ReceiveClosed
  BY <1>1, <1>7 DEF ReceiveClosed, Receive, AppTypes, TypeInv, IsBusy
<1>8. ASSUME NEW mode \in {"text", "voice"}, Connect(mode)
      PROVE  TypeInv'
  <2>1. AppTypes'
    BY <1>8 DEF Connect, TypeInv, AppTypes
  <2>2. ServerTypes'
    BY <1>8 DEF Connect, TypeInv, ServerTypes
  <2>3. /\ toClient' \in {toClient, <<>>} /\ toServer' \in {toServer, <<>>}
    BY <1>8 DEF Connect
  <2>4. <<>> \in Seq(FramesToClient) /\ <<>> \in Seq(FramesToServer)
    OBVIOUS
  <2>5. WireTypes'
    BY <2>3, <2>4, Zenon DEF TypeInv, WireTypes
  <2> QED
    BY <2>1, <2>2, <2>5 DEF TypeInv
<1> QED
  BY <1>2, <1>3, <1>4, <1>5, <1>6, <1>7, <1>8 DEF EventNext

\* What the user does keeps the types.
LEMMA UserTypes ==
    ASSUME TypeInv, UserNext
    PROVE  TypeInv'
<1> USE DEF chatState, socket, serverVars, wires, history
<1>1. CASE SendText
  <2>1. count' \in Counts /\ count.turns + 1 \in Turns /\ count'.asks = count.asks
    BY <1>1, CountedType DEF SendText
  <2>2. messages' \in Seq(Messages)
    BY <1>1, <2>1, ShownType DEF SendText
  <2>3. \A i \in DOMAIN messages' : messages'[i].streaming => messages'[i].role = "edith"
    BY <1>1, <2>2 DEF SendText, UserMessage, TypeInv, AppTypes
  <2>4. AppTypes'
    BY <1>1, <2>2, <2>3 DEF SendText, TypeInv, AppTypes, States
  <2>5. ServerTypes'
    BY <1>1, <2>1 DEF SendText, TypeInv, ServerTypes
  <2>6. WireTypes'
    BY <1>1, <2>1, FrameTypes DEF SendText, Send, TypeInv, WireTypes
  <2> QED
    BY <2>4, <2>5, <2>6 DEF TypeInv
<1>2. CASE Onset
  BY <1>2 DEF Onset, TypeInv, AppTypes, ServerTypes, WireTypes
<1>3. CASE Utterance
  <2>1. count' \in Counts /\ count.turns + 1 \in Turns /\ count'.asks = count.asks
    BY <1>3, CountedType DEF Utterance
  <2>2. WireTypes'
    BY <1>3, <2>1, FrameTypes, SentType DEF Utterance, Sends, TypeInv, WireTypes
  <2>3. ServerTypes'
    BY <1>3, <2>1 DEF Utterance, TypeInv, ServerTypes
  <2> QED
    BY <1>3, <2>2, <2>3 DEF Utterance, TypeInv, AppTypes
<1>4. ASSUME NEW yes \in BOOLEAN, RespondConfirm(yes)
      PROVE  TypeInv'
  <2>1. pending \in Asks /\ dialog \in Asks
    BY <1>4, BoundsAssumption DEF RespondConfirm, Asks, TypeInv, AppTypes
  <2>2. AppTypes'
    BY <1>4, <2>1, BoundsAssumption DEF RespondConfirm, TypeInv, AppTypes, States
  <2>3. WireTypes'
    BY <1>4, <2>1, FrameTypes DEF RespondConfirm, Send, TypeInv, WireTypes
  <2> QED
    BY <1>4, <2>2, <2>3 DEF RespondConfirm, TypeInv, ServerTypes
<1>5. ASSUME NEW mode \in {"text", "voice"}, ReconnectBegins(mode)
      PROVE  TypeInv'
  <2>1. count' \in Counts
    BY <1>5, CountedType DEF ReconnectBegins
  <2>2. AppTypes'
    BY <1>5 DEF ReconnectBegins, IsBusy, TypeInv, AppTypes
  <2>3. toClient' = <<>> /\ toServer' = <<>> /\ queue' = <<>>
    BY <1>5 DEF ReconnectBegins
  <2>4. WireTypes' /\ queue' \in Seq(Turns)
    BY <2>3 DEF WireTypes
  <2>5. /\ phase' = "none" /\ turn' = 0 /\ interrupted' = FALSE /\ spoke' = FALSE
        /\ answer' = "none" /\ ran' = ran
    BY <1>5 DEF ReconnectBegins
  <2>6. 0 \in 0..MaxTurns /\ ran \subseteq Asks
    BY BoundsAssumption DEF TypeInv, ServerTypes
  <2>7. ServerTypes'
    BY <2>1, <2>4, <2>5, <2>6 DEF ServerTypes
  <2> QED
    BY <2>2, <2>4, <2>7 DEF TypeInv
<1> QED
  BY <1>1, <1>2, <1>3, <1>4, <1>5 DEF UserNext

\* What the session does keeps the types.
LEMMA SessionTypes ==
    ASSUME TypeInv, SessionNext \/ Lost
    PROVE  TypeInv'
<1> USE DEF chatState, socket, wires, history, SessionStep
<1>1. ASSUME NEW frames, Sends(frames), toServer' = toServer,
             \/ \E f \in FramesToClient : frames = <<f>>
             \/ \E f, g \in FramesToClient : frames = <<f, g>>
      PROVE  WireTypes'
  BY <1>1, SentType DEF Sends, TypeInv, WireTypes
<1>2. ASSUME UNCHANGED <<chatState, socket, shown>>, cut' \in BOOLEAN
      PROVE  AppTypes'
  BY <1>2 DEF TypeInv, AppTypes
<1>3. CASE Authenticate
  <2>1. WireTypes'
    BY <1>1, <1>3, FrameTypes DEF Authenticate
  <2>2. ServerTypes'
    BY <1>3 DEF Authenticate, TypeInv, ServerTypes
  <2> QED
    BY <1>2, <1>3, <2>1, <2>2 DEF Authenticate, TypeInv, AppTypes
<1>4. CASE HandleText
  <2>1. Head(toServer) \in FramesToServer /\ Head(toServer).type = "text"
        /\ toServer' \in Seq(FramesToServer)
    BY <1>4 DEF HandleText, TypeInv, WireTypes
  <2>2. Head(toServer).turn \in Turns
    BY <2>1 DEF FramesToServer
  <2>3. ServerTypes'
    BY <1>4, <2>2 DEF HandleText, TypeInv, ServerTypes, TurnActive
  <2> QED
    BY <1>2, <1>4, <2>1, <2>3 DEF HandleText, TypeInv, AppTypes, WireTypes
<1>5. CASE HandleConfirm
  <2>1. Head(toServer) \in FramesToServer /\ Head(toServer).type = "confirm"
        /\ toServer' \in Seq(FramesToServer)
    BY <1>5 DEF HandleConfirm, TypeInv, WireTypes
  <2>2. Head(toServer).yes \in BOOLEAN
    BY <2>1 DEF FramesToServer
  <2>3. ServerTypes'
    BY <1>5 DEF HandleConfirm, TypeInv, ServerTypes
  <2>4. cut' \in BOOLEAN
    BY <1>5, <2>2 DEF HandleConfirm, TypeInv, AppTypes
  <2> QED
    BY <1>2, <1>5, <2>1, <2>3, <2>4 DEF HandleConfirm, TypeInv, WireTypes
<1>6. CASE StartTurn
  <2>1. Head(queue) \in Turns /\ Tail(queue) \in Seq(Turns)
    BY <1>6 DEF StartTurn, TypeInv, ServerTypes
  <2>2. Head(queue) \in 0..MaxTurns /\ Head(queue) # 0
    BY <2>1, BoundsAssumption DEF Turns
  <2>3. StatusFrame("thinking") \in FramesToClient /\ UserText(Head(queue)) \in FramesToClient
    BY <2>1, FrameTypes DEF States
  <2>4. WireTypes'
    BY <1>1, <1>6, <2>3 DEF StartTurn
  <2>5. ServerTypes'
    BY <1>6, <2>1, <2>2 DEF StartTurn, TypeInv, ServerTypes
  <2> QED
    BY <1>2, <1>6, <2>4, <2>5 DEF StartTurn, TypeInv, AppTypes
<1>7. CASE SendChunk
  <2>1. turn \in Turns
    BY <1>7 DEF SendChunk, TypeInv, ServerTypes, Turns
  <2>2. WireTypes'
    BY <1>1, <1>7, <2>1, FrameTypes DEF SendChunk
  <2>3. count' \in Counts /\ count'.asks = count.asks
    BY <1>7, CountedType DEF SendChunk, TypeInv, ServerTypes, Counts
  <2>4. ServerTypes'
    BY <1>7, <2>3 DEF SendChunk, TypeInv, ServerTypes
  <2> QED
    BY <1>2, <1>7, <2>2, <2>4 DEF SendChunk, TypeInv, AppTypes
<1>8. CASE StartSpeaking
  <2>1. WireTypes'
    BY <1>1, <1>8, FrameTypes DEF StartSpeaking, States
  <2>2. ServerTypes'
    BY <1>8 DEF StartSpeaking, TypeInv, ServerTypes
  <2> QED
    BY <1>2, <1>8, <2>1, <2>2 DEF StartSpeaking, TypeInv, AppTypes
<1>9. CASE Ask
  <2>1. count.asks + 1 \in Asks /\ count' \in Counts /\ count'.asks # 0
    BY <1>9, CountedType DEF Ask
  <2>2. WireTypes'
    BY <1>1, <1>9, <2>1, FrameTypes DEF Ask
  <2>3. ServerTypes'
    BY <1>9, <2>1 DEF Ask, TypeInv, ServerTypes
  <2> QED
    BY <1>2, <1>9, <2>2, <2>3 DEF Ask, TypeInv, AppTypes
<1>10. CASE Answered
  <2>1. count.asks \in Asks
    BY <1>10, BoundsAssumption DEF Answered, Counts, Asks, TypeInv, ServerTypes
  <2>2. ServerTypes'
    BY <1>10, <2>1 DEF Answered, TypeInv, ServerTypes
  <2> QED
    BY <1>2, <1>10, <2>2 DEF Answered, TypeInv, AppTypes, WireTypes
<1>11. CASE InterruptTurn
  <2>1. WireTypes'
    BY <1>1, <1>11, FrameTypes DEF InterruptTurn, States
  <2>2. ServerTypes'
    BY <1>11, BoundsAssumption DEF InterruptTurn, TypeInv, ServerTypes
  <2> QED
    BY <1>2, <1>11, <2>1, <2>2 DEF InterruptTurn, TypeInv, AppTypes
<1>12. ASSUME NEW complete \in BOOLEAN, EndTurn(complete)
       PROVE  TypeInv'
  <2>1. TurnEnd \in FramesToClient /\ StatusFrame("idle") \in FramesToClient
    BY FrameTypes DEF States
  <2>2. WireTypes'
    BY <1>1, <1>12, <2>1 DEF EndTurn
  <2>3. ServerTypes'
    BY <1>12, BoundsAssumption DEF EndTurn, TypeInv, ServerTypes
  <2> QED
    BY <1>2, <1>12, <2>2, <2>3 DEF EndTurn, TypeInv, AppTypes
<1>13. CASE Lost
  <2>1. count' \in Counts
    BY <1>13, CountedType DEF Lost
  <2>2. WireTypes'
    BY <1>1, <1>13, FrameTypes DEF Lost
  <2>3. <<>> \in Seq(Turns) /\ 0 \in 0..MaxTurns /\ ran \subseteq Asks
    BY BoundsAssumption DEF TypeInv, ServerTypes
  <2>4. /\ phase' = "none" /\ queue' = <<>> /\ turn' = 0 /\ interrupted' = FALSE
        /\ spoke' = FALSE /\ answer' = "none" /\ ran' = ran
    BY <1>13 DEF Lost
  <2>5. queue' \in Seq(Turns)
    BY <2>3, <2>4
  <2>6. ServerTypes'
    BY <2>1, <2>3, <2>4, <2>5 DEF ServerTypes
  <2> QED
    BY <1>2, <1>13, <2>2, <2>6 DEF Lost, TypeInv, AppTypes
<1> QED
  BY <1>3, <1>4, <1>5, <1>6, <1>7, <1>8, <1>9, <1>10, <1>11, <1>12, <1>13 DEF SessionNext

LEMMA TypeStep == TypeInv /\ [Next]_vars => TypeInv'
<1> SUFFICES ASSUME TypeInv, [Next]_vars
             PROVE  TypeInv'
  OBVIOUS
<1>1. CASE Next
  BY <1>1, EventTypes, UserTypes, SessionTypes DEF Next
<1>2. CASE UNCHANGED vars
  BY <1>2 DEF vars, chatState, socket, wires, serverVars, history, TypeInv, AppTypes,
              ServerTypes, WireTypes
<1> QED
  BY <1>1, <1>2

\* The types of the chat side, and a dialog is on the screen exactly while a request is
\* pending (voice_screen.dart opens it, respondConfirm clears both).
THEOREM TypeCorrect == Spec => []TypeOK
<1>1. Init => TypeInv
  BY TypeInit
<1>2. TypeInv /\ [Next]_vars => TypeInv'
  BY TypeStep
<1>3. TypeInv => TypeOK
  BY TypeInvImpliesTypeOK
<1> QED
  BY <1>1, <1>2, <1>3, PTL DEF Spec

----------------------------------------------------------------------------
(* Bubbles *)

\* The turns that the bubble which would take the next chunk is about.
Last == IF messages # <<>> /\ messages[Len(messages)].streaming
        THEN messages[Len(messages)].turns ELSE {}

IsChunk(f) == f.type = "transcript" /\ f.role = "edith"

\* What was said at a place of the reply's way to the screen; 0 is the screen.
Said(p) == IF p = 0 THEN Last
           ELSE IF IsChunk(toClient[p]) THEN {toClient[p].turn} ELSE {}

\* A text of the user parts what comes before it from what comes after.
Parts(b) == toClient[b].type = "transcript" /\ toClient[b].role = "user"

\* Chunks of two turns have a text of the user between them.
SaidApart ==
    \A p, q \in 0..Len(toClient) : p < q =>
      \A j \in Said(p), k \in Said(q) : j = k \/ \E b \in (p + 1)..(q - 1) : Parts(b)

\* So does what has been said of other turns, and what the session will say next.
TurnApart ==
    phase \in {"turn", "asking"} =>
      \A p \in 0..Len(toClient) :
        \A j \in Said(p) : j = turn \/ \E b \in (p + 1)..Len(toClient) : Parts(b)

BubbleInv ==
    /\ \A i \in DOMAIN messages : \E k \in Turns : messages[i].turns = {k}
    /\ SaidApart
    /\ TurnApart

\* What is said once the head of the frames is taken off.
LEMMA SaidAfterHead ==
    ASSUME TypeInv, toClient # <<>>, toClient' = Tail(toClient)
    PROVE  /\ Len(toClient) \in Nat \ {0} /\ Len(toClient') = Len(toClient) - 1
           /\ Head(toClient) = toClient[1]
           /\ \A p \in 1..Len(toClient') :
                Said(p)' = Said(p + 1) /\ (Parts(p)' <=> Parts(p + 1))
           /\ Said(0) = Last /\ Said(0)' = Last'
<1>1. toClient \in Seq(FramesToClient)
  BY DEF TypeInv, WireTypes
<1>2. /\ Len(toClient) \in Nat \ {0} /\ Len(toClient') = Len(toClient) - 1
      /\ Head(toClient) = toClient[1]
      /\ \A p \in 1..Len(toClient') : toClient'[p] = toClient[p + 1] /\ p # 0 /\ p + 1 # 0
  BY <1>1
<1> QED
  BY <1>2 DEF Said, Parts, IsChunk

\* A frame arrives: it goes into the last bubble, or it leaves that alone, or ends it.
LEMMA ReceivedApart ==
    ASSUME TypeInv, SaidApart, TurnApart, toClient # <<>>, toClient' = Tail(toClient),
           UNCHANGED <<phase, turn>>,
           Last' \subseteq Said(1) \/ (Last' \subseteq Last /\ ~Parts(1))
    PROVE  SaidApart' /\ TurnApart'
<1> DEFINE n == Len(toClient)
           n1 == Len(toClient')
<1>1. /\ n \in Nat \ {0} /\ n1 = n - 1
      /\ \A p \in 1..n1 : Said(p)' = Said(p + 1) /\ (Parts(p)' <=> Parts(p + 1))
      /\ Said(0) = Last /\ Said(0)' = Last'
  BY SaidAfterHead
\* A place and what was said there is, before the step, one place on, or still the screen.
<1>2. \A p \in 0..n1 : \A j \in Said(p)' :
        \/ j \in Said(p + 1)
        \/ p = 0 /\ j \in Said(0) /\ ~Parts(1)
  <2> TAKE p \in 0..n1
  <2> TAKE j \in Said(p)'
  <2>1. CASE p = 0
    BY <1>1, <2>1
  <2>2. CASE p \in 1..n1
    BY <1>1, <2>2
  <2> QED
    BY <1>1, <2>1, <2>2
<1>3. ASSUME NEW p \in 0..n1, NEW q \in 0..n, p < q, NEW b \in (p + 2)..q, Parts(b)
      PROVE  b - 1 \in (p + 1)..(q - 1) /\ Parts(b - 1)'
  <2>1. b - 1 \in 1..n1 /\ (b - 1) + 1 = b /\ b - 1 \in (p + 1)..(q - 1)
    BY <1>1, <1>3
  <2> QED
    BY <1>1, <1>3, <2>1
<1>4. SaidApart'
  <2> SUFFICES ASSUME NEW p \in 0..n1, NEW q \in 0..n1, p < q,
                      NEW j \in Said(p)', NEW k \in Said(q)', j # k
               PROVE  \E b \in (p + 1)..(q - 1) : Parts(b)'
    BY Zenon DEF SaidApart
  <2>1. q \in 1..n1 /\ p + 1 \in 0..n /\ q + 1 \in 0..n /\ p + 1 < q + 1 /\ 0 \in 0..n
        /\ 0 < q + 1
    BY <1>1
  <2>2. k \in Said(q + 1)
    BY <1>1, <2>1
  <2>3. \E b \in (p + 2)..q : Parts(b)
    <3>1. CASE j \in Said(p + 1)
      <4>1. \E b \in ((p + 1) + 1)..((q + 1) - 1) : Parts(b)
        BY <2>1, <2>2, <3>1 DEF SaidApart
      <4>2. (p + 1) + 1 = p + 2 /\ (q + 1) - 1 = q
        BY <1>1
      <4> QED
        BY <4>1, <4>2
    <3>2. CASE p = 0 /\ j \in Said(0) /\ ~Parts(1)
      <4>1. PICK b \in (0 + 1)..((q + 1) - 1) : Parts(b)
        BY <2>1, <2>2, <3>2 DEF SaidApart
      <4>2. b # 1
        BY <3>2, <4>1
      <4>3. b \in (p + 2)..q
        BY <1>1, <3>2, <4>1, <4>2
      <4> QED
        BY <4>1, <4>3
    <3> QED
      BY <1>2, <3>1, <3>2
  <2>4. PICK b \in (p + 2)..q : Parts(b)
    BY <2>3
  <2> QED
    BY <1>1, <1>3, <2>1, <2>4
<1>5. TurnApart'
  <2> SUFFICES ASSUME phase' \in {"turn", "asking"}, NEW p \in 0..n1, NEW j \in Said(p)',
                      j # turn'
               PROVE  \E b \in (p + 1)..n1 : Parts(b)'
    BY Zenon DEF TurnApart
  <2>1. phase \in {"turn", "asking"} /\ turn' = turn /\ p + 1 \in 0..n /\ 0 \in 0..n
    BY <1>1
  <2>2. \E b \in (p + 2)..n : Parts(b)
    <3>1. CASE j \in Said(p + 1)
      <4>1. \E b \in ((p + 1) + 1)..n : Parts(b)
        BY <2>1, <3>1 DEF TurnApart
      <4>2. (p + 1) + 1 = p + 2
        BY <1>1
      <4> QED
        BY <4>1, <4>2
    <3>2. CASE p = 0 /\ j \in Said(0) /\ ~Parts(1)
      <4>1. PICK b \in (0 + 1)..n : Parts(b)
        BY <2>1, <3>2 DEF TurnApart
      <4>2. b # 1
        BY <3>2, <4>1
      <4>3. b \in (p + 2)..n
        BY <1>1, <3>2, <4>1, <4>2
      <4> QED
        BY <4>1, <4>3
    <3> QED
      BY <1>2, <3>1, <3>2
  <2>3. PICK b \in (p + 2)..n : Parts(b)
    BY <2>2
  <2>4. n \in 0..n /\ p < n /\ n - 1 = n1
    BY <1>1
  <2>5. b - 1 \in (p + 1)..(n - 1) /\ Parts(b - 1)'
    BY <1>3, <2>3, <2>4
  <2> QED
    BY <2>4, <2>5
<1> QED
  BY <1>4, <1>5

\* Frames are sent: they say nothing, or something of the turn that runs; a turn begins
\* with a text of the user.
LEMMA SentApart ==
    ASSUME TypeInv, SaidApart, TurnApart, Last' = Last,
           Len(toClient') \in Nat, Len(toClient) <= Len(toClient'),
           \A p \in 1..Len(toClient) : toClient'[p] = toClient[p],
           \A p \in (Len(toClient) + 1)..Len(toClient') :
               Said(p)' = {} \/ (phase \in {"turn", "asking"} /\ Said(p)' = {turn}),
           phase' \in {"turn", "asking"} =>
             \/ phase \in {"turn", "asking"} /\ turn' = turn
             \/ /\ Len(toClient) < Len(toClient') /\ Parts(Len(toClient))'
                /\ \A p \in (Len(toClient) + 1)..Len(toClient') : Said(p)' = {}
    PROVE  SaidApart' /\ TurnApart'
<1> DEFINE n == Len(toClient)
           n1 == Len(toClient')
<1>1. n \in Nat /\ n1 \in Nat /\ n <= n1
  BY DEF TypeInv, WireTypes
<1>2. \A p \in 0..n : Said(p)' = Said(p)
  <2>1. Said(0)' = Said(0)
    BY DEF Said
  <2>2. \A p \in 1..n : Said(p)' = Said(p)
    BY <1>1 DEF Said, IsChunk
  <2>3. \A p \in 0..n : p = 0 \/ p \in 1..n
    BY <1>1
  <2> QED
    BY <2>1, <2>2, <2>3
<1>3. \A p \in 1..n : Parts(p)' <=> Parts(p)
  BY <1>1 DEF Parts
<1>4. \A p \in 0..n1 : p \in 0..n \/ p \in (n + 1)..n1
  BY <1>1
<1>5. SaidApart'
  <2> SUFFICES ASSUME NEW p \in 0..n1, NEW q \in 0..n1, p < q,
                      NEW j \in Said(p)', NEW k \in Said(q)', j # k
               PROVE  \E b \in (p + 1)..(q - 1) : Parts(b)'
    BY Zenon DEF SaidApart
  <2>1. CASE q \in 0..n
    <3>1. p \in 0..n /\ j \in Said(p) /\ k \in Said(q)
      BY <1>1, <1>2, <2>1
    <3>2. PICK b \in (p + 1)..(q - 1) : Parts(b)
      BY <2>1, <3>1 DEF SaidApart
    <3> QED
      BY <1>1, <1>3, <2>1, <3>2
  <2>2. CASE q \in (n + 1)..n1
    <3>1. phase \in {"turn", "asking"} /\ k = turn
      BY <2>2
    <3>2. p \in 0..n
      BY <1>4, <2>2, <3>1
    <3>3. PICK b \in (p + 1)..n : Parts(b)
      BY <1>2, <3>1, <3>2 DEF TurnApart
    <3>4. b \in (p + 1)..(q - 1) /\ b \in 1..n
      BY <1>1, <2>2, <3>2, <3>3
    <3> QED
      BY <1>3, <3>3, <3>4
  <2> QED
    BY <1>4, <2>1, <2>2
<1>6. TurnApart'
  <2> SUFFICES ASSUME phase' \in {"turn", "asking"}, NEW p \in 0..n1, NEW j \in Said(p)',
                      j # turn'
               PROVE  \E b \in (p + 1)..n1 : Parts(b)'
    BY Zenon DEF TurnApart
  <2>1. CASE p \in 0..n /\ phase \in {"turn", "asking"} /\ turn' = turn
    <3>1. PICK b \in (p + 1)..n : Parts(b)
      BY <1>2, <2>1 DEF TurnApart
    <3>2. b \in (p + 1)..n1 /\ b \in 1..n
      BY <1>1, <2>1, <3>1
    <3> QED
      BY <1>3, <3>1, <3>2
  <2>2. CASE p \in 0..n /\ n < n1 /\ Parts(Len(toClient))'
    <3>1. n1 \in (p + 1)..n1
      BY <1>1, <2>2
    <3>2. PICK b \in (p + 1)..n1 : b = n1
      BY <3>1
    <3>3. Parts(b)'
      BY <2>2, <3>2 DEF Parts
    <3> QED
      BY <3>3
  <2>3. CASE p \in (n + 1)..n1
    BY <2>3
  <2> QED
    BY <1>4, <2>1, <2>2, <2>3
<1> QED
  BY <1>5, <1>6

\* The shape of what is sent.
LEMMA SentShape ==
    ASSUME TypeInv, NEW f, NEW g
    PROVE  /\ LET s == toClient \o <<f>>
              IN  /\ Len(s) = Len(toClient) + 1 /\ s[Len(toClient) + 1] = f
                  /\ \A p \in 1..Len(toClient) : s[p] = toClient[p]
           /\ LET s == toClient \o <<f, g>>
              IN  /\ Len(s) = Len(toClient) + 2
                  /\ s[Len(toClient) + 1] = f /\ s[Len(toClient) + 2] = g
                  /\ \A p \in 1..Len(toClient) : s[p] = toClient[p]
           /\ Len(toClient) \in Nat
BY DEF TypeInv, WireTypes

\* Where no chunk is sent and no turn begins.
LEMMA NothingSaidApart ==
    ASSUME TypeInv, SaidApart, TurnApart, UNCHANGED messages,
           phase' \in {"turn", "asking"} => phase \in {"turn", "asking"} /\ turn' = turn,
           \/ toClient' = toClient
           \/ \E f : ~IsChunk(f) /\ toClient' = toClient \o <<f>>
           \/ \E f, g : ~IsChunk(f) /\ ~IsChunk(g) /\ toClient' = toClient \o <<f, g>>
    PROVE  SaidApart' /\ TurnApart'
<1>1. Last' = Last
  BY DEF Last
<1> DEFINE Extended ==
      /\ Len(toClient') \in Nat /\ Len(toClient) <= Len(toClient')
      /\ \A p \in 1..Len(toClient) : toClient'[p] = toClient[p]
      /\ \A p \in (Len(toClient) + 1)..Len(toClient') : p # 0 /\ ~IsChunk(toClient'[p])
<1>2. Extended
  <2>1. Len(toClient) \in Nat
    BY SentShape
  <2>2. CASE toClient' = toClient
    BY <2>1, <2>2
  <2>3. ASSUME NEW f, ~IsChunk(f), toClient' = toClient \o <<f>>
        PROVE  Extended
    BY <2>1, <2>3, SentShape
  <2>4. ASSUME NEW f, NEW g, ~IsChunk(f), ~IsChunk(g), toClient' = toClient \o <<f, g>>
        PROVE  Extended
    <3>1. /\ Len(toClient') = Len(toClient) + 2
          /\ toClient'[Len(toClient) + 1] = f /\ toClient'[Len(toClient) + 2] = g
          /\ \A p \in 1..Len(toClient) : toClient'[p] = toClient[p]
      BY <2>4, SentShape
    <3>2. \A p \in (Len(toClient) + 1)..Len(toClient') :
            p \in {Len(toClient) + 1, Len(toClient) + 2}
      BY <2>1, <3>1
    <3> QED
      BY <2>1, <2>4, <3>1, <3>2
  <2> QED
    BY <2>1, <2>2, <2>3, <2>4
<1>3. \A p \in (Len(toClient) + 1)..Len(toClient') : Said(p)' = {}
  BY <1>2 DEF Said, IsChunk
<1> QED
  BY <1>1, <1>2, <1>3, SentApart

\* A chunk that goes into a bubble is of the turn the bubble is about.
LEMMA ChunkFits ==
    ASSUME TypeInv, BubbleInv, toClient # <<>>, IsChunk(Head(toClient)),
           NEW j \in Last
    PROVE  j = Head(toClient).turn
<1>1. Len(toClient) \in Nat \ {0} /\ Head(toClient) = toClient[1]
  BY DEF TypeInv, WireTypes
<1>2. 0 \in 0..Len(toClient) /\ 1 \in 0..Len(toClient) /\ (0 + 1)..(1 - 1) = {}
  BY <1>1
<1>3. j \in Said(0) /\ Head(toClient).turn \in Said(1)
  BY <1>1 DEF Said
<1> QED
  BY <1>2, <1>3 DEF BubbleInv, SaidApart

\* The app shows a text.
LEMMA TranscriptBubbles ==
    ASSUME TypeInv, BubbleInv, ReceiveTranscript
    PROVE  BubbleInv'
<1> DEFINE k == Head(toClient).turn
           n == Len(messages)
<1>1. /\ Receive("transcript") /\ toClient # <<>> /\ toClient' = Tail(toClient)
      /\ UNCHANGED <<phase, turn>>
  BY DEF ReceiveTranscript, Receive, serverVars
<1>2. /\ k \in Turns /\ Head(toClient) = toClient[1]
      /\ toClient[1].type = "transcript" /\ toClient[1].role \in {"user", "edith"}
  <2>1. Head(toClient) = toClient[1]
    BY <1>1 DEF TypeInv, WireTypes
  <2> QED
    BY <1>1, <2>1, ReceivedType DEF Receive
<1>3. /\ messages \in Seq(Messages) /\ n \in Nat /\ DOMAIN messages = 1..n
      /\ \A i \in 1..n : \E j \in Turns : messages[i].turns = {j}
      /\ n # 0 => messages # <<>> /\ messages[n] \in Messages
      /\ n = 0 => messages = <<>>
  BY DEF TypeInv, AppTypes, BubbleInv
<1>4. CASE toClient[1].role = "user"
  <2>1. messages' = Append(messages, UserMessage(k))
    BY <1>2, <1>4 DEF ReceiveTranscript, ShowUserText
  <2> HIDE DEF k
  <2>2. Len(messages') = n + 1 /\ DOMAIN messages' = 1..(n + 1)
        /\ messages'[n + 1] = UserMessage(k) /\ \A i \in 1..n : messages'[i] = messages[i]
    BY <1>3, <2>1
  <2>3. Last' = {}
    BY <2>2 DEF Last, UserMessage
  <2>4. \A i \in DOMAIN messages' : \E j \in Turns : messages'[i].turns = {j}
    <3>1. UserMessage(k).turns = {k} /\ \A i \in 1..(n + 1) : i = n + 1 \/ i \in 1..n
      BY <1>3 DEF UserMessage
    <3> QED
      BY <1>2, <1>3, <2>2, <3>1
  <2> QED
    BY <1>1, <2>3, <2>4, ReceivedApart DEF BubbleInv
<1>5. CASE toClient[1].role = "edith" /\ n > 0 /\ messages[n].streaming
  <2>1. messages' = [messages EXCEPT ![n].turns = @ \cup {k}]
    BY <1>2, <1>5 DEF ReceiveTranscript, ShowEdithText
  <2>2. Last = messages[n].turns
    BY <1>3, <1>5 DEF Last
  <2>3. messages[n].turns = {k}
    <3>1. n \in 1..n
      BY <1>3, <1>5
    <3>2. PICK j \in Turns : messages[n].turns = {j}
      BY <1>3, <3>1
    <3>3. IsChunk(Head(toClient)) /\ j \in Last
      BY <1>2, <1>5, <2>2, <3>2 DEF IsChunk
    <3> QED
      BY <1>1, <3>2, <3>3, ChunkFits
  <2> HIDE DEF k
  <2>4. /\ Len(messages') = n /\ DOMAIN messages' = 1..n /\ messages'[n].turns = {k}
        /\ \A i \in 1..n : i # n => messages'[i] = messages[i]
    BY <1>3, <1>5, <2>1, <2>3 DEF Messages
  <2>5. Last' \subseteq {k}
    BY <2>4 DEF Last
  <2>6. Said(1) = {k}
    BY <1>2, <1>5 DEF Said, IsChunk, k
  <2>7. \A i \in DOMAIN messages' : \E j \in Turns : messages'[i].turns = {j}
    <3>1. \A i \in 1..n : i # n => \E j \in Turns : messages'[i].turns = {j}
      BY <1>3, <2>4
    <3>2. messages'[n].turns = {k} /\ k \in Turns
      BY <1>2, <2>4 DEF k
    <3> QED
      BY <2>4, <3>1, <3>2
  <2> QED
    BY <1>1, <2>5, <2>6, <2>7, ReceivedApart DEF BubbleInv
<1>6. CASE toClient[1].role = "edith" /\ ~(n > 0 /\ messages[n].streaming)
  <2>1. messages' = Append(messages, EdithMessage(k))
    BY <1>2, <1>6 DEF ReceiveTranscript, ShowEdithText
  <2>2. Said(1) = {k}
    BY <1>2, <1>6 DEF Said, IsChunk
  <2> HIDE DEF k
  <2>3. Len(messages') = n + 1 /\ DOMAIN messages' = 1..(n + 1)
        /\ messages'[n + 1] = EdithMessage(k) /\ \A i \in 1..n : messages'[i] = messages[i]
    BY <1>3, <2>1
  <2>4. Last' \subseteq {k}
    BY <2>3 DEF Last, EdithMessage
  <2>5. \A i \in DOMAIN messages' : \E j \in Turns : messages'[i].turns = {j}
    <3>1. EdithMessage(k).turns = {k} /\ \A i \in 1..(n + 1) : i = n + 1 \/ i \in 1..n
      BY <1>3 DEF EdithMessage
    <3> QED
      BY <1>2, <1>3, <2>3, <3>1
  <2> QED
    BY <1>1, <2>2, <2>4, <2>5, ReceivedApart DEF BubbleInv
<1> QED
  BY <1>2, <1>4, <1>5, <1>6

\* The app handles another event: the last bubble stays, or ends.
LEMMA EventBubbles ==
    ASSUME TypeInv, BubbleInv, NEW type, type # "transcript", Receive(type),
           \/ UNCHANGED messages
           \/ messages' = [i \in DOMAIN messages |->
                IF i = Len(messages) THEN [messages[i] EXCEPT !.streaming = FALSE]
                                     ELSE messages[i]]
    PROVE  BubbleInv'
<1> DEFINE n == Len(messages)
<1>1. /\ toClient # <<>> /\ toClient' = Tail(toClient) /\ UNCHANGED <<phase, turn>>
      /\ Head(toClient).type # "transcript"
  BY DEF Receive, serverVars
<1>2. ~Parts(1)
  <2>1. Head(toClient) = toClient[1]
    BY <1>1 DEF TypeInv, WireTypes
  <2> QED
    BY <1>1, <2>1 DEF Parts
<1>3. messages \in Seq(Messages) /\ n \in Nat /\ DOMAIN messages = 1..n
      /\ \A i \in 1..n : messages[i] \in Messages
  BY DEF TypeInv, AppTypes
<1>4. Last' \subseteq Last /\ \A i \in DOMAIN messages' : \E k \in Turns : messages'[i].turns = {k}
  <2>1. CASE UNCHANGED messages
    BY <2>1 DEF Last, BubbleInv
  <2>2. CASE messages' = [i \in DOMAIN messages |->
                IF i = Len(messages) THEN [messages[i] EXCEPT !.streaming = FALSE]
                                     ELSE messages[i]]
    <3>1. /\ DOMAIN messages' = 1..n /\ Len(messages') = n
          /\ \A i \in 1..n : /\ messages'[i].turns = messages[i].turns
                             /\ i = n => ~messages'[i].streaming
      BY <1>3, <2>2 DEF Messages
    <3>2. Last' = {}
      <4>1. messages' # <<>> => n # 0
        BY <1>3, <2>2
      <4> QED
        BY <1>3, <3>1, <4>1 DEF Last
    <3> QED
      BY <1>3, <3>1, <3>2 DEF BubbleInv
  <2> QED
    BY <2>1, <2>2
<1> QED
  BY <1>1, <1>2, <1>4, ReceivedApart DEF BubbleInv

LEMMA BubbleInit == Init => BubbleInv
<1> SUFFICES ASSUME Init
             PROVE  BubbleInv
  OBVIOUS
<1>1. /\ messages = <<>> /\ DOMAIN messages = {} /\ Len(toClient) = 0
      /\ phase = "none"
  BY DEF Init
<1>2. Last = {}
  BY <1>1 DEF Last
<1>3. SaidApart
  <2>1. \A p, q \in 0..Len(toClient) : ~(p < q)
    BY <1>1
  <2> QED
    BY <2>1 DEF SaidApart
<1> QED
  BY <1>1, <1>3 DEF BubbleInv, TurnApart

\* Nothing is on its way and no turn runs: nothing need be parted.
LEMMA NothingUnderWay ==
    ASSUME Len(toClient) = 0, phase \notin {"turn", "asking"}
    PROVE  SaidApart /\ TurnApart
<1>1. \A p, q \in 0..Len(toClient) : ~(p < q)
  OBVIOUS
<1> QED
  BY <1>1 DEF SaidApart, TurnApart

\* A turn begins: what it will say comes after the text of its user.
LEMMA StartBubbles ==
    ASSUME TypeInv, BubbleInv, StartTurn
    PROVE  BubbleInv'
<1> DEFINE k == Head(queue)
           n == Len(toClient)
<1>1. /\ n \in Nat /\ Len(toClient') = n + 2
      /\ \A p \in 1..n : toClient'[p] = toClient[p]
      /\ toClient'[n + 1] = StatusFrame("thinking") /\ toClient'[n + 2] = UserText(k)
  BY SentShape DEF StartTurn, Sends
<1>2. Parts(Len(toClient))'
  BY <1>1 DEF Parts, UserText
<1>3. \A p \in (n + 1)..(n + 2) : p # 0 /\ ~IsChunk(toClient'[p])
  <2>1. \A p \in (n + 1)..(n + 2) : p # 0 /\ p \in {n + 1, n + 2}
    BY <1>1
  <2> QED
    BY <1>1, <2>1 DEF IsChunk, StatusFrame, UserText
<1>4. \A p \in (n + 1)..Len(toClient') : Said(p)' = {}
  BY <1>1, <1>3 DEF Said, IsChunk
<1>5. UNCHANGED messages
  BY DEF StartTurn, SessionStep, chatState
<1>6. Last' = Last
  BY <1>5 DEF Last
<1>7. Len(toClient') \in Nat /\ n < Len(toClient') /\ n <= Len(toClient')
  BY <1>1
<1>8. SaidApart' /\ TurnApart'
  BY <1>1, <1>2, <1>4, <1>6, <1>7, SentApart DEF BubbleInv
<1> QED
  BY <1>5, <1>8 DEF BubbleInv

\* A chunk of the turn that runs.
LEMMA ChunkBubbles ==
    ASSUME TypeInv, BubbleInv, SendChunk
    PROVE  BubbleInv'
<1> DEFINE n == Len(toClient)
<1>1. /\ n \in Nat /\ Len(toClient') = n + 1 /\ toClient'[n + 1] = EdithText(turn)
      /\ \A p \in 1..n : toClient'[p] = toClient[p]
  BY SentShape DEF SendChunk, Sends
<1>2. /\ UNCHANGED <<messages, turn>> /\ phase = "turn" /\ phase' = "turn"
  BY DEF SendChunk, SessionStep, chatState
<1>3. \A p \in (n + 1)..Len(toClient') : p = n + 1 /\ p # 0
  BY <1>1
<1>4. \A p \in (n + 1)..Len(toClient') : Said(p)' = {turn}
  BY <1>1, <1>3 DEF Said, IsChunk, EdithText
<1>5. Last' = Last
  BY <1>2 DEF Last
<1>6. Len(toClient') \in Nat /\ n <= Len(toClient')
  BY <1>1
<1>7. SaidApart' /\ TurnApart'
  BY <1>1, <1>2, <1>4, <1>5, <1>6, SentApart DEF BubbleInv
<1> QED
  BY <1>2, <1>7 DEF BubbleInv

LEMMA BubbleStep == TypeInv /\ TypeInv' /\ BubbleInv /\ [Next]_vars => BubbleInv'
<1> SUFFICES ASSUME TypeInv, TypeInv', BubbleInv, [Next]_vars
             PROVE  BubbleInv'
  OBVIOUS
<1> USE DEF chatState, socket, serverVars, wires, history, SessionStep
<1>1. ASSUME UNCHANGED messages,
             phase' \in {"turn", "asking"} => phase \in {"turn", "asking"} /\ turn' = turn,
             \/ toClient' = toClient
             \/ \E f : ~IsChunk(f) /\ Sends(<<f>>)
             \/ \E f, g : ~IsChunk(f) /\ ~IsChunk(g) /\ Sends(<<f, g>>)
      PROVE  BubbleInv'
  <2>1. SaidApart' /\ TurnApart'
    BY <1>1, NothingSaidApart DEF BubbleInv, Sends
  <2> QED
    BY <1>1, <2>1 DEF BubbleInv
<1>2. ASSUME UNCHANGED messages, toClient' = <<>>, phase' \notin {"turn", "asking"}
      PROVE  BubbleInv'
  <2>1. Len(toClient') = 0
    BY <1>2
  <2>2. SaidApart' /\ TurnApart'
    BY <1>2, <2>1, NothingUnderWay, SMT DEF SaidApart, TurnApart
  <2> QED
    BY <1>2, <2>2 DEF BubbleInv
<1>3. CASE EventNext
  <2>1. CASE ReceiveAuthOk
    BY <2>1, EventBubbles DEF ReceiveAuthOk
  <2>2. CASE ReceiveStatus
    BY <2>2, EventBubbles DEF ReceiveStatus
  <2>3. CASE ReceiveTranscript
    BY <2>3, TranscriptBubbles
  <2>4. CASE ReceiveRequest
    BY <2>4, EventBubbles DEF ReceiveRequest
  <2>5. CASE ReceiveTurnEnd
    BY <2>5, EventBubbles DEF ReceiveTurnEnd
  <2>6. CASE ReceiveClosed
    BY <2>6, EventBubbles DEF ReceiveClosed
  <2>7. ASSUME NEW mode \in {"text", "voice"}, Connect(mode)
        PROVE  BubbleInv'
    <3>1. CASE channel = "none"
      BY <1>2, <2>7, <3>1 DEF Connect
    <3>2. CASE channel # "none"
      BY <1>1, <2>7, <3>2 DEF Connect
    <3> QED
      BY <3>1, <3>2
  <2> QED
    BY <1>3, <2>1, <2>2, <2>3, <2>4, <2>5, <2>6, <2>7 DEF EventNext
<1>4. CASE SendText
  <2>1. messages' = Append(messages, UserMessage(count.turns + 1))
        /\ UNCHANGED <<toClient, phase, turn>>
    BY <1>4 DEF SendText
  <2>2. count.turns + 1 \in Turns
    BY <1>4, CountedType DEF SendText
  <2>3. /\ Len(messages) \in Nat /\ DOMAIN messages = 1..Len(messages)
        /\ Len(messages') = Len(messages) + 1 /\ DOMAIN messages' = 1..(Len(messages) + 1)
        /\ messages'[Len(messages) + 1] = UserMessage(count.turns + 1)
        /\ \A i \in 1..Len(messages) : messages'[i] = messages[i]
    BY <2>1 DEF TypeInv, AppTypes
  <2>4. Last' = {}
    BY <2>3 DEF Last, UserMessage
  <2>5. \A i \in DOMAIN messages' : \E k \in Turns : messages'[i].turns = {k}
    <3>1. \A i \in DOMAIN messages' : i = Len(messages) + 1 \/ i \in DOMAIN messages
      BY <2>3
    <3>2. messages'[Len(messages) + 1].turns = {count.turns + 1}
      BY <2>3 DEF UserMessage
    <3> QED
      BY <2>2, <2>3, <3>1, <3>2 DEF BubbleInv
  <2>6. \A p \in 0..Len(toClient) : Said(p)' \subseteq Said(p) /\ (Parts(p)' <=> Parts(p))
    BY <2>1, <2>4 DEF Said, Parts, IsChunk
  <2>7. SaidApart' /\ TurnApart'
    <3>1. Len(toClient) \in Nat
      BY DEF TypeInv, WireTypes
    <3>2. \A p, q \in 0..Len(toClient) : \A b \in (p + 1)..(q - 1) : b \in 0..Len(toClient)
      BY <3>1
    <3>3. \A p \in 0..Len(toClient) : \A b \in (p + 1)..Len(toClient) : b \in 0..Len(toClient)
      BY <3>1
    <3>4. SaidApart'
      BY <2>1, <2>6, <3>2 DEF BubbleInv, SaidApart
    <3>5. TurnApart'
      BY <2>1, <2>6, <3>3 DEF BubbleInv, TurnApart
    <3> QED
      BY <3>4, <3>5
  <2> QED
    BY <2>5, <2>7 DEF BubbleInv
<1>5. CASE Onset
  BY <1>1, <1>5 DEF Onset
<1>6. CASE Utterance
  <2>1. ~IsChunk(UserText(count.turns + 1))
    BY DEF IsChunk, UserText
  <2> QED
    BY <1>1, <1>6, <2>1 DEF Utterance
<1>7. ASSUME NEW yes \in BOOLEAN, RespondConfirm(yes)
      PROVE  BubbleInv'
  BY <1>1, <1>7 DEF RespondConfirm
<1>8. ASSUME NEW mode \in {"text", "voice"}, ReconnectBegins(mode)
      PROVE  BubbleInv'
  BY <1>2, <1>8 DEF ReconnectBegins
<1>9. CASE SessionNext \/ Lost
  <2>1. /\ ~IsChunk(AuthOk) /\ ~IsChunk(TurnEnd) /\ ~IsChunk(Closed)
        /\ \A s : ~IsChunk(StatusFrame(s)) /\ ~IsChunk(RequestFrame(s))
    BY DEF IsChunk, AuthOk, TurnEnd, Closed, StatusFrame, RequestFrame
  <2>2. CASE Authenticate
    BY <1>1, <2>1, <2>2 DEF Authenticate
  <2>3. CASE HandleText
    BY <1>1, <2>3 DEF HandleText
  <2>4. CASE HandleConfirm
    BY <1>1, <2>4 DEF HandleConfirm
  <2>5. CASE StartTurn
    BY <2>5, StartBubbles
  <2>6. CASE SendChunk
    BY <2>6, ChunkBubbles
  <2>7. CASE StartSpeaking
    BY <1>1, <2>1, <2>7 DEF StartSpeaking
  <2>8. CASE Ask
    BY <1>1, <2>1, <2>8 DEF Ask
  <2>9. CASE Answered
    BY <1>1, <2>9 DEF Answered
  <2>10. CASE InterruptTurn
    BY <1>1, <2>1, <2>10 DEF InterruptTurn
  <2>11. ASSUME NEW complete \in BOOLEAN, EndTurn(complete)
         PROVE  BubbleInv'
    BY <1>1, <2>1, <2>11 DEF EndTurn
  <2>12. CASE Lost
    BY <1>1, <2>1, <2>12 DEF Lost
  <2> QED
    BY <1>9, <2>2, <2>3, <2>4, <2>5, <2>6, <2>7, <2>8, <2>9, <2>10, <2>11, <2>12 DEF SessionNext
<1>10. CASE UNCHANGED vars
  BY <1>1, <1>10 DEF vars
<1> QED
  BY <1>3, <1>4, <1>5, <1>6, <1>7, <1>8, <1>9, <1>10 DEF Next, UserNext

\* A bubble never mixes the replies to two turns, whatever is interrupted, lost or
\* reconnected, for any number of turns (reduce, _accumulateEdith).
THEOREM BubblesStayApart == Spec => []BubblesOfOneTurn
<1>1. Init => TypeInv /\ BubbleInv
  BY TypeInit, BubbleInit
<1>2. TypeInv /\ BubbleInv /\ [Next]_vars => (TypeInv /\ BubbleInv)'
  BY TypeStep, BubbleStep
<1>3. BubbleInv => BubblesOfOneTurn
  BY FS_Singleton DEF BubbleInv, BubblesOfOneTurn
<1> QED
  BY <1>1, <1>2, <1>3, PTL DEF Spec

----------------------------------------------------------------------------
(* The input *)

\* Frames after which the app is not busy, and frames after which it is.
Settles(f) == f.type = "turn_end" \/ (f.type = "status" /\ f.state \in {"listening", "idle"})
Occupies(f) == f.type = "status" /\ f.state \in {"thinking", "speaking"}

SettledAfter(i) == \E j \in DOMAIN toClient : j > i /\ Settles(toClient[j])

\* The session has something to do that the user waits for.
Working ==
    \/ queue # <<>>
    \/ \E m \in DOMAIN toServer :
         toServer[m].type = "text" \/ (toServer[m].type = "confirm" /\ toServer[m].yes)

\* Outside a turn, whatever makes the app busy is followed by what settles it, or is
\* waited for, or has been cut off.
SettlesInIdle ==
    phase \in {"handshake", "idle"} =>
      /\ IsBusy /\ ~cut => Working \/ SettledAfter(0)
      /\ \A i \in DOMAIN toClient : Occupies(toClient[i]) => SettledAfter(i)

InputInv ==
    /\ SettlesInIdle
    /\ channel = "none" /\ IsBusy => cut
    /\ phase \notin {"none", "handshake"} =>
         connected \/ \E i \in DOMAIN toClient : toClient[i].type = "auth_ok"

LEMMA InputInit == Init => InputInv
BY DEF Init, InputInv, SettlesInIdle, IsBusy

\* What is on its way once the head of the frames is taken off.
LEMMA ReceivedShape ==
    ASSUME TypeInv, NEW type, Receive(type)
    PROVE  /\ Head(toClient) = toClient[1] /\ toClient[1].type = type
           /\ 1 \in DOMAIN toClient /\ DOMAIN toClient \subseteq Nat \ {0}
           /\ \A i \in DOMAIN toClient : i # 1 =>
                i - 1 \in DOMAIN toClient' /\ toClient'[i - 1] = toClient[i]
           /\ \A i \in DOMAIN toClient' :
                /\ i \in Nat \ {0} /\ i + 1 \in DOMAIN toClient
                /\ toClient'[i] = toClient[i + 1]
           /\ UNCHANGED <<phase, queue, toServer>>
<1>1. toClient \in Seq(FramesToClient) /\ toClient # <<>> /\ toClient' = Tail(toClient)
      /\ Head(toClient).type = type /\ UNCHANGED <<phase, queue, toServer>>
  BY DEF TypeInv, WireTypes, Receive, serverVars
<1> QED
  BY <1>1

\* A frame that settles comes one place nearer.
LEMMA SettledNearer ==
    ASSUME TypeInv, NEW type, Receive(type), NEW i \in Nat, SettledAfter(i),
           i = 0 => ~Settles(toClient[1])
    PROVE  /\ i # 0 => SettledAfter(i - 1)'
           /\ i = 0 => SettledAfter(0)'
<1>1. PICK j \in DOMAIN toClient : j > i /\ Settles(toClient[j])
  BY DEF SettledAfter
<1>2. j # 1 /\ j \in Nat
  BY <1>1, ReceivedShape
<1>3. /\ j - 1 \in DOMAIN toClient' /\ toClient'[j - 1] = toClient[j]
      /\ i = 0 => j - 1 > 0
      /\ i # 0 => j - 1 > i - 1
  BY <1>1, <1>2, ReceivedShape
<1> QED
  BY <1>1, <1>3 DEF SettledAfter

\* An event is handled; what it makes of the app is as its frame says.
LEMMA EventInput ==
    ASSUME TypeInv, InputInv, NEW type, Receive(type),
           connected' = (connected \/ type = "auth_ok"),
           \/ /\ ~Settles(toClient[1]) /\ ~Occupies(toClient[1]) /\ UNCHANGED sessionState
              /\ \/ UNCHANGED <<channel, cut>>
                 \/ channel' = "none" /\ cut' = (cut \/ IsBusy)
           \/ UNCHANGED channel /\ Settles(toClient[1]) /\ ~IsBusy'
           \/ UNCHANGED channel /\ Occupies(toClient[1])
    PROVE  InputInv'
<1>1. channel # "none"
  BY DEF Receive
<1>2. ASSUME phase' \in {"handshake", "idle"}, NEW i \in DOMAIN toClient', Occupies(toClient'[i])
      PROVE  SettledAfter(i)'
  <2>1. i + 1 \in DOMAIN toClient /\ Occupies(toClient[i + 1]) /\ i + 1 \in Nat /\ i + 1 # 0
        /\ (i + 1) - 1 = i /\ phase \in {"handshake", "idle"}
    BY <1>2, ReceivedShape
  <2>2. SettledAfter(i + 1)
    BY <2>1 DEF InputInv, SettlesInIdle
  <2> QED
    BY <2>1, <2>2, SettledNearer
<1>3. ASSUME phase' \in {"handshake", "idle"}, IsBusy', ~cut'
      PROVE  Working' \/ SettledAfter(0)'
  <2>1. phase \in {"handshake", "idle"} /\ (Working' <=> Working)
    BY <1>3, ReceivedShape DEF Working
  <2>2. CASE ~Settles(toClient[1]) /\ ~Occupies(toClient[1]) /\ IsBusy /\ ~cut
    <3>1. Working \/ SettledAfter(0)
      BY <2>1, <2>2 DEF InputInv, SettlesInIdle
    <3> QED
      BY <2>1, <2>2, <3>1, SettledNearer
  <2>3. CASE Occupies(toClient[1])
    <3>1. SettledAfter(1)
      BY <2>1, <2>3, ReceivedShape DEF InputInv, SettlesInIdle
    <3>2. SettledAfter(1 - 1)'
      BY <3>1, SettledNearer
    <3> QED
      BY <3>2
  <2>4. cut \in BOOLEAN /\ (UNCHANGED sessionState => (IsBusy' <=> IsBusy))
    BY DEF IsBusy, TypeInv, AppTypes
  <2>5. CASE /\ ~Settles(toClient[1]) /\ ~Occupies(toClient[1]) /\ UNCHANGED sessionState
             /\ cut' = cut \/ cut' = (cut \/ IsBusy)
    BY <1>3, <2>2, <2>4, <2>5
  <2> QED
    BY <1>3, <2>3, <2>5
<1>4. channel' = "none" /\ IsBusy' => cut'
  BY <1>1 DEF IsBusy
<1>5. ASSUME phase' \notin {"none", "handshake"}
      PROVE  connected' \/ \E i \in DOMAIN toClient' : toClient'[i].type = "auth_ok"
  <2>1. connected \/ \E i \in DOMAIN toClient : toClient[i].type = "auth_ok"
    BY <1>5, ReceivedShape DEF InputInv
  <2>2. ASSUME NEW i \in DOMAIN toClient, toClient[i].type = "auth_ok", type # "auth_ok"
        PROVE  i - 1 \in DOMAIN toClient' /\ toClient'[i - 1].type = "auth_ok"
    BY <2>2, ReceivedShape
  <2> QED
    BY <2>1, <2>2
<1> QED
  BY <1>2, <1>3, <1>4, <1>5 DEF InputInv, SettlesInIdle

\* Frames are sent while a turn runs or is waited for, or what ends it.
LEMMA SentInput ==
    ASSUME TypeInv, InputInv, UNCHANGED <<channel, connected, sessionState, cut>>,
           NEW frames, Sends(frames),
           \/ \E f : frames = <<f>>
           \/ \E f, g : frames = <<f, g>>,
           \/ phase' \notin {"handshake", "idle"}
           \/ Settles(frames[Len(frames)])
           \/ /\ phase \in {"handshake", "idle"} /\ (Working => Working')
              /\ \A i \in DOMAIN frames : ~Occupies(frames[i]),
           \/ phase \notin {"none", "handshake"}
           \/ phase' \in {"none", "handshake"}
           \/ frames[1].type = "auth_ok"
    PROVE  InputInv'
<1> DEFINE n == Len(toClient)
           m == Len(frames)
<1>1. n \in Nat /\ m \in {1, 2} /\ DOMAIN frames = 1..m
  BY SentShape
<1>2. /\ DOMAIN toClient = 1..n /\ DOMAIN toClient' = 1..(n + m)
      /\ \A i \in 1..n : toClient'[i] = toClient[i]
      /\ \A i \in 1..m : toClient'[n + i] = frames[i]
      /\ \A i \in 1..(n + m) : i \in 1..n \/ (i - n \in 1..m /\ i = n + (i - n))
  <2>1. toClient \in Seq(FramesToClient)
    BY DEF TypeInv, WireTypes
  <2>2. toClient' = toClient \o frames
    BY DEF Sends
  <2> QED
    BY <1>1, <2>1, <2>2, SMTT(30)
<1>3. 1 \in 1..m /\ m \in 1..m /\ n + 1 \in 1..(n + m) /\ n + m \in 1..(n + m)
  BY <1>1
<1>4. ASSUME NEW i \in 0..n, SettledAfter(i)
      PROVE  SettledAfter(i)'
  <2>1. PICK j \in 1..n : j > i /\ Settles(toClient[j])
    BY <1>2, <1>4 DEF SettledAfter
  <2>2. j \in 1..(n + m)
    BY <1>1
  <2> QED
    BY <1>2, <2>1, <2>2 DEF SettledAfter
<1>5. IsBusy' <=> IsBusy
  BY DEF IsBusy
<1>6. ASSUME Settles(frames[m])
      PROVE  SettlesInIdle'
  <2>1. \A i \in 0..(n + m - 1) : SettledAfter(i)'
    <3> TAKE i \in 0..(n + m - 1)
    <3>1. n + m > i /\ Settles(toClient'[n + m]) /\ n + m \in DOMAIN toClient'
      BY <1>1, <1>2, <1>3, <1>6
    <3> QED
      BY <3>1 DEF SettledAfter
  <2>2. ~Occupies(toClient'[n + m])
    BY <1>2, <1>3, <1>6 DEF Settles, Occupies
  <2>3. \A i \in DOMAIN toClient' : i = n + m \/ i \in 0..(n + m - 1)
    BY <1>1, <1>2
  <2>4. 0 \in 0..(n + m - 1)
    BY <1>1
  <2> QED
    BY <2>1, <2>2, <2>3, <2>4 DEF SettlesInIdle
<1>7. ASSUME phase \in {"handshake", "idle"}, Working => Working',
             \A i \in DOMAIN frames : ~Occupies(frames[i])
      PROVE  SettlesInIdle'
  <2>1. IsBusy' /\ ~cut' => Working' \/ SettledAfter(0)'
    BY <1>1, <1>4, <1>5, <1>7 DEF InputInv, SettlesInIdle
  <2>2. ASSUME NEW i \in DOMAIN toClient', Occupies(toClient'[i])
        PROVE  SettledAfter(i)'
    <3>1. i \in 1..n /\ i \in 0..n
      BY <1>1, <1>2, <1>7, <2>2
    <3> QED
      BY <1>2, <1>4, <1>7, <2>2, <3>1 DEF InputInv, SettlesInIdle
  <2> QED
    BY <2>1, <2>2 DEF SettlesInIdle
<1>8. SettlesInIdle'
  BY <1>6, <1>7 DEF SettlesInIdle
<1>9. ASSUME phase' \notin {"none", "handshake"}
      PROVE  connected' \/ \E i \in DOMAIN toClient' : toClient'[i].type = "auth_ok"
  <2>1. CASE frames[1].type = "auth_ok"
    BY <1>2, <1>3, <2>1
  <2>2. CASE connected
    BY <2>2
  <2>3. ASSUME NEW i \in DOMAIN toClient, toClient[i].type = "auth_ok"
        PROVE  i \in DOMAIN toClient' /\ toClient'[i].type = "auth_ok"
    BY <1>1, <1>2, <2>3
  <2> QED
    BY <1>9, <2>1, <2>2, <2>3 DEF InputInv
<1> QED
  BY <1>5, <1>8, <1>9 DEF InputInv

\* Nothing new is on its way to the app.
LEMMA UnsentInput ==
    ASSUME TypeInv, InputInv, UNCHANGED <<toClient, connected>>,
           channel' = "none" /\ IsBusy' => cut',
           \/ phase' \notin {"handshake", "idle"}
           \/ /\ phase \in {"handshake", "idle"}
              /\ \/ IsBusy' /\ ~cut' => Working'
                 \/ (IsBusy' /\ ~cut' => IsBusy /\ ~cut) /\ (Working => Working'),
           \/ phase \notin {"none", "handshake"}
           \/ phase' \in {"none", "handshake"}
    PROVE  InputInv'
<1>1. SettledAfter(0)' <=> SettledAfter(0)
  BY DEF SettledAfter
<1>2. \A i \in DOMAIN toClient : SettledAfter(i)' <=> SettledAfter(i)
  BY DEF SettledAfter
<1>3. SettlesInIdle'
  BY <1>1, <1>2 DEF InputInv, SettlesInIdle
<1> QED
  BY <1>3 DEF InputInv

\* A frame more on its way to the server.
LEMMA WorkAdded ==
    ASSUME TypeInv, NEW f, toServer' = Append(toServer, f)
    PROVE  /\ f.type = "text" \/ (f.type = "confirm" /\ f.yes) => Working'
           /\ queue' = queue /\ Working => Working'
<1>1. toServer \in Seq(FramesToServer) /\ Len(toServer) \in Nat
      /\ DOMAIN toServer = 1..Len(toServer)
  BY DEF TypeInv, WireTypes
<1>2. /\ Len(toServer) + 1 \in DOMAIN toServer' /\ toServer'[Len(toServer) + 1] = f
      /\ \A i \in DOMAIN toServer : i \in DOMAIN toServer' /\ toServer'[i] = toServer[i]
  BY <1>1
<1> QED
  BY <1>2 DEF Working

\* A frame less, one that nobody waits for.
LEMMA WorkLeft ==
    ASSUME TypeInv, toServer # <<>>, toServer' = Tail(toServer), queue' = queue, Working,
           Head(toServer).type = "confirm", ~Head(toServer).yes
    PROVE  Working'
<1>1. toServer \in Seq(FramesToServer)
  BY DEF TypeInv, WireTypes
<1>2. /\ Head(toServer) = toServer[1]
      /\ \A i \in DOMAIN toServer : i # 1 =>
           i - 1 \in DOMAIN toServer' /\ toServer'[i - 1] = toServer[i]
  BY <1>1
<1>3. CASE queue # <<>>
  BY <1>3 DEF Working
<1>4. ASSUME NEW i \in DOMAIN toServer,
             \/ toServer[i].type = "text"
             \/ toServer[i].type = "confirm" /\ toServer[i].yes
      PROVE  Working'
  <2>1. i # 1
    BY <1>2, <1>4
  <2> QED
    BY <1>2, <1>4, <2>1 DEF Working
<1> QED
  BY <1>3, <1>4 DEF Working

\* Text that was appended to the queue is work.
LEMMA QueuedIsWork == ASSUME TypeInv, NEW k, queue' = Append(queue, k) PROVE Working'
<1>1. queue \in Seq(Turns)
  BY DEF TypeInv, ServerTypes
<1>2. queue' # <<>>
  BY <1>1
<1> QED
  BY <1>2 DEF Working

\* The app handles an event, or connects.
LEMMA EventsInput == ASSUME TypeInv, InputInv, EventNext PROVE InputInv'
<1> USE DEF chatState, socket, serverVars, wires, history
<1>1. \A type : Receive(type) => toClient[1].type = type
  BY ReceivedShape
<1>2. CASE ReceiveAuthOk
  <2>1. toClient[1].type = "auth_ok"
    BY <1>1, <1>2 DEF ReceiveAuthOk
  <2> QED
    BY <1>2, <2>1, EventInput DEF ReceiveAuthOk, Settles, Occupies
<1>3. CASE ReceiveStatus
  <2>1. /\ Receive("status") /\ UNCHANGED <<channel, connected>>
        /\ sessionState' = Head(toClient).state
    BY <1>3 DEF ReceiveStatus
  <2>2. toClient[1].type = "status" /\ sessionState' = toClient[1].state
        /\ sessionState' \in States
    BY <2>1, ReceivedShape, ReceivedType
  <2>3. \/ Settles(toClient[1]) /\ ~IsBusy'
        \/ Occupies(toClient[1])
    BY <2>2 DEF States, Settles, Occupies, IsBusy
  <2>4. connected' = (connected \/ "status" = "auth_ok")
    BY <2>1 DEF TypeInv, AppTypes
  <2> QED
    BY <2>1, <2>3, <2>4, EventInput
<1>4. CASE ReceiveTranscript
  <2>1. toClient[1].type = "transcript"
    BY <1>1, <1>4 DEF ReceiveTranscript
  <2>2. connected' = (connected \/ "transcript" = "auth_ok")
    BY <1>4 DEF ReceiveTranscript, TypeInv, AppTypes
  <2> QED
    BY <1>4, <2>1, <2>2, EventInput DEF ReceiveTranscript, Settles, Occupies
<1>5. CASE ReceiveRequest
  <2>1. toClient[1].type = "confirm_request"
    BY <1>1, <1>5 DEF ReceiveRequest
  <2>2. connected' = (connected \/ "confirm_request" = "auth_ok")
    BY <1>5 DEF ReceiveRequest, TypeInv, AppTypes
  <2> QED
    BY <1>5, <2>1, <2>2, EventInput DEF ReceiveRequest, Settles, Occupies
<1>6. CASE ReceiveTurnEnd
  <2>1. toClient[1].type = "turn_end"
    BY <1>1, <1>6 DEF ReceiveTurnEnd
  <2>2. connected' = (connected \/ "turn_end" = "auth_ok")
    BY <1>6 DEF ReceiveTurnEnd, TypeInv, AppTypes
  <2> QED
    BY <1>6, <2>1, <2>2, EventInput DEF ReceiveTurnEnd, Settles, IsBusy
<1>7. CASE ReceiveClosed
  <2>1. toClient[1].type = "ws_closed"
    BY <1>1, <1>7 DEF ReceiveClosed
  <2>2. connected' = (connected \/ "ws_closed" = "auth_ok")
    BY <1>7 DEF ReceiveClosed, TypeInv, AppTypes
  <2> QED
    BY <1>7, <2>1, <2>2, EventInput DEF ReceiveClosed, Settles, Occupies
<1>8. ASSUME NEW mode \in {"text", "voice"}, Connect(mode)
      PROVE  InputInv'
  <2>1. /\ UNCHANGED <<connected, sessionState, cut, queue>>
        /\ IsBusy' <=> IsBusy
    BY <1>8 DEF Connect, IsBusy
  <2>2. CASE channel = "none"
    <3>1. channel' = mode /\ phase' = "handshake" /\ toClient' = <<>>
      BY <1>8, <2>2 DEF Connect
    <3>2. IsBusy' => cut'
      BY <2>1, <2>2 DEF InputInv
    <3>3. DOMAIN toClient' = {}
      BY <3>1
    <3>4. SettlesInIdle'
      BY <3>2, <3>3 DEF SettlesInIdle
    <3> QED
      BY <3>1, <3>2, <3>4 DEF InputInv
  <2>3. CASE channel # "none"
    <3>1. UNCHANGED <<channel, phase, toClient, toServer>>
      BY <1>8, <2>3 DEF Connect
    <3>2. Working => Working'
      BY <2>1, <3>1 DEF Working
    <3> QED
      BY <2>1, <2>3, <3>1, <3>2, UnsentInput
  <2> QED
    BY <2>2, <2>3
<1> QED
  BY <1>2, <1>3, <1>4, <1>5, <1>6, <1>7, <1>8 DEF EventNext

\* The user types, speaks, answers or switches the connection.
LEMMA UserInput == ASSUME TypeInv, TypeInv', InputInv, UserNext PROVE InputInv'
<1> USE DEF chatState, socket, serverVars, wires, history
<1>1. CASE SendText
  <2> DEFINE f == TextFrame(count.turns + 1)
  <2>1. /\ UNCHANGED <<toClient, connected, channel, phase, queue>>
        /\ cut' = (channel = "none") /\ Send(f)
    BY <1>1 DEF SendText
  <2>2. ~cut' => Working'
    <3>1. f.type = "text"
      BY DEF TextFrame
    <3> QED
      BY <2>1, <3>1, WorkAdded DEF Send
  <2>3. phase \in {"handshake", "idle"} \/ phase \notin {"handshake", "idle"}
    OBVIOUS
  <2> HIDE DEF f
  <2> QED
    BY <2>1, <2>2, <2>3, UnsentInput
<1>2. CASE Onset
  <2>1. /\ UNCHANGED <<toClient, connected, channel, phase, cut, sessionState>>
        /\ phase \in {"turn", "asking"}
    BY <1>2 DEF Onset, TurnActive
  <2>2. channel' = "none" /\ IsBusy' => cut'
    BY <2>1 DEF InputInv, IsBusy
  <2> QED
    BY <2>1, <2>2, UnsentInput
<1>3. CASE Utterance
  <2> DEFINE f == UserText(count.turns + 1)
  <2>1. /\ UNCHANGED <<channel, connected, sessionState, cut, phase>>
        /\ phase \in {"idle", "turn", "asking"}
        /\ Sends(<<f>>) /\ queue' = Append(queue, count.turns + 1)
    BY <1>3 DEF Utterance
  <2>2. Working'
    BY <2>1, QueuedIsWork
  <2>3. \A i \in DOMAIN <<f>> : ~Occupies(<<f>>[i])
    BY DEF Occupies, UserText
  <2> HIDE DEF f
  <2>4. \E g : <<f>> = <<g>>
    OBVIOUS
  <2> QED
    BY <2>1, <2>2, <2>3, <2>4, SentInput
<1>4. ASSUME NEW yes \in BOOLEAN, RespondConfirm(yes)
      PROVE  InputInv'
  <2> DEFINE f == ConfirmFrame(pending, yes)
  <2>1. /\ UNCHANGED <<toClient, connected, channel, phase, queue>>
        /\ cut' = (yes /\ channel = "none") /\ Send(f)
        /\ sessionState' = IF yes THEN "thinking" ELSE "idle"
    BY <1>4 DEF RespondConfirm
  <2>2. IsBusy' => yes
    BY <2>1 DEF IsBusy
  <2>3. IsBusy' /\ ~cut' => Working'
    <3>1. f.type = "confirm" /\ f.yes = yes
      BY DEF ConfirmFrame
    <3> QED
      BY <2>1, <2>2, <3>1, WorkAdded DEF Send
  <2>4. phase \in {"handshake", "idle"} \/ phase \notin {"handshake", "idle"}
    OBVIOUS
  <2> HIDE DEF f
  <2> QED
    BY <2>1, <2>2, <2>3, <2>4, UnsentInput
<1>5. ASSUME NEW mode \in {"text", "voice"}, ReconnectBegins(mode)
      PROVE  InputInv'
  <2>1. phase' = "none" /\ cut' = (cut \/ IsBusy) /\ sessionState' = sessionState
    BY <1>5 DEF ReconnectBegins
  <2> QED
    BY <2>1 DEF InputInv, SettlesInIdle, IsBusy
<1> QED
  BY <1>1, <1>2, <1>3, <1>4, <1>5 DEF UserNext

\* The session runs, or loses its connection.
LEMMA SessionInput == ASSUME TypeInv, InputInv, SessionNext \/ Lost PROVE InputInv'
<1> USE DEF chatState, socket, wires, history, SessionStep, TurnActive
<1>1. \A f, g : <<f>>[1] = f /\ <<f, g>>[1] = f /\ <<f>>[Len(<<f>>)] = f
                /\ <<f, g>>[Len(<<f, g>>)] = g /\ DOMAIN <<f>> = {1}
                /\ DOMAIN <<f, g>> = {1, 2}
  OBVIOUS
<1>2. CASE Authenticate
  <2>1. ~Occupies(AuthOk) /\ AuthOk.type = "auth_ok"
    BY DEF Occupies, AuthOk
  <2>2. /\ UNCHANGED <<channel, connected, sessionState, cut>> /\ Sends(<<AuthOk>>)
        /\ phase = "handshake" /\ UNCHANGED <<queue, toServer>>
    BY <1>2 DEF Authenticate
  <2>3. Working => Working'
    BY <2>2 DEF Working
  <2>4. (\A i \in DOMAIN <<AuthOk>> : ~Occupies(<<AuthOk>>[i]))
        /\ <<AuthOk>>[1].type = "auth_ok"
    BY <1>1, <2>1
  <2> QED
    BY <2>2, <2>3, <2>4, SentInput
<1>3. CASE HandleText
  <2>1. /\ UNCHANGED <<toClient, connected, channel, phase, cut, sessionState>>
        /\ phase \notin {"none", "handshake"}
        /\ queue' = Append(queue, Head(toServer).turn)
    BY <1>3 DEF HandleText
  <2>2. channel' = "none" /\ IsBusy' => cut'
    BY <2>1 DEF InputInv, IsBusy
  <2>3. Working'
    BY <2>1, QueuedIsWork
  <2>4. phase = "idle" \/ phase \notin {"handshake", "idle"}
    BY <2>1
  <2> QED
    BY <2>1, <2>2, <2>3, <2>4, UnsentInput
<1>4. CASE HandleConfirm
  <2>1. /\ UNCHANGED <<toClient, connected, channel, phase, queue, sessionState>>
        /\ phase \notin {"none", "handshake"}
        /\ toServer # <<>> /\ Head(toServer).type = "confirm" /\ toServer' = Tail(toServer)
    BY <1>4 DEF HandleConfirm
  <2>2. cut => cut'
    BY <1>4 DEF HandleConfirm
  <2>3. phase = "idle" /\ Head(toServer).yes => cut'
    BY <1>4 DEF HandleConfirm
  <2>4. channel' = "none" /\ IsBusy' => cut'
    BY <2>1, <2>2 DEF InputInv, IsBusy
  <2>5. CASE phase = "idle" /\ ~Head(toServer).yes
    <3>1. Working => Working'
      BY <2>1, <2>5, WorkLeft
    <3>2. IsBusy' /\ ~cut' => IsBusy /\ ~cut
      BY <2>1, <2>2 DEF IsBusy
    <3> QED
      BY <2>1, <2>4, <2>5, <3>1, <3>2, UnsentInput
  <2>6. CASE phase = "idle" /\ Head(toServer).yes
    BY <2>1, <2>3, <2>4, <2>6, UnsentInput
  <2>7. CASE phase # "idle"
    BY <2>1, <2>4, <2>7, UnsentInput
  <2> QED
    BY <2>5, <2>6, <2>7
<1>5. ASSUME UNCHANGED <<channel, connected, sessionState, cut>>,
             phase \notin {"none", "handshake"}, NEW frames, Sends(frames),
             (\E f : frames = <<f>>) \/ (\E f, g : frames = <<f, g>>),
             phase' \in {"turn", "asking"} \/ Settles(frames[Len(frames)])
      PROVE  InputInv'
  BY <1>5, SentInput
<1>6. CASE StartTurn
  BY <1>5, <1>6 DEF StartTurn
<1>7. CASE SendChunk
  BY <1>5, <1>7 DEF SendChunk
<1>8. CASE StartSpeaking
  BY <1>5, <1>8 DEF StartSpeaking
<1>9. CASE Ask
  BY <1>5, <1>9 DEF Ask
<1>10. CASE Answered
  <2>1. /\ UNCHANGED <<toClient, connected, channel, cut, sessionState>>
        /\ phase = "asking" /\ phase' = "turn"
    BY <1>10 DEF Answered
  <2>2. channel' = "none" /\ IsBusy' => cut'
    BY <2>1 DEF InputInv, IsBusy
  <2> QED
    BY <2>1, <2>2, UnsentInput
<1>11. Settles(StatusFrame("listening")) /\ Settles(StatusFrame("idle"))
  BY DEF Settles, StatusFrame
<1>12. CASE InterruptTurn
  BY <1>1, <1>5, <1>11, <1>12 DEF InterruptTurn
<1>13. ASSUME NEW complete \in BOOLEAN, EndTurn(complete)
       PROVE  InputInv'
  BY <1>1, <1>5, <1>11, <1>13 DEF EndTurn
<1>14. CASE Lost
  <2>1. /\ UNCHANGED <<channel, connected, sessionState, cut>> /\ phase' = "none"
        /\ Sends(<<Closed>>)
    BY <1>14 DEF Lost
  <2> QED
    BY <2>1, SentInput
<1> QED
  BY <1>2, <1>3, <1>4, <1>6, <1>7, <1>8, <1>9, <1>10, <1>12, <1>13, <1>14 DEF SessionNext

LEMMA InputStep == TypeInv /\ TypeInv' /\ InputInv /\ [Next]_vars => InputInv'
<1> SUFFICES ASSUME TypeInv, TypeInv', InputInv, [Next]_vars
             PROVE  InputInv'
  OBVIOUS
<1>1. CASE UNCHANGED vars
  <2>1. UNCHANGED <<toClient, toServer, connected, channel, phase, cut, sessionState, queue>>
    BY <1>1 DEF vars, chatState, socket, wires, serverVars, history
  <2>2. (IsBusy' <=> IsBusy) /\ (Working' <=> Working)
        /\ \A i : SettledAfter(i)' <=> SettledAfter(i)
    BY <2>1 DEF IsBusy, Working, SettledAfter
  <2> QED
    BY <2>1, <2>2 DEF InputInv, SettlesInIdle
<1> QED
  BY <1>1, EventsInput, UserInput, SessionInput DEF Next

\* Once the session has nothing more to do or to say, the user can type, for any number of
\* turns, requests and lost connections, unless the end of the last turn was cut off
\* (chat_reducer.dart, chat_controller.dart).
THEOREM InputComesBack == Spec => []InputReturns
<1>1. Init => TypeInv /\ InputInv
  BY TypeInit, InputInit
<1>2. TypeInv /\ InputInv /\ [Next]_vars => (TypeInv /\ InputInv)'
  BY TypeStep, InputStep
<1>3. TypeInv /\ InputInv => InputReturns
  <2> SUFFICES ASSUME TypeInv, InputInv, Quiet, ~cut, dialog = 0
               PROVE  CanSend
    BY DEF InputReturns
  <2>1. DOMAIN toClient = {} /\ ~Working
    BY DEF Quiet, Working
  <2>2. connected /\ ~IsBusy
    BY <2>1 DEF InputInv, SettlesInIdle, SettledAfter, Quiet
  <2>3. pending = 0
    BY DEF TypeInv, AppTypes
  <2> QED
    BY <2>2, <2>3 DEF CanSend
<1> QED
  BY <1>1, <1>2, <1>3, PTL DEF Spec

=============================================================================
