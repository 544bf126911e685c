------------------------- MODULE VoiceClient_proofs -------------------------
(***************************************************************************)
(* Theorems about VoiceClient, for any number of taps, frames and faults.  *)
(*                                                                         *)
(*   TypeCorrect      the types of the state, and which awaits a start and *)
(*                    a stop can be at                                     *)
(*   DroppedForGood   what was stopped is not played                       *)
(*   ScreenTellsMic   the microphone is live only while the screen says so *)
(*   LastTapWins      when all has ended, the last tap has decided         *)
(***************************************************************************)
EXTENDS VoiceClient, FiniteSetTheorems, TLAPS

----------------------------------------------------------------------------
(* The invariants *)

Enabling     == {"priming", "primed", "acquiring", "loading"}
Switching    == {"cancelling", "detaching", "releasing"}
Reconnecting == {"leaving", "closing"}
Ends         == {"done", "failed"}

\* The awaits of a function, by the kind of its tap.
Phases(k) == Reconnecting \cup Ends \cup (IF k = "start" THEN Enabling ELSE Switching)

TapTypes ==
    /\ taps \in Nat
    /\ kind \in [Taps -> {"start", "stop"}]
    /\ pc \in [Taps -> Reconnecting \cup Enabling \cup Switching \cup Ends]
    /\ \A t \in Taps : pc[t] \in Phases(kind[t])

StateTypes ==
    /\ platform \in {"web", "native"}
    /\ channel \in {"none", "text", "voice"}
    /\ mic \in {"off", "denied", "starting", "capturing"}
    /\ player \in {"closed", "opening", "open", "stuck"}
    /\ {captureSub, held, closing} \subseteq 0..taps
    /\ listening \subseteq Taps /\ streams \subseteq Taps
    /\ {speaking, bargedIn, raced, contested} \subseteq BOOLEAN
    /\ faults \in Nat

AudioTypes ==
    /\ audio \in Nat
    /\ pending \subseteq 1..audio /\ playing \subseteq 1..audio /\ silenced \subseteq 1..audio

\* The start that opens the player is the one that waits for it.
OpenerWaits ==
    /\ opener # 0 => opener \in Taps /\ pc[opener] = "priming" /\ player = "opening"
    /\ \A t \in Taps : pc[t] = "priming" => opener = t

TypeOK == TapTypes /\ StateTypes /\ AudioTypes /\ OpenerWaits

\* Nothing is captured, and nothing is left to stop.
Quiet == streams = {} /\ listening = {} /\ held = 0 /\ captureSub = 0

\* No start is under way while a stop switches the microphone.
Apart ==
    \A t, u \in Taps : pc[t] \in Switching /\ kind[u] = "start" => Ended(u)

\* One start at a time is past the look at micState, and it finds nothing captured.
OneEnables ==
    \A t \in Taps : pc[t] \in Enabling =>
      /\ mic = "starting"
      /\ \A u \in Taps : pc[u] \in Enabling => u = t
      /\ IF pc[t] = "loading" THEN held = t /\ streams = {t} ELSE Quiet

MicStates ==
    /\ mic \in {"off", "denied"} => Quiet
    /\ mic = "starting" => listening = {} /\ captureSub = 0
    /\ listening \subseteq {captureSub} /\ streams \subseteq {held}

\* How far a stop has come.
StopsSoFar ==
    \A t \in Taps :
      /\ pc[t] \in Switching => listening = {}
      /\ pc[t] \in {"detaching", "releasing"} => captureSub = 0
      /\ pc[t] = "releasing" => streams = {}

MicInv == Apart /\ OneEnables /\ MicStates /\ StopsSoFar

\* After a stop, no start is under way, and the microphone is off and the socket not in
\* voice mode, or a stop is still to see to it.
StopDecides ==
    kind[taps] = "stop" =>
      /\ \A t \in Taps : kind[t] = "start" => Ended(t)
      /\ mic = "off" \/ \E t \in Taps : pc[t] \in Switching
      /\ channel # "voice" \/ \E t \in Taps : pc[t] \in Switching \cup {"leaving"}

\* After a start, no stop switches the microphone, and the start is the last that leaves
\* the channel.
StartDecides ==
    kind[taps] = "start" =>
      /\ \A t \in Taps : pc[t] \notin Switching
      /\ mic # "off" \/ pc[taps] \in Reconnecting
      /\ mic = "capturing" => listening = {captureSub} /\ streams = {held}

StartConnects ==
    kind[taps] = "start" /\ pc[taps] # "leaving" =>
      /\ \A t \in Taps : pc[t] # "leaving"
      /\ channel # "text"
      /\ channel = "none" => \A t \in Taps : pc[t] = "closing" => t = taps

\* The stop whose context is being closed is still to turn the microphone off.
ClosingIsReleased == closing # 0 => \E t \in Taps : pc[t] = "releasing"

LastInv ==
    /\ ClosingIsReleased
    /\ taps > 0 /\ ~raced => StopDecides /\ StartDecides
    /\ taps > 0 /\ ~raced /\ ~contested => StartConnects

RacedInv == ~raced => MicInv

----------------------------------------------------------------------------
(* Types *)

\* A tap begins a function.
LEMMA TapBegins ==
    ASSUME TypeOK, NEW action \in {"start", "stop"}, NEW first \in Phases(action),
           Tap(action, first), first # "priming"
    PROVE  /\ TapTypes' /\ taps' = taps + 1
           /\ Taps \subseteq Taps' /\ taps' \in Taps' /\ taps' \notin Taps
           /\ Taps' = Taps \cup {taps'}
           /\ kind'[taps'] = action /\ pc'[taps'] = first
           /\ \A t \in Taps : t # taps' /\ kind'[t] = kind[t] /\ pc'[t] = pc[t]
<1>1. taps \in Nat /\ taps' = taps + 1 /\ Taps = 1..taps /\ Taps' = 1..(taps + 1)
  BY DEF TypeOK, TapTypes, Tap, Taps
<1>2. Taps' = Taps \cup {taps'} /\ taps' \notin Taps
  BY <1>1
<1>3. /\ kind'[taps'] = action /\ pc'[taps'] = first
      /\ \A t \in Taps : t # taps' /\ kind'[t] = kind[t] /\ pc'[t] = pc[t]
  BY <1>1, <1>2 DEF Tap
<1>4. \A t \in Taps' : /\ kind'[t] \in {"start", "stop"}
                       /\ pc'[t] \in Phases(kind'[t])
  BY <1>2, <1>3 DEF TypeOK, TapTypes
<1>5. \A k : Phases(k) \subseteq Reconnecting \cup Enabling \cup Switching \cup Ends
  BY DEF Phases
<1>6. DOMAIN kind' = Taps' /\ DOMAIN pc' = Taps'
  BY <1>1 DEF Tap
<1>7. kind' \in [Taps' -> {"start", "stop"}]
  BY <1>1, <1>4 DEF Tap
<1>8. pc' \in [Taps' -> Reconnecting \cup Enabling \cup Switching \cup Ends]
  BY <1>1, <1>4, <1>5 DEF Tap
<1> QED
  BY <1>1, <1>2, <1>3, <1>4, <1>7, <1>8 DEF TapTypes

\* A function goes on to its next await.
LEMMA FunctionMoves ==
    ASSUME TypeOK, NEW t \in Taps, NEW to \in Phases(kind[t]),
           pc' = [pc EXCEPT ![t] = to], UNCHANGED <<taps, kind>>
    PROVE  /\ TapTypes' /\ Taps' = Taps
           /\ pc'[t] = to /\ \A u \in Taps : u # t => pc'[u] = pc[u]
<1>1. /\ Taps' = Taps
      /\ pc'[t] = to /\ \A u \in Taps : u # t => pc'[u] = pc[u]
  BY DEF TypeOK, TapTypes, Taps
<1>2. to \in Reconnecting \cup Enabling \cup Switching \cup Ends
  BY DEF Phases
<1>3. pc' \in [Taps -> Reconnecting \cup Enabling \cup Switching \cup Ends]
  BY <1>2 DEF TypeOK, TapTypes
<1>4. \A u \in Taps : pc'[u] \in Phases(kind'[u])
  BY <1>1 DEF TypeOK, TapTypes
<1> QED
  BY <1>1, <1>3, <1>4 DEF TypeOK, TapTypes

\* Who waits for the player keeps waiting for it.
LEMMA OpenerKept ==
    ASSUME OpenerWaits, Taps \subseteq Taps', opener' = opener,
           player = "opening" => player' = "opening",
           \A t \in Taps : pc[t] = "priming" => pc'[t] = "priming",
           \A t \in Taps' : pc'[t] = "priming" => t \in Taps /\ pc[t] = "priming"
    PROVE  OpenerWaits'
BY DEF OpenerWaits

\* What the playback does with its frames.
LEMMA StopTypes ==
    ASSUME TypeOK, StopPlayback, audio' = audio
    PROVE  /\ AudioTypes'
           /\ player' \in {"closed", "opening", "open", "stuck"}
           /\ player = "opening" => player' = "opening"
           /\ opener' = opener
BY DEF TypeOK, AudioTypes, StateTypes, StopPlayback

LEMMA TypeInit == Init => TypeOK
<1> SUFFICES ASSUME Init PROVE TypeOK
  OBVIOUS
<1>1. taps = 0 /\ Taps = {} /\ 0 \in 0..taps
  BY DEF Init, Taps
<1>2. TapTypes
  BY <1>1 DEF Init, TapTypes
<1>3. StateTypes
  BY <1>1, PlatformsAssumption DEF Init, StateTypes
<1>4. AudioTypes
  BY DEF Init, AudioTypes
<1>5. OpenerWaits
  BY <1>1 DEF Init, OpenerWaits
<1> QED
  BY <1>2, <1>3, <1>4, <1>5 DEF TypeOK

LEMMA TypeTaps ==
    ASSUME TypeOK, TapStart \/ TapStop
    PROVE  TypeOK'
<1>1. CASE TapStart
  <2>1. Tap("start", "leaving") /\ "leaving" \in Phases("start")
    BY <1>1 DEF TapStart, Phases, Reconnecting
  <2>2. TapTypes' /\ taps' = taps + 1 /\ Taps \subseteq Taps'
        /\ pc'[taps'] = "leaving" /\ Taps' = Taps \cup {taps'}
        /\ \A t \in Taps : t # taps' /\ pc'[t] = pc[t]
    BY <2>1, TapBegins
  <2>3. 0..taps \subseteq 0..taps'
    BY <2>2 DEF TypeOK, TapTypes
  <2>4. StateTypes'
    BY <1>1, <2>2, <2>3
    DEF TapStart, TypeOK, StateTypes, capture, session
  <2>5. AudioTypes'
    BY <1>1 DEF TapStart, TypeOK, AudioTypes
  <2>6. OpenerWaits'
    BY <1>1, <2>2, OpenerKept DEF TapStart, TypeOK
  <2> QED
    BY <2>2, <2>4, <2>5, <2>6 DEF TypeOK
<1>2. CASE TapStop
  <2>1. Tap("stop", "cancelling") /\ "cancelling" \in Phases("stop")
    BY <1>2 DEF TapStop, Phases, Switching
  <2>2. TapTypes' /\ taps' = taps + 1 /\ Taps \subseteq Taps'
        /\ pc'[taps'] = "cancelling" /\ Taps' = Taps \cup {taps'}
        /\ \A t \in Taps : t # taps' /\ pc'[t] = pc[t]
    BY <2>1, TapBegins
  <2>3. 0..taps \subseteq 0..taps'
    BY <2>2 DEF TypeOK, TapTypes
  <2>4. StateTypes'
    BY <1>2, <2>2, <2>3
    DEF TapStop, TypeOK, StateTypes, session, playback
  <2>5. AudioTypes'
    BY <1>2 DEF TapStop, TypeOK, AudioTypes, playback
  <2>6. OpenerWaits'
    BY <1>2, <2>2, OpenerKept DEF TapStop, TypeOK, playback
  <2> QED
    BY <2>2, <2>4, <2>5, <2>6 DEF TypeOK
<1> QED
  BY <1>1, <1>2

\* A function that neither waits for the player nor comes to wait for it.
LEMMA TypeMoves ==
    ASSUME TypeOK, NEW t \in Taps, NEW to \in Phases(kind[t]),
           pc[t] # "priming", to # "priming",
           pc' = [pc EXCEPT ![t] = to], UNCHANGED <<taps, kind, opener>>,
           player = "opening" => player' = "opening",
           StateTypes', AudioTypes'
    PROVE  TypeOK'
<1>1. TapTypes' /\ Taps' = Taps /\ pc'[t] = to /\ \A u \in Taps : u # t => pc'[u] = pc[u]
  BY FunctionMoves
<1>2. OpenerWaits'
  BY <1>1, OpenerKept DEF TypeOK
<1> QED
  BY <1>1, <1>2 DEF TypeOK

\* Only a start enables, only a stop switches off; both reconnect and end.
LEMMA KindOf ==
    ASSUME TypeOK, NEW t \in Taps
    PROVE  /\ pc[t] \in Enabling => Enabling \subseteq Phases(kind[t]) /\ kind[t] = "start"
           /\ pc[t] \in Switching => Switching \subseteq Phases(kind[t]) /\ kind[t] = "stop"
           /\ Reconnecting \cup Ends \subseteq Phases(kind[t])
           /\ kind[t] = "start" => Enabling \subseteq Phases(kind[t])
           /\ kind[t] \in {"start", "stop"}
BY DEF TypeOK, TapTypes, Phases, Enabling, Switching, Reconnecting, Ends

\* The steps from a reconnect.
LEMMA TypeReconnects ==
    ASSUME TypeOK, NEW t \in Taps, LeaveChannel(t) \/ ConnectText(t) \/ ConnectVoice(t)
    PROVE  TypeOK'
<1> USE KindOf DEF Reconnecting, Ends, Enabling
<1>1. CASE LeaveChannel(t)
  <2>1. /\ pc[t] = "leaving" /\ pc' = [pc EXCEPT ![t] = "closing"]
        /\ UNCHANGED <<taps, kind, opener, player>>
    BY <1>1 DEF LeaveChannel, At, playback
  <2>2. StateTypes'
    BY <1>1 DEF LeaveChannel, LosesChannel, TypeOK, StateTypes, capture, playback, session, Taps
  <2>3. AudioTypes'
    BY <1>1 DEF LeaveChannel, TypeOK, AudioTypes, playback
  <2> QED
    BY <2>1, <2>2, <2>3, TypeMoves
<1>2. CASE ConnectText(t)
  <2>1. /\ pc[t] \in Reconnecting /\ pc' = [pc EXCEPT ![t] = "done"]
        /\ UNCHANGED <<taps, kind, opener, player>>
    BY <1>2 DEF ConnectText, Connect, IsNextToLeave, playback
  <2>2. StateTypes'
    BY <1>2 DEF ConnectText, Connect, TypeOK, StateTypes, capture, playback, session, Taps
  <2>3. AudioTypes'
    BY <1>2 DEF ConnectText, TypeOK, AudioTypes, playback
  <2> QED
    BY <2>1, <2>2, <2>3, TypeMoves
<1>3. CASE ConnectVoice(t)
  <2>1. /\ pc[t] \in Reconnecting /\ kind[t] = "start"
        /\ UNCHANGED <<taps, kind>>
    BY <1>3 DEF ConnectVoice, Connect, IsNextToLeave
  <2>2. StateTypes'
    BY <1>3 DEF ConnectVoice, Connect, TypeOK, StateTypes, capture, session, Taps
  <2>3. AudioTypes'
    BY <1>3 DEF ConnectVoice, TypeOK, AudioTypes
  <2>4. ASSUME pc' = [pc EXCEPT ![t] = "priming"], player = "closed",
               player' = "opening", opener' = t
        PROVE  TypeOK'
    <3>1. /\ TapTypes' /\ Taps' = Taps
          /\ pc'[t] = "priming" /\ \A u \in Taps : u # t => pc'[u] = pc[u]
      BY <2>1, <2>4, FunctionMoves
    <3>2. \A u \in Taps : pc[u] # "priming"
      BY <2>4 DEF TypeOK, OpenerWaits, TapTypes, Taps
    <3>3. OpenerWaits'
      BY <2>4, <3>1, <3>2 DEF OpenerWaits
    <3> QED
      BY <2>2, <2>3, <3>1, <3>3 DEF TypeOK
  <2>5. ASSUME NEW to \in {"primed", "done"}, pc' = [pc EXCEPT ![t] = to],
               UNCHANGED <<player, opener>>
        PROVE  TypeOK'
    BY <2>1, <2>2, <2>3, <2>5, TypeMoves
  <2> QED
    BY <1>3, <2>4, <2>5 DEF ConnectVoice, Connect
<1> QED
  BY <1>1, <1>2, <1>3

\* The steps of a start.
LEMMA TypeStarts ==
    ASSUME TypeOK, NEW t \in Taps,
           \/ AcquireMic(t) \/ MicDenied(t) \/ MicGrantedNative(t) \/ MicGrantedWeb(t)
           \/ WorkletLoads(t) \/ WorkletRaises(t)
    PROVE  TypeOK'
<1>1. /\ pc[t] \in Enabling \ {"priming"}
      /\ \E to \in Enabling \cup Ends : to # "priming" /\ pc' = [pc EXCEPT ![t] = to]
      /\ UNCHANGED rest
  BY DEF AcquireMic, MicDenied, MicGrantedNative, MicGrantedWeb, WorkletLoads, WorkletRaises,
         At, Enabling, Ends
<1>2. /\ mic' \in {mic, "denied", "capturing"}
      /\ captureSub' \in {captureSub, t} /\ held' \in {held, t} /\ closing' = closing
      /\ listening' \subseteq listening \cup {t} /\ streams' \subseteq streams \cup {t}
      /\ faults' \in {faults, faults + 1}
  BY DEF AcquireMic, MicDenied, MicGrantedNative, MicGrantedWeb, WorkletLoads, WorkletRaises,
         Started, Fault, capture
<1>3. t \in 0..taps /\ Taps' = Taps
  BY <1>1 DEF TypeOK, TapTypes, Taps, rest
<1>4. StateTypes'
  BY <1>1, <1>2, <1>3 DEF TypeOK, StateTypes, rest, playback, session
<1>5. AudioTypes'
  BY <1>1 DEF TypeOK, AudioTypes, rest, playback
<1>6. kind[t] = "start" /\ Enabling \cup Ends \subseteq Phases(kind[t])
  BY <1>1, KindOf
<1> QED
  BY <1>1, <1>4, <1>5, <1>6, TypeMoves DEF rest, playback

\* The steps of a stop.
LEMMA TypeStops ==
    ASSUME TypeOK, NEW t \in Taps,
           ReleaseWeb(t) \/ DetachNative(t) \/ ReleaseNative(t) \/ VoiceOff(t)
    PROVE  TypeOK'
<1>1. /\ pc[t] \in Switching
      /\ \E to \in Switching \cup Reconnecting \cup Ends : pc' = [pc EXCEPT ![t] = to]
      /\ UNCHANGED <<taps, kind, opener>>
  BY DEF ReleaseWeb, DetachNative, ReleaseNative, VoiceOff, At, Switching, Reconnecting,
         Ends, rest, StopPlayback, playback
<1>2. Taps' = Taps /\ 0 \in 0..taps /\ "priming" \notin Switching \cup Reconnecting \cup Ends
  BY <1>1 DEF TypeOK, TapTypes, Taps, Switching, Reconnecting, Ends
<1>3. StateTypes' /\ AudioTypes' /\ (player = "opening" => player' = "opening")
  <2>1. CASE VoiceOff(t)
    <3>1. StopPlayback /\ audio' = audio
      BY <2>1 DEF VoiceOff
    <3>2. StateTypes'
      BY <1>1, <1>2, <2>1, <3>1, StopTypes DEF VoiceOff, TypeOK, StateTypes
    <3> QED
      BY <3>1, <3>2, StopTypes
  <2>2. CASE ReleaseWeb(t)
    BY <1>2, <2>2 DEF ReleaseWeb, TypeOK, StateTypes, AudioTypes, rest, playback, session
  <2>3. CASE DetachNative(t)
    BY <1>2, <2>3 DEF DetachNative, TypeOK, StateTypes, AudioTypes, rest, playback, session
  <2>4. CASE ReleaseNative(t)
    BY <1>2, <2>4 DEF ReleaseNative, TypeOK, StateTypes, AudioTypes, rest, playback, session
  <2> QED
    BY <2>1, <2>2, <2>3, <2>4
<1>4. Switching \cup Reconnecting \cup Ends \subseteq Phases(kind[t])
  BY <1>1, KindOf
<1>5. pc[t] # "priming"
  BY <1>1 DEF Switching
<1> QED
  BY <1>1, <1>2, <1>3, <1>4, <1>5, TypeMoves

\* The steps of the player.
LEMMA TypePlayer ==
    ASSUME TypeOK, PlayerOpens \/ PlayerRaises
    PROVE  TypeOK'
<1>1. PICK to \in {"primed", "failed"} :
        /\ pc' = [t \in Taps |-> IF t = opener THEN to ELSE pc[t]]
        /\ opener' = 0
        /\ UNCHANGED <<taps, kind>>
  BY DEF PlayerOpens, PlayerRaises
<1>2. Taps' = Taps /\ 0 \notin Taps
  BY <1>1 DEF TypeOK, TapTypes, Taps
<1>3. \A t \in Taps : pc'[t] = IF t = opener THEN to ELSE pc[t]
  BY <1>1
<1>4. \A t \in Taps : pc[t] = "priming" <=> t = opener
  BY <1>2 DEF TypeOK, OpenerWaits
<1>5. \A t \in Taps : t = opener => to \in Phases(kind[t])
  BY <1>4, KindOf DEF Enabling, Ends
<1>6. TapTypes'
  <2>1. pc' \in [Taps -> Reconnecting \cup Enabling \cup Switching \cup Ends]
    BY <1>1 DEF TypeOK, TapTypes, Enabling, Ends
  <2>2. \A t \in Taps' : pc'[t] \in Phases(kind'[t])
    BY <1>1, <1>2, <1>3, <1>5 DEF TypeOK, TapTypes
  <2> QED
    BY <1>1, <1>2, <2>1, <2>2 DEF TypeOK, TapTypes
<1>7. OpenerWaits'
  BY <1>1, <1>2, <1>3, <1>4 DEF OpenerWaits
<1>8. StateTypes'
  BY <1>1, <1>2 DEF PlayerOpens, PlayerRaises, Fault, TypeOK, StateTypes, capture, session
<1>9. AudioTypes'
  <2>1. /\ playing' \subseteq playing \cup pending /\ pending' \subseteq pending
        /\ audio' = audio /\ silenced' = silenced
    BY DEF PlayerOpens, PlayerRaises
  <2> QED
    BY <2>1 DEF TypeOK, AudioTypes
<1> QED
  BY <1>6, <1>7, <1>8, <1>9 DEF TypeOK

\* The steps of the session.
LEMMA TypeSession ==
    ASSUME TypeOK,
           \/ ReceiveAudio \/ (\E k \in playing : FramePlayed(k))
           \/ (\E isSpeaking \in BOOLEAN : ReceiveStatus(isSpeaking))
           \/ CaptureFrame \/ SocketCloses
    PROVE  TypeOK'
<1>1. UNCHANGED <<taps, kind, pc, opener>>
  BY DEF ReceiveAudio, FramePlayed, ReceiveStatus, CaptureFrame, SocketCloses, StopPlayback,
         playback
<1>2. /\ player' \in {"closed", "opening", "open", "stuck"}
      /\ player = "opening" => player' = "opening"
  BY StopTypes DEF ReceiveAudio, FramePlayed, ReceiveStatus, CaptureFrame, SocketCloses,
                   playback, TypeOK, StateTypes
<1>3. Taps' = Taps
  BY <1>1 DEF Taps
<1>4. StateTypes'
  <2>1. UNCHANGED <<platform, taps, mic, captureSub, listening, held, streams, closing, raced>>
    BY DEF ReceiveAudio, FramePlayed, ReceiveStatus, CaptureFrame, SocketCloses, capture
  <2>2. channel' \in {channel, "none"} /\ faults' \in {faults, faults + 1}
    BY DEF ReceiveAudio, FramePlayed, ReceiveStatus, CaptureFrame, SocketCloses,
           LosesChannel, Fault
  <2>3. {speaking', bargedIn', contested'} \subseteq BOOLEAN
    <3>1. {speaking, bargedIn, contested} \subseteq BOOLEAN
      BY DEF TypeOK, StateTypes
    <3>2. CASE ReceiveAudio \/ (\E k \in playing : FramePlayed(k))
      BY <3>1, <3>2 DEF ReceiveAudio, FramePlayed, session
    <3>3. CASE CaptureFrame \/ (\E isSpeaking \in BOOLEAN : ReceiveStatus(isSpeaking))
      BY <3>1, <3>3 DEF CaptureFrame, ReceiveStatus
    <3>4. CASE SocketCloses
      BY <3>1, <3>4 DEF SocketCloses, LosesChannel, session
    <3> QED
      BY <3>2, <3>3, <3>4
  <2> QED
    BY <1>2, <1>3, <2>1, <2>2, <2>3 DEF TypeOK, StateTypes
<1>5. AudioTypes'
  <2>1. CASE ReceiveAudio
    <3>1. /\ audio \in Nat /\ audio' = audio + 1 /\ silenced' = silenced
          /\ playing' \subseteq playing \cup {audio + 1}
          /\ pending' \subseteq pending \cup {audio + 1}
      BY <2>1 DEF ReceiveAudio, TypeOK, AudioTypes
    <3>2. 1..audio \cup {audio + 1} \subseteq 1..audio'
      BY <3>1
    <3> QED
      BY <3>1, <3>2 DEF TypeOK, AudioTypes
  <2>2. CASE CaptureFrame
    BY <2>2, StopTypes DEF CaptureFrame
  <2>3. CASE ~ReceiveAudio /\ ~CaptureFrame
    BY <2>3 DEF FramePlayed, ReceiveStatus, SocketCloses, playback, TypeOK, AudioTypes
  <2> QED
    BY <2>1, <2>2, <2>3
<1>6. TapTypes' /\ OpenerWaits'
  BY <1>1, <1>2, <1>3 DEF TypeOK, TapTypes, OpenerWaits
<1> QED
  BY <1>4, <1>5, <1>6 DEF TypeOK

LEMMA TypeStep == TypeOK /\ [Next]_vars => TypeOK'
<1> SUFFICES ASSUME TypeOK, [Next]_vars PROVE TypeOK'
  OBVIOUS
<1>1. CASE UNCHANGED vars
  BY <1>1 DEF vars, capture, playback, session, TypeOK, TapTypes, StateTypes, AudioTypes,
              OpenerWaits, Taps
<1>2. ASSUME NEW t \in Taps, FunctionNext(t) PROVE TypeOK'
  BY <1>2, TypeReconnects, TypeStarts, TypeStops DEF FunctionNext
<1> QED
  BY <1>1, <1>2, TypeTaps, TypePlayer, TypeSession DEF Next

\* The state has its types, and a function is only at an await of its kind: a start never
\* releases the microphone, a stop never acquires it, and only the start that opens the
\* player waits for it.
THEOREM TypeCorrect == Spec => []TypeOK
BY TypeInit, TypeStep, PTL DEF Spec

----------------------------------------------------------------------------
(* What was stopped is not played *)

LEMMA SilenceStep ==
    ASSUME TypeOK, StopSilences, [Next]_vars
    PROVE  StopSilences'
<1>1. CASE ReceiveAudio
  <2>1. /\ audio \in Nat /\ silenced \subseteq 1..audio /\ silenced' = silenced
        /\ pending' \cup playing' \subseteq pending \cup playing \cup {audio + 1}
    BY <1>1 DEF ReceiveAudio, TypeOK, AudioTypes
  <2>2. audio + 1 \notin silenced
    BY <2>1
  <2> QED
    BY <2>1, <2>2 DEF StopSilences
<1>2. CASE StopPlayback
  BY <1>2 DEF StopPlayback, StopSilences
<1>3. ASSUME pending' \cup playing' \subseteq pending \cup playing, silenced' = silenced
      PROVE  StopSilences'
  BY <1>3 DEF StopSilences
<1>4. ASSUME NEW t \in Taps, FunctionNext(t)
      PROVE  StopSilences'
  BY <1>2, <1>3, <1>4
  DEF FunctionNext, LeaveChannel, ConnectText, ConnectVoice, AcquireMic, MicDenied,
      MicGrantedNative, MicGrantedWeb, WorkletLoads, WorkletRaises, ReleaseWeb, DetachNative,
      ReleaseNative, VoiceOff, rest, playback
<1>5. CASE \/ TapStart \/ TapStop \/ PlayerOpens \/ PlayerRaises \/ CaptureFrame
           \/ SocketCloses \/ (\E k \in playing : FramePlayed(k))
           \/ (\E isSpeaking \in BOOLEAN : ReceiveStatus(isSpeaking)) \/ UNCHANGED vars
  BY <1>2, <1>3, <1>5
  DEF TapStart, TapStop, PlayerOpens, PlayerRaises, CaptureFrame, SocketCloses, FramePlayed,
      ReceiveStatus, vars, playback
<1> QED
  BY <1>1, <1>4, <1>5 DEF Next

\* What was received before the playback was stopped is never played after
\* (StopSilences), however often the player is opened, stopped and opened again.
THEOREM DroppedForGood == Spec => []StopSilences
<1>1. Init => StopSilences
  BY DEF Init, StopSilences
<1>2. TypeOK /\ StopSilences /\ [Next]_vars => StopSilences'
  BY SilenceStep
<1> QED
  BY <1>1, <1>2, TypeCorrect, PTL DEF Spec

----------------------------------------------------------------------------
(* The microphone *)

\* Starts go on to end, and stops go on or end.
ApartGoesOn ==
    /\ \A t \in Taps' : pc'[t] \in Switching => t \in Taps /\ pc[t] \in Switching
    /\ \A t \in Taps' : kind'[t] = "start" /\ ~Ended(t)' =>
         t \in Taps /\ kind[t] = "start" /\ ~Ended(t)

LEMMA ApartKept ==
    ASSUME Apart, ApartGoesOn
    PROVE  Apart'
BY DEF Apart, ApartGoesOn

\* No function comes to another await with the microphone, and none of it changes.
LEMMA MicKept ==
    ASSUME MicInv, Apart',
           UNCHANGED <<mic, captureSub, listening, held, streams>>,
           \A t \in Taps' : pc'[t] \in Enabling =>
             t \in Taps /\ pc[t] \in Enabling /\ (pc'[t] = "loading" <=> pc[t] = "loading"),
           \A t \in Taps' : pc'[t] \in Switching => t \in Taps /\ pc'[t] = pc[t]
    PROVE  MicInv'
<1>1. Quiet' = Quiet
  BY DEF Quiet
<1>2. OneEnables'
  <2> SUFFICES ASSUME NEW t \in Taps', pc'[t] \in Enabling
               PROVE  /\ mic' = "starting"
                      /\ \A u \in Taps' : pc'[u] \in Enabling => u = t
                      /\ IF pc'[t] = "loading" THEN held' = t /\ streams' = {t} ELSE Quiet'
    BY DEF OneEnables
  <2>1. t \in Taps /\ pc[t] \in Enabling /\ (pc'[t] = "loading" <=> pc[t] = "loading")
    OBVIOUS
  <2> QED
    BY <1>1, <2>1 DEF MicInv, OneEnables
<1>3. MicStates'
  BY <1>1 DEF MicInv, MicStates
<1>4. StopsSoFar'
  BY DEF MicInv, StopsSoFar, Switching
<1> QED
  BY <1>2, <1>3, <1>4 DEF MicInv

LEMMA MicTaps ==
    ASSUME TypeOK, MicInv, ~raced', TapStart \/ TapStop
    PROVE  MicInv'
<1>1. CASE TapStart
  <2>1. /\ taps' \in Taps' /\ Taps' = Taps \cup {taps'}
        /\ kind'[taps'] = "start" /\ pc'[taps'] = "leaving"
        /\ \A t \in Taps : t # taps' /\ kind'[t] = kind[t] /\ pc'[t] = pc[t]
    <3>1. Tap("start", "leaving") /\ "leaving" \in Phases("start")
      BY <1>1 DEF TapStart, Phases, Reconnecting
    <3> QED
      BY <3>1, TapBegins
  <2>2. \A t \in Taps : pc[t] \notin Switching
    BY <1>1 DEF TapStart, Switching
  <2>3. Apart'
    BY <2>1, <2>2 DEF Apart, Switching
  <2> QED
    BY <1>1, <2>1, <2>3, MicKept DEF TapStart, capture, Enabling, Switching
<1>2. CASE TapStop
  <2>1. /\ taps' \in Taps' /\ Taps' = Taps \cup {taps'}
        /\ kind'[taps'] = "stop" /\ pc'[taps'] = "cancelling"
        /\ \A t \in Taps : t # taps' /\ kind'[t] = kind[t] /\ pc'[t] = pc[t]
    <3>1. Tap("stop", "cancelling") /\ "cancelling" \in Phases("stop")
      BY <1>2 DEF TapStop, Phases, Switching
    <3> QED
      BY <3>1, TapBegins
  <2>2. \A t \in Taps : kind[t] = "start" => Ended(t)
    BY <1>2 DEF TapStop
  <2>3. \A t \in Taps' : kind'[t] = "start" => Ended(t)'
    BY <2>1, <2>2 DEF Ended
  <2>4. \A t \in Taps' : pc'[t] \notin Enabling
    BY <2>1, <2>2, KindOf DEF Ended, Enabling
  <2>5. listening' = {}
    BY <1>2 DEF TapStop, MicInv, MicStates
  <2>6. UNCHANGED <<mic, captureSub, held, streams>>
    BY <1>2 DEF TapStop
  <2>7. Apart' /\ OneEnables'
    BY <2>3, <2>4 DEF Apart, OneEnables
  <2>8. MicStates'
    BY <2>5, <2>6 DEF MicInv, MicStates, Quiet
  <2>9. StopsSoFar'
    BY <2>1, <2>5, <2>6 DEF MicInv, StopsSoFar
  <2> QED
    BY <2>7, <2>8, <2>9 DEF MicInv
<1> QED
  BY <1>1, <1>2

\* While the function of a start goes on, no stop switches the microphone.
LEMMA StartIsAlone ==
    ASSUME TypeOK, Apart, NEW t \in Taps, kind[t] = "start", ~Ended(t)
    PROVE  \A u \in Taps : pc[u] \notin Switching
BY DEF Apart

LEMMA MicReconnects ==
    ASSUME TypeOK, MicInv, NEW t \in Taps, LeaveChannel(t) \/ ConnectText(t) \/ ConnectVoice(t)
    PROVE  MicInv'
<1>1. PICK to \in {"closing", "done", "priming", "primed"} :
        /\ pc' = [pc EXCEPT ![t] = to]
        /\ to \in {"priming", "primed"} => kind[t] = "start"
  BY DEF LeaveChannel, At, ConnectText, ConnectVoice, Connect
<1>2. UNCHANGED <<taps, kind, captureSub, listening, held, streams>> /\ pc[t] \in Reconnecting
  BY DEF LeaveChannel, At, ConnectText, ConnectVoice, Connect, IsNextToLeave, Reconnecting,
         capture
<1>3. to \in Phases(kind[t])
  BY <1>1, KindOf DEF Reconnecting, Ends, Enabling
<1>4. Taps' = Taps /\ pc'[t] = to /\ \A u \in Taps : u # t => pc'[u] = pc[u]
  BY <1>1, <1>2, <1>3, FunctionMoves
<1>5. Apart'
  <2>1. ApartGoesOn
    BY <1>1, <1>2, <1>4 DEF ApartGoesOn, Ended, Switching, Reconnecting
  <2> QED
    BY <2>1, ApartKept DEF MicInv
<1>6. CASE to \in {"closing", "done"}
  <2>1. mic' = mic
    BY <1>4, <1>6 DEF LeaveChannel, At, ConnectText, ConnectVoice, Connect, TypeOK, TapTypes
  <2> QED
    BY <1>2, <1>4, <1>5, <1>6, <2>1, MicKept DEF Enabling, Switching
<1>7. CASE to \in {"priming", "primed"}
  <2>1. mic \in {"off", "denied"} /\ mic' = "starting" /\ kind[t] = "start" /\ ~Ended(t)
    <3>1. ConnectVoice(t)
      BY <1>4, <1>7, <1>1 DEF LeaveChannel, At, ConnectText, Connect, TypeOK, TapTypes
    <3>2. mic \notin {"starting", "capturing"} /\ mic' = "starting"
      BY <1>4, <1>7, <3>1 DEF ConnectVoice, Connect, TypeOK, TapTypes
    <3> QED
      BY <1>1, <1>2, <1>7, <3>2 DEF TypeOK, StateTypes, Ended, Reconnecting
  <2>2. Quiet /\ Quiet'
    BY <1>2, <2>1 DEF MicInv, MicStates, Quiet
  <2>3. \A u \in Taps : pc[u] \notin Enabling
    BY <2>1 DEF MicInv, OneEnables
  <2>4. OneEnables'
    BY <1>4, <1>7, <2>1, <2>2, <2>3 DEF OneEnables
  <2>5. MicStates'
    BY <2>1, <2>2 DEF MicStates, Quiet
  <2>6. StopsSoFar'
    BY <2>2 DEF StopsSoFar, Quiet
  <2> QED
    BY <1>5, <2>4, <2>5, <2>6 DEF MicInv
<1> QED
  BY <1>1, <1>6, <1>7

LEMMA MicStarts ==
    ASSUME TypeOK, MicInv, NEW t \in Taps,
           \/ AcquireMic(t) \/ MicDenied(t) \/ MicGrantedNative(t) \/ MicGrantedWeb(t)
           \/ WorkletLoads(t) \/ WorkletRaises(t)
    PROVE  MicInv'
<1>1. PICK to \in {"acquiring", "loading", "done", "failed"} :
        /\ pc[t] \in {"primed", "acquiring", "loading"}
        /\ pc' = [pc EXCEPT ![t] = to]
        /\ UNCHANGED <<taps, kind>>
  BY DEF AcquireMic, MicDenied, MicGrantedNative, MicGrantedWeb, WorkletLoads, WorkletRaises,
         At, rest
<1>2. pc[t] \in Enabling /\ kind[t] = "start" /\ to \in Phases(kind[t]) /\ ~Ended(t)
  BY <1>1, KindOf DEF Enabling, Ends, Ended
<1>3. Taps' = Taps /\ pc'[t] = to /\ \A u \in Taps : u # t => pc'[u] = pc[u]
  BY <1>1, <1>2, FunctionMoves
<1>4. /\ mic = "starting" /\ listening = {} /\ captureSub = 0
      /\ \A u \in Taps : u # t => pc[u] \notin Enabling
      /\ \A u \in Taps : pc[u] \notin Switching
      /\ IF pc[t] = "loading" THEN held = t /\ streams = {t} ELSE Quiet
  BY <1>2, StartIsAlone DEF MicInv, OneEnables, MicStates
<1>5. \A u \in Taps' : /\ pc'[u] \notin Switching
                       /\ pc'[u] \in Enabling => u = t /\ to \in {"acquiring", "loading"}
  BY <1>3, <1>4 DEF Switching, Enabling
<1>6. Apart' /\ StopsSoFar'
  BY <1>5 DEF Apart, StopsSoFar, Switching
<1>7. /\ to \in {"acquiring", "loading"} =>
           /\ mic' = "starting"
           /\ IF to = "loading" THEN held' = t /\ streams' = {t} ELSE Quiet'
      /\ MicStates'
  <2>1. CASE AcquireMic(t)
    <3>1. pc[t] = "primed" /\ held = 0
      BY <1>4, <2>1 DEF AcquireMic, At, Quiet
    <3>2. pc'[t] = "acquiring" /\ UNCHANGED <<mic, held, streams, listening, captureSub>>
      BY <2>1, <3>1 DEF AcquireMic, At, capture, TypeOK, TapTypes
    <3> QED
      BY <1>3, <1>4, <3>1, <3>2 DEF MicStates, Quiet
  <2>2. CASE MicDenied(t)
    BY <1>3, <1>4, <2>2 DEF MicDenied, At, capture, MicStates, Quiet, TypeOK, TapTypes
  <2>3. CASE MicGrantedNative(t)
    BY <1>3, <1>4, <2>3 DEF MicGrantedNative, At, Started, MicStates, Quiet, TypeOK, TapTypes
  <2>4. CASE MicGrantedWeb(t)
    <3>1. pc[t] = "acquiring" /\ pc'[t] = "loading" /\ held' = t /\ streams' = streams \cup {t}
          /\ UNCHANGED <<mic, listening, captureSub>>
      BY <2>4 DEF MicGrantedWeb, At, TypeOK, TapTypes
    <3>2. streams' = {t}
      BY <1>4, <3>1 DEF Quiet
    <3> QED
      BY <1>3, <1>4, <3>1, <3>2 DEF MicStates
  <2>5. CASE WorkletLoads(t)
    BY <1>3, <1>4, <2>5 DEF WorkletLoads, At, Started, MicStates, Quiet, TypeOK, TapTypes
  <2>6. CASE WorkletRaises(t)
    BY <1>3, <1>4, <2>6 DEF WorkletRaises, At, capture, MicStates, Quiet, TypeOK, TapTypes
  <2> QED
    BY <2>1, <2>2, <2>3, <2>4, <2>5, <2>6
<1>8. OneEnables'
  <2> SUFFICES ASSUME NEW u \in Taps', pc'[u] \in Enabling
               PROVE  /\ mic' = "starting"
                      /\ \A w \in Taps' : pc'[w] \in Enabling => w = u
                      /\ IF pc'[u] = "loading" THEN held' = u /\ streams' = {u} ELSE Quiet'
    BY DEF OneEnables
  <2>1. u = t /\ to \in {"acquiring", "loading"} /\ pc'[u] = to
    BY <1>3, <1>5
  <2> QED
    BY <1>5, <1>7, <2>1
<1> QED
  BY <1>6, <1>7, <1>8 DEF MicInv

LEMMA MicStops ==
    ASSUME TypeOK, MicInv, NEW t \in Taps,
           ReleaseWeb(t) \/ DetachNative(t) \/ ReleaseNative(t) \/ VoiceOff(t)
    PROVE  MicInv'
<1>1. PICK to \in {"failed", "detaching", "releasing", "leaving"} :
        /\ pc[t] \in Switching
        /\ pc' = [pc EXCEPT ![t] = to]
        /\ UNCHANGED <<taps, kind, listening>>
  BY DEF ReleaseWeb, DetachNative, ReleaseNative, VoiceOff, At, rest, Switching
<1>2. kind[t] = "stop" /\ to \in Phases(kind[t])
  BY <1>1, KindOf DEF Switching, Reconnecting, Ends
<1>3. Taps' = Taps /\ pc'[t] = to /\ \A u \in Taps : u # t => pc'[u] = pc[u]
  BY <1>1, <1>2, FunctionMoves
<1>4. listening = {}
  BY <1>1 DEF MicInv, StopsSoFar
<1>5. \A u \in Taps : kind[u] = "start" => Ended(u)
  BY <1>1 DEF MicInv, Apart
<1>6. \A u \in Taps : pc[u] \notin Enabling /\ pc'[u] \notin Enabling
  <2>1. \A u \in Taps : pc[u] \notin Enabling
    BY <1>5, KindOf DEF Ended, Enabling
  <2> QED
    BY <1>3, <2>1 DEF Enabling
<1>7. OneEnables'
  BY <1>3, <1>6 DEF OneEnables
<1>8. Apart'
  BY <1>1, <1>2, <1>3, <1>5 DEF Apart, Ended
<1>9. MicStates' /\ StopsSoFar'
  <2>1. CASE ReleaseWeb(t)
    <3>1. captureSub' = 0 /\ streams' = streams \ {held} /\ UNCHANGED <<mic, held>>
          /\ to \in {"failed", "releasing"}
      BY <1>3, <2>1 DEF ReleaseWeb, At, TypeOK, TapTypes
    <3>2. streams' = {}
      BY <3>1 DEF MicInv, MicStates
    <3>3. MicStates'
      BY <1>1, <1>4, <3>1, <3>2 DEF MicInv, MicStates, Quiet
    <3> QED
      BY <1>1, <1>3, <1>4, <3>1, <3>2, <3>3 DEF StopsSoFar
  <2>2. CASE DetachNative(t)
    <3>1. captureSub' = 0 /\ UNCHANGED <<mic, held, streams>> /\ to = "detaching"
      BY <1>3, <2>2 DEF DetachNative, At, TypeOK, TapTypes
    <3>2. MicStates'
      BY <1>1, <1>4, <3>1 DEF MicInv, MicStates, Quiet
    <3> QED
      BY <1>1, <1>3, <1>4, <3>1, <3>2 DEF MicInv, StopsSoFar
  <2>3. CASE ReleaseNative(t)
    <3>1. held' = 0 /\ streams' = {} /\ UNCHANGED <<mic, captureSub>> /\ to = "releasing"
          /\ pc[t] = "detaching"
      BY <1>3, <2>3 DEF ReleaseNative, At, TypeOK, TapTypes
    <3>2. captureSub = 0
      BY <3>1 DEF MicInv, StopsSoFar
    <3>3. MicStates'
      BY <1>1, <1>4, <3>1, <3>2 DEF MicStates, Quiet
    <3> QED
      BY <1>1, <1>3, <1>4, <3>1, <3>2, <3>3 DEF StopsSoFar
  <2>4. CASE VoiceOff(t)
    <3>1. held' = 0 /\ UNCHANGED <<streams, captureSub>> /\ to = "leaving"
          /\ pc[t] = "releasing"
      BY <1>3, <2>4 DEF VoiceOff, At, TypeOK, TapTypes
    <3>2. captureSub = 0 /\ streams = {}
      BY <3>1 DEF MicInv, StopsSoFar
    <3>3. MicStates'
      BY <1>1, <1>4, <3>1, <3>2 DEF MicStates, Quiet
    <3> QED
      BY <1>1, <1>3, <1>4, <3>1, <3>2, <3>3 DEF StopsSoFar
  <2> QED
    BY <2>1, <2>2, <2>3, <2>4
<1> QED
  BY <1>7, <1>8, <1>9 DEF MicInv

\* The steps in which no function does anything with the microphone.
LEMMA OthersMove ==
    ASSUME TypeOK,
           \/ PlayerOpens \/ PlayerRaises \/ ReceiveAudio \/ (\E k \in playing : FramePlayed(k))
           \/ (\E isSpeaking \in BOOLEAN : ReceiveStatus(isSpeaking))
           \/ CaptureFrame \/ SocketCloses \/ UNCHANGED vars
    PROVE  /\ UNCHANGED <<taps, kind, mic, capture, raced>> /\ Taps' = Taps
           /\ \A t \in Taps : \/ pc'[t] = pc[t]
                              \/ pc[t] = "priming" /\ pc'[t] \in {"primed", "failed"}
           /\ \/ channel' = channel /\ contested' = contested
              \/ LosesChannel
<1>1. UNCHANGED <<taps, kind, mic, capture, raced>> /\ Taps' = Taps
  BY DEF PlayerOpens, PlayerRaises, ReceiveAudio, FramePlayed, ReceiveStatus, CaptureFrame,
         SocketCloses, vars, capture, Taps
<1>2. ASSUME PlayerOpens \/ PlayerRaises, NEW t \in Taps
      PROVE  \/ pc'[t] = pc[t]
             \/ pc[t] = "priming" /\ pc'[t] \in {"primed", "failed"}
  <2>1. t = opener => pc[t] = "priming"
    BY DEF TypeOK, OpenerWaits, TapTypes, Taps
  <2> QED
    BY <1>2, <2>1 DEF PlayerOpens, PlayerRaises
<1>3. \/ channel' = channel /\ contested' = contested
      \/ LosesChannel
  BY DEF PlayerOpens, PlayerRaises, ReceiveAudio, FramePlayed, ReceiveStatus, CaptureFrame,
         SocketCloses, vars
<1> QED
  BY <1>1, <1>2, <1>3 DEF ReceiveAudio, FramePlayed, ReceiveStatus, CaptureFrame, SocketCloses,
                          vars

LEMMA MicOthers ==
    ASSUME TypeOK, MicInv,
           \/ PlayerOpens \/ PlayerRaises \/ ReceiveAudio \/ (\E k \in playing : FramePlayed(k))
           \/ (\E isSpeaking \in BOOLEAN : ReceiveStatus(isSpeaking))
           \/ CaptureFrame \/ SocketCloses \/ UNCHANGED vars
    PROVE  MicInv'
<1>1. /\ UNCHANGED <<taps, kind, mic, capture>> /\ Taps' = Taps
      /\ \A t \in Taps : \/ pc'[t] = pc[t]
                         \/ pc[t] = "priming" /\ pc'[t] \in {"primed", "failed"}
  BY OthersMove
<1>2. Apart'
  <2>1. ApartGoesOn
    BY <1>1 DEF ApartGoesOn, Ended, Switching
  <2> QED
    BY <2>1, ApartKept DEF MicInv
<1> QED
  BY <1>1, <1>2, MicKept DEF Enabling, Switching, capture

LEMMA MicStep == TypeOK /\ RacedInv /\ [Next]_vars => RacedInv'
<1> SUFFICES ASSUME TypeOK, RacedInv, [Next]_vars, ~raced'
             PROVE  MicInv'
  BY DEF RacedInv
<1>1. ~raced
  <2>1. raced \in BOOLEAN
    BY DEF TypeOK, StateTypes
  <2>2. ASSUME NEW t \in Taps, FunctionNext(t) PROVE raced' = raced
    BY <2>2 DEF FunctionNext, LeaveChannel, ConnectText, ConnectVoice, AcquireMic, MicDenied,
                MicGrantedNative, MicGrantedWeb, WorkletLoads, WorkletRaises, ReleaseWeb,
                DetachNative, ReleaseNative, VoiceOff, rest
  <2> QED
    BY <2>1, <2>2
    DEF Next, TapStart, TapStop, PlayerOpens, PlayerRaises, ReceiveAudio, FramePlayed,
        ReceiveStatus, CaptureFrame, SocketCloses, vars
<1>2. MicInv
  BY <1>1 DEF RacedInv
<1>3. ASSUME NEW t \in Taps, FunctionNext(t) PROVE MicInv'
  BY <1>2, <1>3, MicReconnects, MicStarts, MicStops DEF FunctionNext
<1> QED
  BY <1>2, <1>3, MicTaps, MicOthers DEF Next

\* Unless a tap has met a function that was still switching the microphone, it is live
\* only while the screen says so, and at most one stream and one listener exist
\* (MicIsTold).
THEOREM ScreenTellsMic == Spec => []MicIsTold
<1>1. Init => RacedInv
  <2> SUFFICES ASSUME Init PROVE MicInv
    BY DEF RacedInv
  <2>1. Taps = {}
    BY DEF Init, Taps
  <2> QED
    BY <2>1 DEF Init, MicInv, Apart, OneEnables, MicStates, StopsSoFar, Quiet
<1>2. TypeOK /\ RacedInv => MicIsTold
  <2> SUFFICES ASSUME TypeOK, MicInv, ~raced
               PROVE  /\ streams # {} => mic \in {"starting", "capturing"}
                      /\ listening # {} => mic = "capturing"
                      /\ Cardinality(streams) <= 1 /\ Cardinality(listening) <= 1
                      /\ mic = "off" => held = 0 /\ captureSub = 0
    BY DEF RacedInv, MicIsTold
  <2>1. \A S, x : S \subseteq {x} => Cardinality(S) <= 1
    <3> SUFFICES ASSUME NEW S, NEW x, S \subseteq {x} PROVE Cardinality(S) <= 1
      OBVIOUS
    <3>1. S = {} \/ S = {x}
      OBVIOUS
    <3>2. Cardinality({}) = 0 /\ Cardinality({x}) = 1
      BY FS_EmptySet, FS_Singleton
    <3> QED
      BY <3>1, <3>2
  <2>2. Cardinality(streams) <= 1 /\ Cardinality(listening) <= 1
    BY <2>1 DEF MicInv, MicStates
  <2>3. mic \in {"off", "denied", "starting", "capturing"}
    BY DEF TypeOK, StateTypes
  <2> QED
    BY <2>2, <2>3 DEF MicInv, MicStates, Quiet
<1> QED
  BY <1>1, <1>2, MicStep, TypeCorrect, PTL DEF Spec

----------------------------------------------------------------------------
(* The last tap *)

LEMMA ClosingStep ==
    ASSUME TypeOK, ClosingIsReleased, [Next]_vars
    PROVE  ClosingIsReleased'
<1>1. ASSUME closing' = closing, Taps \subseteq Taps',
             \A t \in Taps : pc[t] = "releasing" => pc'[t] = "releasing"
      PROVE  ClosingIsReleased'
  BY <1>1 DEF ClosingIsReleased
<1>2. CASE TapStart \/ TapStop
  <2>1. \E action \in {"start", "stop"}, first \in {"leaving", "cancelling"} :
          Tap(action, first) /\ first \in Phases(action)
    BY <1>2 DEF TapStart, TapStop, Phases, Reconnecting, Switching
  <2>2. Taps \subseteq Taps' /\ \A t \in Taps : pc'[t] = pc[t]
    BY <2>1, TapBegins
  <2> QED
    BY <1>1, <1>2, <2>2 DEF TapStart, TapStop, capture
<1>3. ASSUME NEW t \in Taps, FunctionNext(t), pc[t] # "releasing", ~ReleaseWeb(t)
      PROVE  ClosingIsReleased'
  <2>1. closing' = closing /\ Taps' = Taps /\ \E to : pc' = [pc EXCEPT ![t] = to]
    BY <1>3
    DEF FunctionNext, LeaveChannel, ConnectText, ConnectVoice, Connect, AcquireMic, MicDenied,
        MicGrantedNative, MicGrantedWeb, WorkletLoads, WorkletRaises, DetachNative,
        ReleaseNative, VoiceOff, At, rest, capture, Taps
  <2>2. \A u \in Taps : pc[u] = "releasing" => pc'[u] = "releasing"
    BY <1>3, <2>1 DEF TypeOK, TapTypes
  <2> QED
    BY <1>1, <2>1, <2>2
<1>4. ASSUME NEW t \in Taps, ReleaseWeb(t)
      PROVE  ClosingIsReleased'
  <2>1. Taps' = Taps /\ \A u \in Taps : u # t => pc'[u] = pc[u]
    BY <1>4 DEF ReleaseWeb, At, rest, Taps, TypeOK, TapTypes
  <2>2. pc[t] = "cancelling"
    BY <1>4 DEF ReleaseWeb, At
  <2>3. CASE held # 0 /\ held = closing
    <3>1. closing' = closing
      BY <1>4, <2>3 DEF ReleaseWeb
    <3> QED
      BY <1>1, <2>1, <2>2, <3>1
  <2>4. CASE ~(held # 0 /\ held = closing)
    <3>1. pc'[t] = "releasing"
      BY <1>4, <2>4 DEF ReleaseWeb, At, TypeOK, TapTypes
    <3> QED
      BY <2>1, <3>1 DEF ClosingIsReleased
  <2> QED
    BY <2>3, <2>4
<1>5. ASSUME NEW t \in Taps, FunctionNext(t), pc[t] = "releasing"
      PROVE  closing' = 0
  BY <1>5
  DEF FunctionNext, LeaveChannel, ConnectText, ConnectVoice, Connect, IsNextToLeave,
      AcquireMic, MicDenied, MicGrantedNative, MicGrantedWeb, WorkletLoads, WorkletRaises,
      ReleaseWeb, DetachNative, ReleaseNative, VoiceOff, At
<1>6. CASE \/ PlayerOpens \/ PlayerRaises \/ ReceiveAudio
           \/ (\E k \in playing : FramePlayed(k))
           \/ (\E isSpeaking \in BOOLEAN : ReceiveStatus(isSpeaking))
           \/ CaptureFrame \/ SocketCloses \/ UNCHANGED vars
  <2>1. /\ closing' = closing /\ Taps' = Taps
        /\ \A t \in Taps : pc[t] = "releasing" => pc'[t] = "releasing"
    BY <1>6, OthersMove DEF capture
  <2> QED
    BY <1>1, <2>1
<1> QED
  BY <1>2, <1>3, <1>4, <1>5, <1>6 DEF Next, ClosingIsReleased

\* A tap makes itself the last.
LEMMA LastTaps ==
    ASSUME TypeOK, ~raced', TapStart \/ TapStop
    PROVE  StopDecides' /\ StartDecides' /\ StartConnects'
<1>1. CASE TapStart
  <2>1. /\ Taps' = Taps \cup {taps'}
        /\ kind'[taps'] = "start" /\ pc'[taps'] = "leaving"
        /\ \A t \in Taps : pc'[t] = pc[t]
    <3>1. Tap("start", "leaving") /\ "leaving" \in Phases("start")
      BY <1>1 DEF TapStart, Phases, Reconnecting
    <3> QED
      BY <3>1, TapBegins
  <2>2. \A t \in Taps : pc[t] \notin Switching
    BY <1>1 DEF TapStart, Switching
  <2>3. mic' # "capturing"
    BY <1>1 DEF TapStart
  <2> QED
    BY <2>1, <2>2, <2>3
    DEF StopDecides, StartDecides, StartConnects, Switching, Reconnecting
<1>2. CASE TapStop
  <2>1. /\ taps' \in Taps' /\ Taps' = Taps \cup {taps'}
        /\ kind'[taps'] = "stop" /\ pc'[taps'] = "cancelling"
        /\ \A t \in Taps : t # taps' /\ kind'[t] = kind[t] /\ pc'[t] = pc[t]
    <3>1. Tap("stop", "cancelling") /\ "cancelling" \in Phases("stop")
      BY <1>2 DEF TapStop, Phases, Switching
    <3> QED
      BY <3>1, TapBegins
  <2>2. \A t \in Taps : kind[t] = "start" => Ended(t)
    BY <1>2 DEF TapStop
  <2>3. \A t \in Taps' : kind'[t] = "start" => Ended(t)'
    BY <2>1, <2>2 DEF Ended
  <2> QED
    BY <2>1, <2>3 DEF StopDecides, StartDecides, StartConnects, Switching
<1> QED
  BY <1>1, <1>2

\* A reconnect: after a stop only stops are left, after a start it is the last in the
\* order of those that leave.
LEMMA LastReconnects ==
    ASSUME TypeOK, NEW t \in Taps, LeaveChannel(t) \/ ConnectText(t) \/ ConnectVoice(t),
           StopDecides, StartDecides
    PROVE  /\ StopDecides' /\ StartDecides'
           /\ (~contested => StartConnects) => (~contested' => StartConnects')
<1>1. PICK to \in {"closing", "done", "priming", "primed"} :
        /\ pc' = [pc EXCEPT ![t] = to]
        /\ to \in {"priming", "primed"} => kind[t] = "start"
  BY DEF LeaveChannel, At, ConnectText, ConnectVoice, Connect
<1>2. UNCHANGED <<taps, kind, captureSub, listening, held, streams>> /\ pc[t] \in Reconnecting
  BY DEF LeaveChannel, At, ConnectText, ConnectVoice, Connect, IsNextToLeave, Reconnecting,
         capture
<1>3. to \in Phases(kind[t])
  BY <1>1, KindOf DEF Reconnecting, Ends, Enabling
<1>4. Taps' = Taps /\ pc'[t] = to /\ \A u \in Taps : u # t => pc'[u] = pc[u]
  BY <1>1, <1>2, <1>3, FunctionMoves
<1>5. taps \in Taps /\ \A u \in Taps : u <= taps
  BY DEF TypeOK, TapTypes, Taps
<1>6. ~Ended(t) /\ kind[t] \in {"start", "stop"}
  BY <1>2, KindOf DEF Ended, Reconnecting
<1>7. \A u \in Taps : pc'[u] \in Switching <=> pc[u] \in Switching
  BY <1>2, <1>4 DEF Switching, Reconnecting
<1>8. CASE kind[taps] = "stop"
  <2>1. kind[t] = "stop" /\ (LeaveChannel(t) \/ ConnectText(t)) /\ mic' = mic
    BY <1>6, <1>8 DEF StopDecides, ConnectVoice, LeaveChannel, ConnectText
  <2>2. \A u \in Taps : kind[u] = "start" => Ended(u)'
    BY <1>4, <1>8, <2>1 DEF StopDecides, Ended
  <2>3. channel' # "voice" \/ \E u \in Taps : pc'[u] \in Switching \cup {"leaving"}
    <3>1. CASE LeaveChannel(t)
      BY <3>1 DEF LeaveChannel, LosesChannel
    <3>2. CASE ConnectText(t) /\ channel = "none"
      BY <3>2 DEF ConnectText, Connect
    <3>3. CASE ConnectText(t) /\ channel # "none"
      <4>1. channel' = channel /\ pc[t] = "closing"
        BY <3>3 DEF ConnectText, Connect
      <4> QED
        BY <1>4, <1>7, <1>8, <4>1 DEF StopDecides, Switching
    <3> QED
      BY <2>1, <3>1, <3>2, <3>3
  <2>4. StopDecides'
    BY <1>2, <1>4, <1>7, <1>8, <2>1, <2>2, <2>3 DEF StopDecides
  <2> QED
    BY <1>2, <1>8, <2>4 DEF StartDecides, StartConnects
<1>9. CASE kind[taps] = "start"
  <2>1. StopDecides'
    BY <1>2, <1>9 DEF StopDecides
  <2>2. StartDecides'
    <3>1. /\ mic' # mic => mic' = "starting"
          /\ ConnectVoice(t) => mic' # "off"
      BY DEF LeaveChannel, ConnectText, ConnectVoice
    <3>2. mic' # "off" \/ pc'[taps] \in Reconnecting
      <4>1. CASE t # taps
        BY <1>4, <1>5, <1>9, <3>1, <4>1 DEF StartDecides
      <4>2. CASE t = taps
        <5>1. LeaveChannel(t) \/ ConnectVoice(t)
          BY <1>9, <4>2 DEF ConnectText
        <5>2. LeaveChannel(t) => pc'[taps] = "closing"
          BY <4>2 DEF LeaveChannel, At, TypeOK, TapTypes
        <5> QED
          BY <3>1, <5>1, <5>2 DEF Reconnecting
      <4> QED
        BY <4>1, <4>2
    <3> QED
      BY <1>2, <1>4, <1>7, <1>9, <3>1, <3>2 DEF StartDecides
  <2>3. ASSUME ~contested', StartConnects, pc[taps] # "leaving"
        PROVE  StartConnects'
    <3>1. /\ pc[t] = "closing" /\ channel # "text"
          /\ channel = "none" => \A u \in Taps : pc[u] = "closing" => u = taps
          /\ \A u \in Taps : pc[u] # "leaving"
      BY <1>2, <1>9, <2>3 DEF StartConnects, Reconnecting
    <3>2. ~LeaveChannel(t) /\ to \in {"done", "priming", "primed"}
      BY <1>4, <3>1 DEF LeaveChannel, At, ConnectText, ConnectVoice, Connect, TypeOK, TapTypes
    <3>3. channel' \in {"text", "voice"} \/ channel' = channel
      BY <3>2 DEF ConnectText, ConnectVoice, Connect
    <3>4. channel' # "text" /\ channel' # "none"
      <4>1. CASE ConnectText(t)
        <5>1. t # taps
          BY <1>9, <4>1 DEF ConnectText
        <5> QED
          BY <3>1, <4>1, <5>1 DEF ConnectText, Connect
      <4>2. CASE ConnectVoice(t)
        BY <3>1, <4>2 DEF ConnectVoice, Connect
      <4> QED
        BY <3>2, <4>1, <4>2
    <3> QED
      BY <1>2, <1>4, <3>1, <3>2, <3>4 DEF StartConnects
  <2>4. ASSUME ~contested', pc[taps] = "leaving", pc'[taps] # "leaving"
        PROVE  StartConnects'
    <3>1. t = taps
      BY <1>4, <1>5, <2>4
    <3>2. IsNextToLeave(taps) /\ (LeaveChannel(t) \/ (ConnectVoice(t) /\ channel = "none"))
      BY <1>9, <2>4, <3>1 DEF LeaveChannel, ConnectText, ConnectVoice, Connect
    <3>3. \A u \in Taps : pc[u] = "leaving" => u = taps
      <4> SUFFICES ASSUME NEW u \in Taps, pc[u] = "leaving" PROVE u = taps
        OBVIOUS
      <4>1. taps <= u /\ u <= taps
        BY <1>5, <3>2 DEF IsNextToLeave
      <4> QED
        BY <4>1 DEF TypeOK, TapTypes, Taps
    <3>4. \A u \in Taps : pc'[u] # "leaving"
      BY <1>1, <1>4, <3>1, <3>3
    <3>5. CASE LeaveChannel(t)
      <4>1. channel' = "none" /\ \A u \in Taps : pc[u] # "closing"
        BY <2>4, <3>5 DEF LeaveChannel, LosesChannel
      <4>2. \A u \in Taps : pc'[u] = "closing" => u = taps
        BY <1>4, <3>1, <4>1
      <4> QED
        BY <1>2, <1>4, <3>4, <4>1, <4>2 DEF StartConnects
    <3>6. CASE ConnectVoice(t) /\ channel = "none"
      <4>1. channel' = "voice"
        BY <3>6 DEF ConnectVoice, Connect
      <4> QED
        BY <1>2, <1>4, <3>4, <4>1 DEF StartConnects
    <3> QED
      BY <3>2, <3>5, <3>6
  <2>5. ~contested' => ~contested
    BY DEF LeaveChannel, LosesChannel, ConnectText, ConnectVoice
  <2>6. pc'[taps] = "leaving" => StartConnects'
    BY <1>2 DEF StartConnects
  <2> QED
    BY <2>1, <2>2, <2>3, <2>4, <2>5, <2>6
<1> QED
  BY <1>5, <1>8, <1>9, KindOf

\* A start that goes on with the microphone is after the last stop.
LEMMA LastStarts ==
    ASSUME TypeOK, MicInv, NEW t \in Taps,
           \/ AcquireMic(t) \/ MicDenied(t) \/ MicGrantedNative(t) \/ MicGrantedWeb(t)
           \/ WorkletLoads(t) \/ WorkletRaises(t),
           StopDecides, StartDecides
    PROVE  StopDecides' /\ StartDecides' /\ (StartConnects => StartConnects')
<1>1. PICK to \in {"acquiring", "loading", "done", "failed"} :
        /\ pc[t] \in {"primed", "acquiring", "loading"}
        /\ pc' = [pc EXCEPT ![t] = to]
        /\ UNCHANGED <<taps, kind, channel>>
  BY DEF AcquireMic, MicDenied, MicGrantedNative, MicGrantedWeb, WorkletLoads, WorkletRaises,
         At, rest
<1>2. pc[t] \in Enabling /\ kind[t] = "start" /\ to \in Phases(kind[t]) /\ ~Ended(t)
  BY <1>1, KindOf DEF Enabling, Ends, Ended
<1>3. Taps' = Taps /\ pc'[t] = to /\ \A u \in Taps : u # t => pc'[u] = pc[u]
  BY <1>1, <1>2, FunctionMoves
<1>4. taps \in Taps
  BY DEF TypeOK, TapTypes, Taps
<1>5. kind[taps] = "start"
  BY <1>2, <1>4, KindOf DEF StopDecides
<1>6. /\ mic = "starting" /\ listening = {}
      /\ IF pc[t] = "loading" THEN held = t /\ streams = {t} ELSE Quiet
  BY <1>2 DEF MicInv, OneEnables, MicStates
<1>7. mic' # "off"
  BY <1>6
  DEF AcquireMic, MicDenied, MicGrantedNative, MicGrantedWeb, WorkletLoads, WorkletRaises,
      Started, capture
<1>8. mic' = "capturing" => listening' = {captureSub'} /\ streams' = {held'}
  <2>1. CASE AcquireMic(t)
    BY <1>6, <2>1 DEF AcquireMic, At, Quiet
  <2>2. CASE MicGrantedNative(t)
    BY <1>6, <2>2 DEF MicGrantedNative, Started
  <2>3. CASE WorkletLoads(t)
    BY <1>6, <2>3 DEF WorkletLoads, At, Started
  <2>4. CASE MicDenied(t) \/ MicGrantedWeb(t) \/ WorkletRaises(t)
    BY <1>6, <2>4 DEF MicDenied, MicGrantedWeb, WorkletRaises
  <2> QED
    BY <2>1, <2>2, <2>3, <2>4
<1>9. \A u \in Taps : pc'[u] \notin Switching
  BY <1>3, <1>5 DEF StartDecides, Switching
<1>10. StopDecides' /\ StartDecides'
  BY <1>1, <1>3, <1>5, <1>7, <1>8, <1>9 DEF StopDecides, StartDecides
<1>11. \A u \in Taps : /\ pc'[u] = "leaving" <=> pc[u] = "leaving"
                       /\ pc'[u] = "closing" <=> pc[u] = "closing"
  BY <1>1, <1>3
<1> QED
  BY <1>1, <1>3, <1>4, <1>10, <1>11 DEF StartConnects

\* A stop that switches is the last tap, or one before it that it waits for.
LEMMA LastStops ==
    ASSUME TypeOK, ClosingIsReleased, NEW t \in Taps,
           ReleaseWeb(t) \/ DetachNative(t) \/ ReleaseNative(t) \/ VoiceOff(t),
           StopDecides, StartDecides
    PROVE  StopDecides' /\ StartDecides' /\ StartConnects'
<1>1. PICK to \in {"failed", "detaching", "releasing", "leaving"} :
        /\ pc[t] \in Switching
        /\ pc' = [pc EXCEPT ![t] = to]
        /\ UNCHANGED <<taps, kind, channel>>
  BY DEF ReleaseWeb, DetachNative, ReleaseNative, VoiceOff, At, rest, Switching
<1>2. kind[t] = "stop" /\ to \in Phases(kind[t])
  BY <1>1, KindOf DEF Switching, Reconnecting, Ends
<1>3. Taps' = Taps /\ pc'[t] = to /\ \A u \in Taps : u # t => pc'[u] = pc[u]
  BY <1>1, <1>2, FunctionMoves
<1>4. taps \in Taps
  BY DEF TypeOK, TapTypes, Taps
<1>5. kind[taps] = "stop"
  BY <1>1, <1>4, KindOf DEF StartDecides
<1>6. \A u \in Taps : kind[u] = "start" => Ended(u)'
  BY <1>2, <1>3, <1>5 DEF StopDecides, Ended
<1>7. CASE VoiceOff(t)
  <2>1. mic' = "off" /\ pc'[t] = "leaving"
    BY <1>7 DEF VoiceOff, At, TypeOK, TapTypes
  <2> QED
    BY <1>1, <1>3, <1>5, <1>6, <2>1 DEF StopDecides, StartDecides, StartConnects
<1>8. CASE ~VoiceOff(t)
  <2>1. \E u \in Taps : pc'[u] \in Switching
    <3>1. CASE to = "failed"
      <4>1. pc[t] = "cancelling" /\ closing # 0
        BY <1>3, <1>8, <3>1
        DEF ReleaseWeb, DetachNative, ReleaseNative, At, TypeOK, TapTypes
      <4>2. PICK u \in Taps : pc[u] = "releasing"
        BY <4>1 DEF ClosingIsReleased
      <4> QED
        BY <1>3, <4>1, <4>2 DEF Switching
    <3>2. CASE to # "failed"
      <4>1. pc'[t] \in {"detaching", "releasing"}
        BY <1>3, <1>8, <3>2
        DEF ReleaseWeb, DetachNative, ReleaseNative, At, TypeOK, TapTypes
      <4> QED
        BY <4>1 DEF Switching
    <3> QED
      BY <3>1, <3>2
  <2> QED
    BY <1>1, <1>3, <1>5, <1>6, <2>1 DEF StopDecides, StartDecides, StartConnects
<1> QED
  BY <1>7, <1>8

LEMMA LastOthers ==
    ASSUME TypeOK,
           \/ PlayerOpens \/ PlayerRaises \/ ReceiveAudio \/ (\E k \in playing : FramePlayed(k))
           \/ (\E isSpeaking \in BOOLEAN : ReceiveStatus(isSpeaking))
           \/ CaptureFrame \/ SocketCloses \/ UNCHANGED vars,
           taps > 0, StopDecides, StartDecides
    PROVE  /\ StopDecides' /\ StartDecides'
           /\ ~contested' => ~contested /\ (StartConnects => StartConnects')
<1>1. /\ UNCHANGED <<taps, kind, mic, captureSub, listening, held, streams>> /\ Taps' = Taps
      /\ \A t \in Taps : \/ pc'[t] = pc[t]
                         \/ pc[t] = "priming" /\ pc'[t] \in {"primed", "failed"}
      /\ \/ channel' = channel /\ contested' = contested
         \/ LosesChannel
  BY OthersMove DEF capture
<1>2. taps \in Taps
  BY DEF TypeOK, TapTypes, Taps
<1>3. \A t \in Taps : /\ pc'[t] \in Switching <=> pc[t] \in Switching
                      /\ pc'[t] \in Reconnecting <=> pc[t] \in Reconnecting
                      /\ pc'[t] = "leaving" <=> pc[t] = "leaving"
                      /\ pc'[t] = "closing" <=> pc[t] = "closing"
                      /\ Ended(t) => Ended(t)'
  BY <1>1 DEF Switching, Reconnecting, Ended
<1>4. channel' = channel \/ channel' = "none"
  BY <1>1 DEF LosesChannel
<1>5. StopDecides'
  <2>1. kind[taps] = "stop" =>
          channel' # "voice" \/ \E t \in Taps : pc'[t] \in Switching \cup {"leaving"}
    BY <1>3, <1>4 DEF StopDecides
  <2> QED
    BY <1>1, <1>3, <2>1 DEF StopDecides
<1>6. StartDecides'
  BY <1>1, <1>2, <1>3 DEF StartDecides
<1>7. ASSUME ~contested'
      PROVE  ~contested /\ (StartConnects => StartConnects')
  <2>1. CASE channel' = channel /\ contested' = contested
    BY <1>1, <1>2, <1>3, <1>7, <2>1 DEF StartConnects
  <2>2. CASE LosesChannel
    <3>1. channel' = "none" /\ ~contested /\ \A t \in Taps : pc[t] # "closing"
      BY <1>7, <2>2 DEF LosesChannel
    <3> QED
      BY <1>1, <1>2, <1>3, <3>1 DEF StartConnects
  <2> QED
    BY <1>1, <2>1, <2>2
<1> QED
  BY <1>5, <1>6, <1>7

LEMMA LastStep ==
    ASSUME TypeOK, RacedInv, LastInv, [Next]_vars
    PROVE  LastInv'
<1>1. ClosingIsReleased'
  BY ClosingStep DEF LastInv
<1>2. CASE TapStart \/ TapStop
  BY <1>1, <1>2, LastTaps DEF LastInv
<1>3. ASSUME ~raced', taps' > 0, ~(TapStart \/ TapStop)
      PROVE  StopDecides' /\ StartDecides' /\ (~contested' => StartConnects')
  <2>1. ASSUME NEW t \in Taps, FunctionNext(t)
        PROVE  StopDecides' /\ StartDecides' /\ (~contested' => StartConnects')
    <3>1. raced' = raced /\ taps' = taps
      BY <2>1 DEF FunctionNext, LeaveChannel, ConnectText, ConnectVoice, AcquireMic,
                  MicDenied, MicGrantedNative, MicGrantedWeb, WorkletLoads, WorkletRaises,
                  ReleaseWeb, DetachNative, ReleaseNative, VoiceOff, rest
    <3>2. MicInv /\ StopDecides /\ StartDecides /\ (~contested => StartConnects)
      BY <1>3, <3>1 DEF RacedInv, LastInv
    <3>3. CASE LeaveChannel(t) \/ ConnectText(t) \/ ConnectVoice(t)
      BY <3>2, <3>3, LastReconnects
    <3>4. CASE \/ AcquireMic(t) \/ MicDenied(t) \/ MicGrantedNative(t) \/ MicGrantedWeb(t)
               \/ WorkletLoads(t) \/ WorkletRaises(t)
      <4>1. contested' = contested
        BY <3>4 DEF AcquireMic, MicDenied, MicGrantedNative, MicGrantedWeb, WorkletLoads,
                    WorkletRaises, rest
      <4> QED
        BY <3>2, <3>4, <4>1, LastStarts
    <3>5. CASE ReleaseWeb(t) \/ DetachNative(t) \/ ReleaseNative(t) \/ VoiceOff(t)
      BY <3>2, <3>5, LastStops DEF LastInv
    <3> QED
      BY <2>1, <3>3, <3>4, <3>5 DEF FunctionNext
  <2>2. CASE \/ PlayerOpens \/ PlayerRaises \/ ReceiveAudio
             \/ (\E k \in playing : FramePlayed(k))
             \/ (\E isSpeaking \in BOOLEAN : ReceiveStatus(isSpeaking))
             \/ CaptureFrame \/ SocketCloses \/ UNCHANGED vars
    <3>1. raced' = raced /\ taps' = taps
      BY <2>2, OthersMove
    <3>2. StopDecides /\ StartDecides /\ (~contested => StartConnects)
      BY <1>3, <3>1 DEF LastInv
    <3> QED
      BY <1>3, <2>2, <3>1, <3>2, LastOthers
  <2> QED
    BY <1>3, <2>1, <2>2 DEF Next
<1> QED
  BY <1>1, <1>2, <1>3 DEF LastInv

\* When all functions have ended the last tap has decided (LastTapDecides), for any
\* number of taps, overlapping reconnects, refusals and closed sockets, with the
\* exceptions that the property names.
THEOREM LastTapWins == Spec => []LastTapDecides
<1>1. Init => RacedInv /\ LastInv
  <2> SUFFICES ASSUME Init PROVE RacedInv /\ LastInv
    OBVIOUS
  <2>1. Taps = {} /\ ~(taps > 0) /\ closing = 0
    BY DEF Init, Taps
  <2> QED
    BY <2>1 DEF Init, LastInv, ClosingIsReleased, RacedInv, MicInv, Apart, OneEnables,
                MicStates, StopsSoFar, Quiet
<1>2. TypeOK /\ RacedInv /\ LastInv /\ [Next]_vars => RacedInv' /\ LastInv'
  BY MicStep, LastStep
<1>3. TypeOK /\ RacedInv /\ LastInv => LastTapDecides
  <2> SUFFICES ASSUME TypeOK, LastInv, taps > 0, \A t \in Taps : Ended(t), ~raced, ~contested
               PROVE  IF kind[taps] = "stop"
                        THEN mic = "off" /\ channel # "voice"
                        ELSE /\ mic # "off" /\ channel # "text"
                             /\ mic = "capturing" => listening = {captureSub} /\ streams = {held}
    BY DEF LastTapDecides
  <2>1. /\ taps \in Taps /\ pc[taps] \notin Reconnecting
        /\ \A t \in Taps : pc[t] \notin Switching \cup {"leaving"}
    BY DEF TypeOK, TapTypes, Taps, Ended, Switching, Reconnecting
  <2>2. StopDecides /\ StartDecides /\ StartConnects
    BY DEF LastInv
  <2>3. CASE kind[taps] = "stop"
    BY <2>1, <2>2, <2>3 DEF StopDecides
  <2>4. CASE kind[taps] = "start"
    BY <2>1, <2>2, <2>4 DEF StartDecides, StartConnects, Reconnecting
  <2> QED
    BY <2>1, <2>3, <2>4, KindOf
<1> QED
  BY <1>1, <1>2, <1>3, TypeCorrect, PTL DEF Spec
=============================================================================
