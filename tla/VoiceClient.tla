----------------------------- MODULE VoiceClient -----------------------------
(***************************************************************************)
(* The voice side of the app: the orb's buttons of VoiceScreen, which      *)
(* reconnect the socket and switch the microphone, VoiceController,        *)
(* AudioCapture and AudioPlayback with their implementations for the web   *)
(* and for devices.                                                        *)
(*                                                                         *)
(* Every tap starts an asynchronous function that runs on while the user   *)
(* taps again.  An action is what one of them, an event or a frame of      *)
(* audio does between two awaits; what awaits a future that is done goes   *)
(* on at once.  A tap's number names its function, and the microphone      *)
(* stream and the subscription that it makes.                              *)
(***************************************************************************)
EXTENDS Integers, FiniteSets

CONSTANTS
    Platforms,    \* a subset of {"web", "native"}
    MaxTaps,      \* bound: taps of the user
    MaxAudio,     \* bound: frames of EDITH's voice
    MaxFaults     \* bound: refused microphones, calls that raise, closed sockets

ASSUME PlatformsAssumption == Platforms \subseteq {"web", "native"}
ASSUME BoundsAssumption == {MaxTaps, MaxAudio, MaxFaults} \subseteq Nat

VARIABLES
    platform,     \* the implementation that audio_factory picks
    taps,         \* taps so far
    kind,         \* per tap, "start" or "stop"
    pc,           \* per tap, the await its function is at
    channel,      \* WsTransport._channel: "none", or the mode of the open one
    mic,          \* VoiceState.micState
    captureSub,   \* VoiceController._captureSub, 0 if there is none
    listening,    \* the subscriptions to the captured frames that are not cancelled
    held,         \* the stream that the capture can stop, 0 if there is none
    streams,      \* the microphone streams that are live
    closing,      \* on the web: the stream whose context is being closed
    player,       \* "closed", "opening", "open"; "stuck" once an opening has raised
    opener,       \* the tap that awaits the opening, 0 if none does
    pending,      \* frames enqueued before the player is open
    playing,      \* frames the player has
    speaking,     \* VoiceState.sessionState is speaking
    bargedIn,     \* _bargedInThisTurn
    audio,        \* frames received so far
    silenced,     \* history: the frames received before the last stop of the playback
    raced,        \* history: a tap against a function that was still switching the mic
    contested,    \* history: a channel was given up or lost while a reconnect was still
                  \* to connect
    faults        \* history: the faults so far

capture  == <<captureSub, listening, held, streams, closing>>
playback == <<player, opener, pending, playing>>
session  == <<speaking, bargedIn>>
vars == <<platform, taps, kind, pc, channel, mic, capture, playback, session, audio,
          silenced, raced, contested, faults>>

Taps == 1..taps

Ended(t) == pc[t] \in {"done", "failed"}

Fault == faults < MaxFaults /\ faults' = faults + 1

LosesChannel ==
    /\ channel # "none" /\ channel' = "none"
    /\ contested' = (contested \/ \E t \in Taps : pc[t] = "closing")

At(t, from, to) == pc[t] = from /\ pc' = [pc EXCEPT ![t] = to]

Init ==
    /\ platform \in Platforms
    /\ taps = 0 /\ kind = [t \in {} |-> ""] /\ pc = [t \in {} |-> ""]
    /\ channel = "text" /\ mic = "off"
    /\ captureSub = 0 /\ listening = {} /\ held = 0 /\ streams = {} /\ closing = 0
    /\ player = (IF platform = "web" THEN "open" ELSE "closed") /\ opener = 0
    /\ pending = {} /\ playing = {}
    /\ speaking = FALSE /\ bargedIn = FALSE
    /\ audio = 0 /\ silenced = {} /\ raced = FALSE /\ contested = FALSE /\ faults = 0

----------------------------------------------------------------------------
(* AudioPlayback *)

\* Mutant: what waits for the player is not dropped.
StopPlaybackPlayingOnly ==
    /\ playing' = {}
    /\ player' = IF platform = "native" /\ player = "open" THEN "closed" ELSE player
    /\ silenced' = 1..audio
    /\ UNCHANGED <<opener, pending>>

\* stop: on a device the player is closed, if it is open, and opened for the next frame.
StopPlayback ==
    /\ playing' = {} /\ pending' = {}
    /\ player' = IF platform = "native" /\ player = "open" THEN "closed" ELSE player
    /\ silenced' = 1..audio
    /\ UNCHANGED opener

\* enqueue: _feed, or _pending and _ensureStarted.
ReceiveAudio ==
    /\ channel = "voice"
    /\ audio < MaxAudio
    /\ audio' = audio + 1
    /\ IF player = "open"
         THEN playing' = playing \cup {audio + 1} /\ UNCHANGED <<player, pending>>
         ELSE /\ pending' = pending \cup {audio + 1}
              /\ player' = IF player = "closed" THEN "opening" ELSE player
              /\ UNCHANGED playing
    /\ UNCHANGED <<platform, taps, kind, pc, channel, mic, capture, opener, session,
                   silenced, raced, contested, faults>>

FramePlayed(k) ==
    /\ k \in playing
    /\ playing' = playing \ {k}
    /\ UNCHANGED <<platform, taps, kind, pc, channel, mic, capture, player, opener, pending,
                   session, audio, silenced, raced, contested, faults>>

\* _ensureStarted ends: what waited is fed to the player.
PlayerOpens ==
    /\ player = "opening"
    /\ player' = "open" /\ opener' = 0
    /\ playing' = playing \cup pending /\ pending' = {}
    /\ pc' = [t \in Taps |-> IF t = opener THEN "primed" ELSE pc[t]]
    /\ UNCHANGED <<platform, taps, kind, channel, mic, capture, session, audio, silenced,
                   raced, contested, faults>>

\* openPlayer or startPlayerFromStream raises: _starting stays set, and enable, if it
\* waits, raises with the microphone at "starting".
PlayerRaises ==
    /\ player = "opening"
    /\ Fault
    /\ player' = "stuck" /\ opener' = 0
    /\ pc' = [t \in Taps |-> IF t = opener THEN "failed" ELSE pc[t]]
    /\ UNCHANGED <<platform, taps, kind, channel, mic, capture, pending, playing, session,
                   audio, silenced, raced, contested>>

----------------------------------------------------------------------------
(* The taps: VoiceScreen._startVoice and _stopVoice *)

Tap(action, first) ==
    /\ taps < MaxTaps
    /\ taps' = taps + 1
    /\ kind' = [t \in 1..taps' |-> IF t = taps' THEN action ELSE kind[t]]
    /\ pc' = [t \in 1..taps' |-> IF t = taps' THEN first ELSE pc[t]]

\* The orb or "Tap to talk": primePlayback, which nobody awaits, and reconnect.
TapStart ==
    /\ mic \in {"off", "denied"}
    /\ Tap("start", "leaving")
    /\ player' = IF player = "closed" THEN "opening" ELSE player
    /\ raced' = (raced \/ \E t \in Taps :
                    pc[t] \in {"cancelling", "detaching", "releasing"})
    /\ UNCHANGED <<platform, channel, mic, capture, opener, pending, playing, session,
                   audio, silenced, contested, faults>>

\* "Stop": disable cancels its subscription, if there is one.
TapStop ==
    /\ mic \in {"starting", "capturing"}
    /\ Tap("stop", "cancelling")
    /\ listening' = listening \ {captureSub}
    /\ raced' = (raced \/ \E t \in Taps : kind[t] = "start" /\ ~Ended(t))
    /\ UNCHANGED <<platform, channel, mic, captureSub, held, streams, closing, playback,
                   session, audio, silenced, contested, faults>>

\* The calls of reconnect that await the end of the subscription resume in their order.
IsNextToLeave(t) == pc[t] = "leaving" /\ \A u \in Taps : pc[u] = "leaving" => t <= u

\* reconnect gives the old channel up, if there is one, and awaits its close.
LeaveChannel(t) ==
    /\ IsNextToLeave(t)
    /\ LosesChannel
    /\ At(t, "leaving", "closing")
    /\ UNCHANGED <<platform, taps, kind, mic, capture, playback, session, audio, silenced,
                   raced, faults>>

\* connect does nothing where there is a channel; it comes at once where there was none
\* to close.
Connect(t, to, mode) ==
    /\ pc[t] = "closing" \/ (IsNextToLeave(t) /\ channel = "none")
    /\ pc' = [pc EXCEPT ![t] = to]
    /\ channel' = IF channel = "none" THEN mode ELSE channel

ConnectText(t) ==
    /\ kind[t] = "stop"
    /\ Connect(t, "done", "text")
    /\ UNCHANGED <<platform, taps, kind, mic, capture, playback, session, audio, silenced,
                   raced, contested, faults>>

\* Mutant: enable does not look whether it is on already.
ConnectVoiceAnyway(t) ==
    /\ kind[t] = "start"
    /\ mic' = "starting"
    /\ IF player = "closed"
         THEN Connect(t, "priming", "voice") /\ player' = "opening" /\ opener' = t
         ELSE Connect(t, "primed", "voice") /\ UNCHANGED <<player, opener>>
    /\ UNCHANGED <<platform, taps, kind, capture, pending, playing, session, audio,
                   silenced, raced, contested, faults>>

\* enable: nothing to do while the microphone is on or coming, else it awaits prime, which
\* returns at once unless it is what opens the player.
ConnectVoice(t) ==
    /\ kind[t] = "start"
    /\ IF mic \in {"starting", "capturing"}
         THEN Connect(t, "done", "voice") /\ UNCHANGED <<mic, player, opener>>
         ELSE /\ mic' = "starting"
              /\ IF player = "closed"
                   THEN Connect(t, "priming", "voice") /\ player' = "opening" /\ opener' = t
                   ELSE Connect(t, "primed", "voice") /\ UNCHANGED <<player, opener>>
    /\ UNCHANGED <<platform, taps, kind, capture, pending, playing, session, audio,
                   silenced, raced, contested, faults>>

----------------------------------------------------------------------------
(* AudioCapture.start, from enable *)

Started(t) ==
    /\ captureSub' = t /\ listening' = listening \cup {t}
    /\ mic' = "capturing"

rest == <<platform, taps, kind, channel, playback, session, audio, silenced, raced,
          contested>>

\* On the web there is nothing to start while a context is left.
AcquireMic(t) ==
    /\ IF platform = "web" /\ held # 0
         THEN At(t, "primed", "done") /\ Started(t) /\ UNCHANGED <<held, streams, closing>>
         ELSE At(t, "primed", "acquiring") /\ UNCHANGED <<mic, capture>>
    /\ UNCHANGED <<rest, faults>>

MicDenied(t) ==
    /\ At(t, "acquiring", "done")
    /\ Fault
    /\ mic' = "denied"
    /\ UNCHANGED <<rest, capture>>

\* The recorder of a device has one stream, which is listened to at once.
MicGrantedNative(t) ==
    /\ platform = "native" /\ At(t, "acquiring", "done")
    /\ held' = t /\ streams' = {t}
    /\ Started(t)
    /\ UNCHANGED <<rest, closing, faults>>

\* The browser hands out a stream of its own to each call; the worklet is still to load.
MicGrantedWeb(t) ==
    /\ platform = "web" /\ At(t, "acquiring", "loading")
    /\ held' = t /\ streams' = streams \cup {t}
    /\ UNCHANGED <<rest, mic, captureSub, listening, closing, faults>>

WorkletLoads(t) ==
    /\ At(t, "loading", "done")
    /\ Started(t)
    /\ UNCHANGED <<rest, held, streams, closing, faults>>

\* resume or addModule raises, which enable does not catch.
WorkletRaises(t) ==
    /\ At(t, "loading", "failed")
    /\ Fault
    /\ UNCHANGED <<rest, mic, capture>>

----------------------------------------------------------------------------
(* AudioCapture.stop and the rest of disable *)

\* Mutant: the tracks of the stream are not stopped.
ReleaseWebKeepingTracks(t) ==
    /\ platform = "web"
    /\ captureSub' = 0
    /\ IF held # 0 /\ held = closing
         THEN At(t, "cancelling", "failed") /\ UNCHANGED closing
         ELSE At(t, "cancelling", "releasing") /\ closing' = held
    /\ UNCHANGED <<rest, mic, listening, held, streams, faults>>

\* On the web the tracks end, and the context is closed, or raises if it is closing.
ReleaseWeb(t) ==
    /\ platform = "web"
    /\ captureSub' = 0
    /\ streams' = streams \ {held}
    /\ IF held # 0 /\ held = closing
         THEN At(t, "cancelling", "failed") /\ UNCHANGED closing
         ELSE At(t, "cancelling", "releasing") /\ closing' = held
    /\ UNCHANGED <<rest, mic, listening, held, faults>>

\* On a device the recorder's stream is left first, then the recorder stops.
DetachNative(t) ==
    /\ platform = "native" /\ At(t, "cancelling", "detaching")
    /\ captureSub' = 0
    /\ UNCHANGED <<rest, mic, listening, held, streams, closing, faults>>

ReleaseNative(t) ==
    /\ At(t, "detaching", "releasing")
    /\ held' = 0 /\ streams' = {}
    /\ UNCHANGED <<rest, mic, captureSub, listening, closing, faults>>

\* The capture has stopped: the playback stops, and the socket goes back to text.
VoiceOff(t) ==
    /\ At(t, "releasing", "leaving")
    /\ held' = 0 /\ closing' = 0
    /\ StopPlayback
    /\ mic' = "off" /\ speaking' = FALSE /\ bargedIn' = FALSE
    /\ UNCHANGED <<platform, taps, kind, channel, captureSub, listening, streams, audio,
                   raced, contested, faults>>

----------------------------------------------------------------------------
(* The session: _onEvent, _onCaptureFrame and the socket *)

\* A status; what is not speaking makes the next reply one that can be interrupted.
ReceiveStatus(isSpeaking) ==
    /\ channel # "none"
    /\ speaking' = isSpeaking
    /\ bargedIn' = (bargedIn /\ isSpeaking)
    /\ UNCHANGED <<platform, taps, kind, pc, channel, mic, capture, playback, audio,
                   silenced, raced, contested, faults>>

\* A captured frame interrupts the reply that is being spoken, once; all are sent.
CaptureFrame ==
    /\ streams # {} /\ listening # {}
    /\ speaking /\ ~bargedIn
    /\ bargedIn' = TRUE
    /\ StopPlayback
    /\ UNCHANGED <<platform, taps, kind, pc, channel, mic, capture, speaking, audio, raced,
                   contested, faults>>

\* WsTransport._onDone, or a channel that fails.
SocketCloses ==
    /\ Fault
    /\ LosesChannel
    /\ UNCHANGED <<platform, taps, kind, pc, mic, capture, playback, session, audio,
                   silenced, raced>>

----------------------------------------------------------------------------

FunctionNext(t) ==
    \/ LeaveChannel(t) \/ ConnectText(t) \/ ConnectVoice(t)
    \/ AcquireMic(t) \/ MicDenied(t) \/ MicGrantedNative(t) \/ MicGrantedWeb(t)
    \/ WorkletLoads(t) \/ WorkletRaises(t)
    \/ ReleaseWeb(t) \/ DetachNative(t) \/ ReleaseNative(t) \/ VoiceOff(t)

Next ==
    \/ TapStart \/ TapStop
    \/ \E t \in Taps : FunctionNext(t)
    \/ ReceiveAudio \/ PlayerOpens \/ PlayerRaises
    \/ \E k \in playing : FramePlayed(k)
    \/ \E isSpeaking \in BOOLEAN : ReceiveStatus(isSpeaking)
    \/ CaptureFrame \/ SocketCloses

Spec == Init /\ [][Next]_vars

----------------------------------------------------------------------------

\* Unless a tap has met a function that was still switching it, the microphone is live
\* only while the screen says that it is starting or on, and what it captures is heard by
\* at most one listener, so that the server gets no frame twice (voice_state.dart: "Mic
\* live and streaming").
MicIsTold ==
    ~raced =>
      /\ streams # {} => mic \in {"starting", "capturing"}
      /\ listening # {} => mic = "capturing"
      /\ Cardinality(streams) <= 1 /\ Cardinality(listening) <= 1
      /\ mic = "off" => held = 0 /\ captureSub = 0

\* When all functions have ended, the last tap has decided: after a stop the microphone
\* is off and the socket not in voice mode, after a start the socket is not in text mode,
\* and a microphone that is on is captured and can be stopped, however two reconnects
\* overlap in their wait for the close (VoiceScreen._startVoice and _stopVoice).  The
\* exceptions are those of MicIsTold, and a channel that is given up or lost while a
\* reconnect is still to connect.
LastTapDecides ==
    taps > 0 /\ (\A t \in Taps : Ended(t)) /\ ~raced /\ ~contested =>
      IF kind[taps] = "stop"
        THEN mic = "off" /\ channel # "voice"
        ELSE /\ mic # "off" /\ channel # "text"
             /\ mic = "capturing" => listening = {captureSub} /\ streams = {held}

\* What was received before the playback was stopped, by a barge-in or a tap, is never
\* played after, also when the player was still opening (audio_io.dart: "Immediately stop
\* and drop all queued/playing audio").
StopSilences == (pending \cup playing) \cap silenced = {}
==============================================================================
