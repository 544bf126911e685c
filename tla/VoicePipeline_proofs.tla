------------------------ MODULE VoicePipeline_proofs ------------------------
(***************************************************************************)
(* Theorems about VoicePipeline, for any numbers of inputs, hints, tokens  *)
(* and questions, and about its endpointer, for any audio and thresholds.  *)
(*                                                                         *)
(*   TypeCorrect        the types, and where _speak may run                *)
(*   OwnReplyOnly       what is spoken is of the reply of its turn         *)
(*   SilentAtOnce       at most one frame goes out after an interruption   *)
(*   LaterInterrupts    a turn is interrupted by what came after it        *)
(*   OrderKept          inputs become turns in their order                 *)
(*   EndpointerCutsAudio                                                   *)
(*                      the utterances are those of the audio, whatever    *)
(*                      the chunks it comes in                             *)
(*   EndpointerReports  a chunk starts speech only in the quiet, and ends  *)
(*                      only what has begun                                *)
(***************************************************************************)
EXTENDS VoicePipeline, Endpointer, FiniteSetTheorems, SequenceTheorems, WellFoundedInduction,
        TLAPS

----------------------------------------------------------------------------
(* Types *)

Inputs == 1..MaxInputs

\* The client's side and the wire: TypeOK's part of it.
ClientTypes ==
    /\ connected \in BOOLEAN /\ said \in 0..MaxInputs /\ hints \in 0..MaxHints
    /\ mic \in {"quiet", "speech"}
    /\ inbound \in Seq(Frames)

\* The pump: it has an utterance exactly while the ASR or the transcript is awaited.
PumpTypes ==
    /\ voice \in {"quiet", "speech"}
    /\ pump \in {"draining", "transcribing", "showing", "apologising", "ended"}
    /\ hearing \in 0..MaxInputs
    /\ pump \in {"transcribing", "showing"} => hearing # 0
    /\ pump \in {"draining", "apologising"} => hearing = 0
    /\ lost \subseteq Inputs

\* What the tasks share.
SharedTypes ==
    /\ turns \in Seq(0..MaxInputs)
    /\ bargeIn \in BOOLEAN /\ cause \in 0..(MaxInputs + 1) /\ turnActive \in BOOLEAN
    /\ fut \in {"unset", "ok", "no"}
    /\ session \in {"running", "closed"}

\* The agent: a turn has an input, a question is within the bound.
AgentTypes ==
    /\ pc \in {"waiting", "preparing", "streaming", "mirroring", "voicing", "dispatching",
               "confirming", "recording", "flushing", "completing", "failing", "closing",
               "returned", "crashed"}
    /\ turn \in 0..MaxInputs /\ cancel \in BOOLEAN
    /\ tokens \in 0..MaxTokens /\ asked \in 0..MaxQuestions
    /\ status \in {"none", "thinking", "speaking", "listening", "idle"}
    /\ taken \subseteq Inputs
    /\ InTurn => turn # 0
    /\ pc = "confirming" => asked # 0
    /\ pc = "dispatching" => asked < MaxQuestions

\* The sentence buffer and _speak.
SpeechTypes ==
    /\ buf \in [whole : Seq(SUBSET Inputs), tail : SUBSET Inputs]
    /\ speaker \in {"idle", "asking", "synthesizing", "announcing", "playing"}
    /\ speaker # "idle" => pc \in {"voicing", "confirming", "flushing"}
    /\ (chunk # {}) <=> speaker \in {"synthesizing", "announcing", "playing"}
    /\ chunk \subseteq Inputs /\ spoke \in BOOLEAN /\ late \in Nat

TypeInv == ClientTypes /\ PumpTypes /\ SharedTypes /\ AgentTypes /\ SpeechTypes

LEMMA TypeInvImpliesTypeOK == TypeInv => TypeOK
BY DEF TypeInv, ClientTypes, PumpTypes, SharedTypes, AgentTypes, SpeechTypes, TypeOK, Inputs

LEMMA TypeInit == Init => TypeInv
<1> SUFFICES ASSUME Init
             PROVE  TypeInv
  OBVIOUS
<1>0. /\ 0 \in 0..MaxInputs /\ 0 \in 0..MaxHints /\ 0 \in 0..MaxTokens /\ 0 \in 0..MaxQuestions
      /\ 0 \in 0..(MaxInputs + 1)
  BY BoundsAssumption
<1>1. inbound \in Seq(Frames) /\ turns \in Seq(0..MaxInputs)
  BY DEF Init
<1>2. buf \in [whole : Seq(SUBSET Inputs), tail : SUBSET Inputs]
  BY DEF Init, EmptyBuf
<1>3. ClientTypes
  BY <1>0, <1>1 DEF Init, ClientTypes
<1>4. PumpTypes
  BY <1>0 DEF Init, PumpTypes
<1>5. SharedTypes
  BY <1>0, <1>1 DEF Init, SharedTypes
<1>6. AgentTypes
  BY <1>0 DEF Init, AgentTypes, InTurn
<1>7. SpeechTypes
  BY <1>2 DEF Init, SpeechTypes
<1> QED
  BY <1>3, <1>4, <1>5, <1>6, <1>7 DEF TypeInv

----------------------------------------------------------------------------

\* What the client sends is a frame.
LEMMA ClientStep == ASSUME TypeInv, ClientNext PROVE TypeInv'
<1> USE BoundsAssumption DEF clientVars, pumpVars, signalVars, turnVars, speechVars
<1>1. said \in 0..MaxInputs /\ hints \in 0..MaxHints /\ inbound \in Seq(Frames)
  BY DEF TypeInv, ClientTypes
<1>2. ASSUME UNCHANGED <<pumpVars, turns, signalVars, fut, pc, turnVars, asked, buf,
                         speechVars, status, session>>
      PROVE  PumpTypes' /\ SharedTypes' /\ AgentTypes' /\ SpeechTypes'
  <2>1. PumpTypes'
    BY <1>2 DEF TypeInv, PumpTypes
  <2>2. SharedTypes'
    BY <1>2 DEF TypeInv, SharedTypes
  <2>3. AgentTypes'
    BY <1>2 DEF TypeInv, AgentTypes, InTurn
  <2>4. SpeechTypes'
    BY <1>2 DEF TypeInv, SpeechTypes
  <2> QED
    BY <2>1, <2>2, <2>3, <2>4
<1>3. ASSUME NEW onset \in BOOLEAN, NEW ends \in BOOLEAN, ReceiveAudio(onset, ends)
      PROVE  TypeInv'
  <2> DEFINE f == AudioFrame(onset, IF ends THEN said + 1 ELSE 0)
  <2>1. f \in Frames /\ said' \in 0..MaxInputs /\ mic' \in {"quiet", "speech"}
    BY <1>1, <1>3 DEF ReceiveAudio, AudioFrame, Frames
  <2>2. inbound' = Append(inbound, f)
    BY <1>3 DEF ReceiveAudio, Receive
  <2>3. inbound' \in Seq(Frames)
    BY <1>1, <2>1, <2>2
  <2>4. ClientTypes'
    BY <1>3, <2>1, <2>3 DEF ReceiveAudio, Receive, TypeInv, ClientTypes
  <2> QED
    BY <1>2, <1>3, <2>4 DEF ReceiveAudio, Receive, TypeInv
<1>4. CASE ReceiveText
  <2>1. TextFrame(said + 1) \in Frames /\ said' \in 0..MaxInputs
    BY <1>1, <1>4 DEF ReceiveText, TextFrame, Frames
  <2>2. inbound' \in Seq(Frames)
    BY <1>1, <1>4, <2>1 DEF ReceiveText, Receive
  <2>3. ClientTypes'
    BY <1>4, <2>1, <2>2 DEF ReceiveText, Receive, TypeInv, ClientTypes
  <2> QED
    BY <1>2, <1>4, <2>3 DEF ReceiveText, Receive, TypeInv
<1>5. CASE ReceiveBargeIn
  <2>1. HintFrame \in Frames /\ hints' \in 0..MaxHints
    BY <1>1, <1>5 DEF ReceiveBargeIn, HintFrame, Frames
  <2>2. inbound' \in Seq(Frames)
    BY <1>1, <1>5, <2>1 DEF ReceiveBargeIn, Receive
  <2>3. ClientTypes'
    BY <1>5, <2>1, <2>2 DEF ReceiveBargeIn, Receive, TypeInv, ClientTypes
  <2> QED
    BY <1>2, <1>5, <2>3 DEF ReceiveBargeIn, Receive, TypeInv
<1>6. CASE Disconnect
  <2>1. CloseFrame \in Frames
    BY DEF CloseFrame, Frames
  <2>2. inbound' \in Seq(Frames)
    BY <1>1, <1>6, <2>1 DEF Disconnect
  <2>3. ClientTypes'
    BY <1>6, <2>2 DEF Disconnect, TypeInv, ClientTypes
  <2> QED
    BY <1>2, <1>6, <2>3 DEF Disconnect, TypeInv
<1>7. ASSUME NEW ok \in BOOLEAN, ReceiveConfirm(ok)
      PROVE  TypeInv'
  <2>1. asked \in 1..MaxQuestions
    BY <1>7 DEF ReceiveConfirm, TypeInv, AgentTypes
  <2>2. ConfirmFrame(ok) \in Frames
    BY <2>1 DEF ConfirmFrame, Frames
  <2>3. inbound' \in Seq(Frames)
    BY <1>1, <1>7, <2>2 DEF ReceiveConfirm, Receive
  <2>4. ClientTypes'
    BY <1>7, <2>3 DEF ReceiveConfirm, Receive, TypeInv, ClientTypes
  <2> QED
    BY <1>2, <1>7, <2>4 DEF ReceiveConfirm, Receive, TypeInv
<1> QED
  BY <1>3, <1>4, <1>5, <1>6, <1>7 DEF ClientNext

\* What the pump does with a frame, and with the utterance it transcribes.
LEMMA PumpStepTypes == ASSUME TypeInv, PumpNext PROVE TypeInv'
<1> USE DEF clientVars, turnVars, speechVars
<1>1. ASSUME NEW type, Pump(type)
      PROVE  /\ Head(inbound) \in Frames /\ Head(inbound).type = type
             /\ inbound' \in Seq(Frames)
  BY <1>1 DEF Pump, TypeInv, ClientTypes
<1>2. ASSUME UNCHANGED <<clientVars, pc, turnVars, asked, buf, speechVars, status>>,
             inbound' \in Seq(Frames)
      PROVE  ClientTypes' /\ AgentTypes' /\ SpeechTypes'
  <2>1. ClientTypes'
    BY <1>2 DEF TypeInv, ClientTypes
  <2>2. AgentTypes'
    BY <1>2 DEF TypeInv, AgentTypes, InTurn
  <2>3. SpeechTypes'
    BY <1>2 DEF TypeInv, SpeechTypes
  <2> QED
    BY <2>1, <2>2, <2>3
<1>3. ASSUME NEW type, Pump(type), PumpTypes', turns' \in Seq(0..MaxInputs), bargeIn' \in BOOLEAN,
             cause' \in 0..(MaxInputs + 1), fut' \in {"unset", "ok", "no"}
      PROVE  TypeInv'
  BY <1>1, <1>2, <1>3 DEF Pump, TypeInv, SharedTypes
<1>4. turns \in Seq(0..MaxInputs) /\ bargeIn \in BOOLEAN /\ cause \in 0..(MaxInputs + 1)
      /\ fut \in {"unset", "ok", "no"} /\ turnActive \in BOOLEAN
  BY DEF TypeInv, SharedTypes
<1>5. CASE PumpAudio
  <2>1. Pump("audio")
    BY <1>5 DEF PumpAudio
  <2>2. Head(inbound) \in Frames /\ Head(inbound).type = "audio"
    BY <1>1, <2>1
  <2>3. /\ Head(inbound).onset \in BOOLEAN /\ Head(inbound).ends \in 0..MaxInputs
        /\ Head(inbound).before \in 0..MaxInputs
    BY <2>2 DEF Frames
  <2>4. PumpTypes'
    BY <1>5, <2>3 DEF PumpAudio, TypeInv, PumpTypes
  <2>5. bargeIn' \in BOOLEAN /\ cause' \in 0..(MaxInputs + 1)
    BY <1>4, <1>5, <2>3, BoundsAssumption DEF PumpAudio, SetBargeIn
  <2> QED
    BY <1>3, <1>4, <1>5, <2>1, <2>4, <2>5 DEF PumpAudio
<1>6. CASE PumpText
  <2>1. Pump("text")
    BY <1>6 DEF PumpText
  <2>2. Head(inbound) \in Frames /\ Head(inbound).type = "text"
    BY <1>1, <2>1
  <2>3. Head(inbound).k \in 1..MaxInputs
    BY <2>2 DEF Frames
  <2>4. PumpTypes'
    BY <1>6 DEF PumpText, pumpVars, TypeInv, PumpTypes
  <2>5. /\ bargeIn' \in BOOLEAN /\ cause' \in 0..(MaxInputs + 1)
        /\ turns' \in Seq(0..MaxInputs)
    BY <1>4, <1>6, <2>3, BoundsAssumption DEF PumpText, SetBargeIn
  <2> QED
    BY <1>3, <1>4, <1>6, <2>1, <2>4, <2>5 DEF PumpText
<1>7. CASE PumpConfirm
  <2>1. PumpTypes' /\ fut' \in {"unset", "ok", "no"}
    BY <1>4, <1>7 DEF PumpConfirm, pumpVars, TypeInv, PumpTypes
  <2> QED
    BY <1>3, <1>4, <1>7, <2>1 DEF PumpConfirm
<1>8. CASE PumpBargeIn
  <2>1. Pump("barge_in")
    BY <1>8 DEF PumpBargeIn
  <2>2. Head(inbound) \in Frames /\ Head(inbound).type = "barge_in"
    BY <1>1, <2>1
  <2>3. Head(inbound).before \in 0..MaxInputs
    BY <2>2 DEF Frames
  <2>4. PumpTypes' /\ bargeIn' \in BOOLEAN /\ cause' \in 0..(MaxInputs + 1)
    BY <1>4, <1>8, <2>3, BoundsAssumption
       DEF PumpBargeIn, SetBargeIn, pumpVars, TypeInv, PumpTypes
  <2> QED
    BY <1>3, <1>4, <1>8, <2>1, <2>4 DEF PumpBargeIn
<1>9. CASE PumpClose
  <2>1. turns' \in Seq(0..MaxInputs)
    BY <1>4, <1>9, BoundsAssumption DEF PumpClose, CLOSE
  <2>2. PumpTypes'
    BY <1>9 DEF PumpClose, TypeInv, PumpTypes
  <2> QED
    BY <1>3, <1>4, <1>9, <2>1, <2>2 DEF PumpClose
<1>10. ASSUME NEW from, NEW to, PumpStep(from, to), PumpTypes', turns' \in Seq(0..MaxInputs)
       PROVE  TypeInv'
  <2>1. inbound' \in Seq(Frames)
    BY <1>10 DEF PumpStep, TypeInv, ClientTypes
  <2>2. SharedTypes'
    BY <1>4, <1>10 DEF PumpStep, signalVars, TypeInv, SharedTypes
  <2> QED
    BY <1>2, <1>10, <2>1, <2>2 DEF PumpStep, TypeInv
<1>11. CASE Transcribed
  <2>1. PumpTypes'
    BY <1>11 DEF Transcribed, PumpStep, TypeInv, PumpTypes
  <2> QED
    BY <1>4, <1>10, <1>11, <2>1 DEF Transcribed
<1>12. CASE QueueUtterance
  <2>1. PumpTypes'
    BY <1>12, BoundsAssumption DEF QueueUtterance, PumpStep, TypeInv, PumpTypes
  <2>2. turns' \in Seq(0..MaxInputs)
    BY <1>4, <1>12 DEF QueueUtterance, TypeInv, PumpTypes
  <2> QED
    BY <1>10, <1>12, <2>1, <2>2 DEF QueueUtterance
<1>13. ASSUME NEW from \in {"transcribing", "showing"}, NEW to \in {"draining", "apologising"},
              DropUtterance(from, to)
       PROVE  TypeInv'
  <2>1. hearing \in Inputs
    BY <1>13 DEF DropUtterance, PumpStep, TypeInv, PumpTypes, Inputs
  <2>2. PumpTypes'
    BY <1>13, <2>1, BoundsAssumption DEF DropUtterance, PumpStep, TypeInv, PumpTypes
  <2> QED
    BY <1>4, <1>10, <1>13, <2>2 DEF DropUtterance
<1>14. CASE Apologised
  <2>1. hearing' = hearing /\ pump = "apologising" /\ pump' = "draining" /\ UNCHANGED <<voice, lost>>
    BY <1>14 DEF Apologised, PumpStep
  <2>2. PumpTypes'
    BY <2>1 DEF TypeInv, PumpTypes
  <2> QED
    BY <1>4, <1>10, <1>14, <2>2 DEF Apologised
<1>15. HeardNothing \/ AsrFails \/ ShowFails => TypeInv'
  BY <1>13 DEF HeardNothing, AsrFails, ShowFails
<1> QED
  BY <1>5, <1>6, <1>7, <1>8, <1>9, <1>11, <1>12, <1>14, <1>15 DEF PumpNext

\* What a step of the agent, of _speak or of the watcher leaves alone.
LEMMA OthersTypes ==
    ASSUME TypeInv, UNCHANGED <<clientVars, inbound>>, PumpTypes', SharedTypes',
           AgentTypes', SpeechTypes'
    PROVE  TypeInv'
<1>1. ClientTypes'
  BY DEF clientVars, TypeInv, ClientTypes
<1> QED
  BY <1>1 DEF TypeInv

\* _speak goes from one await to the next.
LEMMA SpeakerTypes == ASSUME TypeInv, SpeakerNext PROVE TypeInv'
<1> USE DEF clientVars, pumpVars, turnVars, signalVars, speechVars
<1>1. ASSUME NEW from, NEW to, SpeakerStep(from, to), pc' = pc, status' \in {status, "speaking"}
      PROVE  PumpTypes' /\ SharedTypes' /\ AgentTypes' /\ UNCHANGED <<clientVars, inbound>>
  <2>1. PumpTypes'
    BY <1>1 DEF SpeakerStep, TypeInv, PumpTypes
  <2>2. SharedTypes'
    BY <1>1 DEF SpeakerStep, TypeInv, SharedTypes
  <2>3. AgentTypes'
    BY <1>1 DEF SpeakerStep, TypeInv, AgentTypes, InTurn
  <2> QED
    BY <1>1, <2>1, <2>2, <2>3 DEF SpeakerStep
<1>2. CASE NothingToPlay
  <2>1. SpeechTypes'
    BY <1>2 DEF NothingToPlay, SpeakerStep, TypeInv, SpeechTypes
  <2> QED
    BY <1>1, <1>2, <2>1, OthersTypes DEF NothingToPlay
<1>3. CASE FirstAudio
  <2>1. SpeechTypes'
    BY <1>3 DEF FirstAudio, SpeakerStep, TypeInv, SpeechTypes
  <2> QED
    BY <1>1, <1>3, <2>1, OthersTypes DEF FirstAudio
<1>4. CASE MoreAudio
  <2>1. SpeechTypes'
    BY <1>4 DEF MoreAudio, SendAudio, SpeakerStep, TypeInv, SpeechTypes
  <2> QED
    BY <1>1, <1>4, <2>1, OthersTypes DEF MoreAudio
<1>5. CASE Announced
  <2>1. SpeechTypes'
    BY <1>5 DEF Announced, SendAudio, SpeakerStep, TypeInv, SpeechTypes
  <2> QED
    BY <1>1, <1>5, <2>1, OthersTypes DEF Announced
<1>6. CASE Played
  <2>1. SpeechTypes'
    BY <1>6 DEF Played, SpeakerStep, TypeInv, SpeechTypes
  <2> QED
    BY <1>1, <1>6, <2>1, OthersTypes DEF Played
<1> QED
  BY <1>2, <1>3, <1>4, <1>5, <1>6 DEF SpeakerNext

\* A step that moves only the agent, and what it reports.
LEMMA GoTypes ==
    ASSUME TypeInv, NEW from, NEW to, Go(from, to), turnActive' \in {turnActive, FALSE},
           status' \in {status, "thinking", "speaking", "listening", "idle"},
           Quiet \/ from \notin {"voicing", "confirming", "flushing"},
           from \notin {"waiting", "returned", "crashed"} \/ to = "returned",
           to \in {"preparing", "streaming", "mirroring", "recording", "completing",
                   "failing", "closing", "waiting", "dispatching"},
           to = "dispatching" => asked < MaxQuestions
    PROVE  TypeInv'
<1> USE DEF clientVars, pumpVars, turnVars, signalVars, speechVars
<1>1. PumpTypes'
  BY DEF Go, AgentStep, TypeInv, PumpTypes
<1>2. SharedTypes'
  BY DEF Go, AgentStep, TypeInv, SharedTypes
<1>3. AgentTypes'
  BY DEF Go, AgentStep, TypeInv, AgentTypes, InTurn
<1>4. speaker = "idle"
  BY DEF Go, AgentStep, Quiet, TypeInv, SpeechTypes
<1>5. SpeechTypes'
  BY <1>4 DEF Go, AgentStep, TypeInv, SpeechTypes
<1> QED
  BY <1>1, <1>2, <1>3, <1>5, OthersTypes DEF Go, AgentStep

\* A call of _speak keeps the types.
LEMMA SpeakTypes ==
    ASSUME NEW sentence \in SUBSET Inputs, Speak(sentence)
    PROVE  /\ chunk' \subseteq Inputs
           /\ speaker' \in {"idle", "synthesizing"}
           /\ (chunk' # {}) <=> (speaker' = "synthesizing")
BY DEF Speak

\* The buffer after a token.
LEMMA ExtendedTypes ==
    ASSUME TypeInv, turn \in Inputs, NEW shape \in TokenShapes
    PROVE  Extended(shape) \in [whole : Seq(SUBSET Inputs), tail : SUBSET Inputs]
<1> DEFINE mine == buf.tail \cup {turn}
           more == [i \in 1..(shape.ends - 1) |-> {turn}]
<1>1. buf.whole \in Seq(SUBSET Inputs) /\ buf.tail \in SUBSET Inputs
  BY DEF TypeInv, SpeechTypes
<1>2. shape.ends \in {0, 1, 2}
  <2>1. \/ shape = [ends |-> 0, rest |-> TRUE] \/ shape = [ends |-> 1, rest |-> FALSE]
        \/ shape = [ends |-> 1, rest |-> TRUE] \/ shape = [ends |-> 2, rest |-> FALSE]
    BY Zenon DEF TokenShapes
  <2> QED
    BY <2>1
<1>3. mine \in SUBSET Inputs /\ {turn} \in SUBSET Inputs
  BY <1>1
<1>4. more \in Seq(SUBSET Inputs)
  <2>1. shape.ends = 0 => 1..(shape.ends - 1) = 1..0
    <3>1. 1..(0 - 1) = {} /\ 1..0 = {}
      OBVIOUS
    <3> QED
      BY <3>1
  <2>2. \E n \in Nat : more \in [1..n -> SUBSET Inputs]
    <3>1. CASE shape.ends = 0
      BY <1>3, <2>1, <3>1
    <3>2. CASE shape.ends # 0
      BY <1>2, <1>3, <3>2
    <3> QED
      BY <3>1, <3>2
  <2> HIDE DEF more
  <2> QED
    BY <2>2
<1> DEFINE first == IF shape.ends = 0 THEN <<>> ELSE <<mine>> \o more
<1> HIDE DEF more, mine
<1>5. first \in Seq(SUBSET Inputs)
  <2>1. <<mine>> \in Seq(SUBSET Inputs) /\ <<>> \in Seq(SUBSET Inputs)
    BY <1>3
  <2>2. <<mine>> \o more \in Seq(SUBSET Inputs)
    BY <1>4, <2>1
  <2> QED
    BY <2>1, <2>2
<1> DEFINE tail == IF shape.ends = 0 THEN mine ELSE IF shape.rest THEN {turn} ELSE {}
<1>6. tail \in SUBSET Inputs
  BY <1>3
<1>7. Extended(shape) = [whole |-> buf.whole \o first, tail |-> tail]
  BY DEF Extended, mine, more
<1> HIDE DEF first, tail
<1> QED
  BY <1>1, <1>5, <1>6, <1>7

\* The agent takes an input, or the end of them.
LEMMA TakeTypes == ASSUME TypeInv, TakeTurn \/ TakeClose PROVE TypeInv'
<1> USE DEF clientVars, pumpVars, turnVars, signalVars, speechVars
<1>1. turns \in Seq(0..MaxInputs) /\ 0 \in 0..MaxTokens /\ 0 \in 0..(MaxInputs + 1)
  BY BoundsAssumption DEF TypeInv, SharedTypes
<1>2. PumpTypes' /\ UNCHANGED <<clientVars, inbound>>
  BY DEF TakeTurn, TakeClose, AgentStep, TypeInv, PumpTypes
<1>3. CASE TakeTurn
  <2>1. Head(turns) \in Inputs /\ turns' \in Seq(0..MaxInputs) /\ turn' = Head(turns)
    <3>1. /\ turns # <<>> /\ Head(turns) # 0
          /\ turn' = Head(turns) /\ turns' = Tail(turns)
      BY <1>3 DEF TakeTurn, NextTurn, CLOSE
    <3>2. Head(turns) \in 0..MaxInputs /\ Tail(turns) \in Seq(0..MaxInputs)
      BY <1>1, <3>1, HeadTailProperties
    <3> QED
      BY <3>1, <3>2, BoundsAssumption DEF Inputs
  <2>2. SharedTypes'
    BY <1>1, <1>3, <2>1 DEF TakeTurn, FreshSignal, AgentStep, TypeInv, SharedTypes
  <2>3. AgentTypes'
    <3>1. turn' \in 0..MaxInputs /\ turn' # 0
      BY <2>1, BoundsAssumption DEF Inputs
    <3>2. taken' = taken \cup {turn'} /\ tokens' = 0 /\ cancel' = FALSE /\ asked' = asked
          /\ pc' = "preparing" /\ status' = "thinking"
      BY <1>3 DEF TakeTurn, AgentStep
    <3>3. taken' \subseteq Inputs
      BY <2>1, <3>2 DEF TypeInv, AgentTypes
    <3> QED
      BY <1>1, <3>1, <3>2, <3>3 DEF TypeInv, AgentTypes, InTurn
  <2>4. buf' \in [whole : Seq(SUBSET Inputs), tail : SUBSET Inputs]
    BY <1>3 DEF TakeTurn, FreshSpeech, EmptyBuf
  <2>5. SpeechTypes'
    BY <1>3, <2>4 DEF TakeTurn, FreshSpeech, AgentStep, TypeInv, SpeechTypes
  <2> QED
    BY <1>2, <2>2, <2>3, <2>5, OthersTypes
<1>4. CASE TakeClose
  <2>1. turns' \in Seq(0..MaxInputs)
    BY <1>1, <1>4 DEF TakeClose
  <2>2. SharedTypes'
    BY <1>4, <2>1 DEF TakeClose, AgentStep, TypeInv, SharedTypes
  <2>3. AgentTypes'
    BY <1>4 DEF TakeClose, AgentStep, TypeInv, AgentTypes, InTurn
  <2>4. SpeechTypes'
    BY <1>4 DEF TakeClose, AgentStep, TypeInv, SpeechTypes
  <2> QED
    BY <1>2, <2>2, <2>3, <2>4, OthersTypes
<1> QED
  BY <1>3, <1>4

\* The agent, but for what it takes and where it only moves on.
LEMMA ReplyTypes ==
    ASSUME TypeInv,
           \/ Token \/ SpeakSentence \/ AskConfirm \/ SpeakQuestion \/ GateCancelled
           \/ Flush \/ SendRaises \/ \E shape \in TokenShapes : Buffer(shape)
    PROVE  TypeInv'
<1> USE DEF clientVars, pumpVars, turnVars, signalVars, speechVars
<1>1. ASSUME UNCHANGED <<clientVars, inbound, pumpVars, turns, signalVars, session>>,
             fut' \in {"unset", "ok", "no"}, AgentTypes', SpeechTypes'
      PROVE  TypeInv'
  <2>1. PumpTypes' /\ SharedTypes'
    BY <1>1 DEF TypeInv, PumpTypes, SharedTypes
  <2> QED
    BY <1>1, <2>1, OthersTypes
<1>2. fut \in {"unset", "ok", "no"}
  BY DEF TypeInv, SharedTypes
<1>3. CASE Token
  <2>1. AgentTypes'
    BY <1>3, BoundsAssumption DEF Token, AgentStep, TypeInv, AgentTypes, InTurn
  <2>2. SpeechTypes'
    BY <1>3 DEF Token, AgentStep, TypeInv, SpeechTypes
  <2> QED
    BY <1>1, <1>2, <1>3, <2>1, <2>2 DEF Token, AgentStep
<1>4. ASSUME NEW shape \in TokenShapes, Buffer(shape)
      PROVE  TypeInv'
  <2>1. turn \in Inputs
    BY <1>4 DEF Buffer, AgentStep, TypeInv, AgentTypes, InTurn, Inputs
  <2>2. buf' \in [whole : Seq(SUBSET Inputs), tail : SUBSET Inputs]
    BY <1>4, <2>1, ExtendedTypes DEF Buffer
  <2>3. AgentTypes'
    BY <1>4 DEF Buffer, AgentStep, TypeInv, AgentTypes, InTurn
  <2>4. SpeechTypes'
    BY <1>4, <2>2 DEF Buffer, AgentStep, TypeInv, SpeechTypes
  <2> QED
    BY <1>1, <1>2, <1>4, <2>3, <2>4 DEF Buffer, AgentStep
<1>5. CASE SpeakSentence
  <2>1. /\ buf.whole \in Seq(SUBSET Inputs) /\ buf.tail \in SUBSET Inputs
        /\ buf \in [whole : Seq(SUBSET Inputs), tail : SUBSET Inputs]
    BY DEF TypeInv, SpeechTypes
  <2>2. /\ Head(buf.whole) \in SUBSET Inputs /\ Tail(buf.whole) \in Seq(SUBSET Inputs)
        /\ Speak(Head(buf.whole)) /\ buf' = [buf EXCEPT !.whole = Tail(@)]
    BY <1>5, <2>1 DEF SpeakSentence
  <2>3. buf' \in [whole : Seq(SUBSET Inputs), tail : SUBSET Inputs]
    BY <2>1, <2>2
  <2>4. AgentTypes'
    BY <1>5 DEF SpeakSentence, AgentStep, TypeInv, AgentTypes, InTurn
  <2>5. SpeechTypes'
    BY <1>5, <2>2, <2>3, SpeakTypes DEF SpeakSentence, AgentStep, TypeInv, SpeechTypes
  <2> QED
    BY <1>1, <1>2, <1>5, <2>4, <2>5 DEF SpeakSentence, AgentStep
<1>6. CASE AskConfirm
  <2>1. AgentTypes'
    BY <1>6, BoundsAssumption DEF AskConfirm, AgentStep, TypeInv, AgentTypes, InTurn
  <2>2. SpeechTypes'
    BY <1>6 DEF AskConfirm, AgentStep, TypeInv, SpeechTypes
  <2> QED
    BY <1>1, <1>6, <2>1, <2>2 DEF AskConfirm, AgentStep
<1>7. CASE SpeakQuestion
  <2>1. {turn} \in SUBSET Inputs
    BY <1>7 DEF SpeakQuestion, TypeInv, AgentTypes, InTurn, Inputs
  <2>2. AgentTypes'
    BY <1>7 DEF SpeakQuestion, TypeInv, AgentTypes, InTurn
  <2>3. SpeechTypes'
    BY <1>7, <2>1, SpeakTypes DEF SpeakQuestion, TypeInv, SpeechTypes
  <2> QED
    BY <1>1, <1>2, <1>7, <2>2, <2>3 DEF SpeakQuestion
<1>8. CASE GateCancelled
  <2>1. AgentTypes'
    BY <1>8 DEF GateCancelled, GateEnds, Listening, TypeInv, AgentTypes, InTurn
  <2>2. SpeechTypes'
    BY <1>8 DEF GateCancelled, GateEnds, Listening, TypeInv, SpeechTypes
  <2>3. PumpTypes' /\ SharedTypes'
    BY <1>8 DEF GateCancelled, Listening, TypeInv, PumpTypes, SharedTypes
  <2> QED
    BY <1>8, <2>1, <2>2, <2>3, OthersTypes DEF GateCancelled
<1>9. CASE Flush
  <2>1. /\ buf.tail \in SUBSET Inputs /\ {} \in SUBSET Inputs
        /\ buf \in [whole : Seq(SUBSET Inputs), tail : SUBSET Inputs]
    BY DEF TypeInv, SpeechTypes
  <2>2. buf' \in [whole : Seq(SUBSET Inputs), tail : SUBSET Inputs]
    BY <1>9, <2>1 DEF Flush
  <2>3. AgentTypes'
    BY <1>9 DEF Flush, AgentStep, TypeInv, AgentTypes, InTurn
  <2>4. SpeechTypes'
    BY <1>9, <2>1, <2>2, SpeakTypes DEF Flush, AgentStep, TypeInv, SpeechTypes
  <2> QED
    BY <1>1, <1>2, <1>9, <2>3, <2>4 DEF Flush, AgentStep
<1>10. CASE SendRaises
  <2>1. AgentTypes'
    BY <1>10 DEF SendRaises, TypeInv, AgentTypes, InTurn
  <2>2. SpeechTypes'
    BY <1>10 DEF SendRaises, TypeInv, SpeechTypes
  <2>3. PumpTypes'
    BY <1>10 DEF SendRaises, TypeInv, PumpTypes
  <2>4. SharedTypes'
    BY <1>10 DEF SendRaises, TypeInv, SharedTypes
  <2> QED
    BY <1>10, <2>1, <2>2, <2>3, <2>4, OthersTypes DEF SendRaises
<1> QED
  BY <1>3, <1>4, <1>5, <1>6, <1>7, <1>8, <1>9, <1>10

LEMMA AgentStepTypes == ASSUME TypeInv, AgentNext PROVE TypeInv'
<1>1. status \in {"none", "thinking", "speaking", "listening", "idle"}
  BY DEF TypeInv, AgentTypes
<1>2. CASE \/ TakeTurn \/ TakeClose \/ Token \/ SpeakSentence \/ AskConfirm \/ SpeakQuestion
           \/ GateCancelled \/ Flush \/ SendRaises
           \/ \E shape \in TokenShapes : Buffer(shape)
  BY <1>2, TakeTypes, ReplyTypes
<1>3. CASE Prepare \/ SentencesSpoken \/ ReplyAsks \/ Answered
  BY <1>3, GoTypes DEF Prepare, SentencesSpoken, ReplyAsks, Answered
<1>4. CASE TurnCancelled \/ TurnFailed \/ TurnIdle
  BY <1>4, GoTypes DEF TurnCancelled, Listening, TurnFailed, TurnIdle
<1>5. CASE TurnRaises
  BY <1>5, GoTypes DEF TurnRaises
<1>6. CASE ReplyEnds \/ TurnComplete \/ TurnOver
  BY <1>6, GoTypes DEF ReplyEnds, TurnComplete, TurnOver
<1> QED
  BY <1>2, <1>3, <1>4, <1>5, <1>6 DEF AgentNext

LEMMA TypeStep == TypeInv /\ [Next]_vars => TypeInv'
<1> SUFFICES ASSUME TypeInv, [Next]_vars
             PROVE  TypeInv'
  OBVIOUS
<1> USE DEF clientVars, pumpVars, turnVars, signalVars, speechVars
<1>1. ASSUME UNCHANGED <<clientVars, inbound, pumpVars, turns, signalVars, fut, pc, turn,
                         tokens, taken, asked, buf, speechVars, status>>,
             cancel' \in BOOLEAN, session' \in {"running", "closed"}
      PROVE  TypeInv'
  <2>1. PumpTypes' /\ SharedTypes'
    BY <1>1 DEF TypeInv, PumpTypes, SharedTypes
  <2>2. AgentTypes'
    BY <1>1 DEF TypeInv, AgentTypes, InTurn
  <2>3. SpeechTypes'
    BY <1>1 DEF TypeInv, SpeechTypes
  <2> QED
    BY <1>1, <2>1, <2>2, <2>3, OthersTypes
<1>2. cancel \in BOOLEAN /\ session \in {"running", "closed"}
  BY DEF TypeInv, AgentTypes, SharedTypes
<1>3. CASE WatcherFires
  BY <1>1, <1>2, <1>3 DEF WatcherFires
<1>4. CASE Close
  BY <1>1, <1>2, <1>4 DEF Close
<1>5. CASE UNCHANGED vars
  BY <1>1, <1>2, <1>5 DEF vars
<1> QED
  BY <1>3, <1>4, <1>5, ClientStep, PumpStepTypes, SpeakerTypes, AgentStepTypes DEF Next

\* The types hold for any number of inputs, hints, tokens and questions; _speak runs only
\* within a token, a question or the flush of a turn, and the ASR only on an utterance
\* (pipeline.py).
THEOREM TypeCorrect == Spec => []TypeOK
<1>1. Init => TypeInv
  BY TypeInit
<1>2. TypeInv /\ [Next]_vars => TypeInv'
  BY TypeStep
<1>3. TypeInv => TypeOK
  BY TypeInvImpliesTypeOK
<1> QED
  BY <1>1, <1>2, <1>3, PTL DEF Spec

----------------------------------------------------------------------------
(* Speech *)

\* The sentence buffer and what is spoken are of the turn; a frame that is sent after the
\* interruption is the last.
SpeechInv ==
    /\ chunk \subseteq {turn} /\ buf.tail \subseteq {turn}
    /\ \A i \in DOMAIN buf.whole : buf.whole[i] \subseteq {turn}
    /\ late <= 1
    /\ late # 0 => bargeIn
    /\ speaker = "announcing" => late = 0

LEMMA SpeechInit == Init => SpeechInv
<1> SUFFICES ASSUME Init
             PROVE  SpeechInv
  OBVIOUS
<1>1. buf.tail = {} /\ buf.whole = <<>>
  BY DEF Init, EmptyBuf
<1>2. DOMAIN buf.whole = {}
  BY <1>1
<1> QED
  BY <1>1, <1>2 DEF Init, SpeechInv

\* Neither the turn nor the buffer changes, and an interruption stays.
LEMMA SpokenSame ==
    ASSUME TypeInv, SpeechInv, UNCHANGED <<turn, buf>>, bargeIn => bargeIn',
           chunk' \in {chunk, {}, {turn}},
           \/ late' = late /\ (speaker' = "announcing" => speaker = "announcing" \/ ~bargeIn)
           \/ /\ speaker' # "announcing"
              /\ late' = IF bargeIn THEN late + 1 ELSE late
              /\ ~bargeIn \/ late = 0
    PROVE  SpeechInv'
BY DEF SpeechInv, TypeInv, SpeechTypes

\* One call of _speak.
LEMMA SpokenOne ==
    ASSUME TypeInv, SpeechInv, UNCHANGED <<turn, late, bargeIn>>, buf'.tail \subseteq buf.tail,
           \A i \in DOMAIN buf'.whole : \E j \in DOMAIN buf.whole : buf'.whole[i] = buf.whole[j],
           NEW sentence, sentence \subseteq {turn}, Speak(sentence)
    PROVE  SpeechInv'
BY DEF SpeechInv, Speak

\* A token adds text of the turn.
LEMMA ExtendedOwn ==
    ASSUME TypeInv, SpeechInv, turn \in Inputs, NEW shape \in TokenShapes
    PROVE  /\ Extended(shape).tail \subseteq {turn}
           /\ \A i \in DOMAIN Extended(shape).whole : Extended(shape).whole[i] \subseteq {turn}
<1> DEFINE mine == buf.tail \cup {turn}
           more == [i \in 1..(shape.ends - 1) |-> {turn}]
           first == IF shape.ends = 0 THEN <<>> ELSE <<mine>> \o more
<1>1. buf.whole \in Seq(SUBSET {turn}) /\ mine \in SUBSET {turn} /\ mine \subseteq {turn}
  <2>1. buf.whole \in Seq(SUBSET Inputs)
    BY DEF TypeInv, SpeechTypes
  <2>2. \A i \in DOMAIN buf.whole : buf.whole[i] \in SUBSET {turn}
    BY DEF SpeechInv
  <2>3. buf.tail \subseteq {turn}
    BY DEF SpeechInv
  <2> QED
    BY <2>1, <2>2, <2>3
<1>2. shape.ends \in {0, 1, 2}
  <2>1. \/ shape = [ends |-> 0, rest |-> TRUE] \/ shape = [ends |-> 1, rest |-> FALSE]
        \/ shape = [ends |-> 1, rest |-> TRUE] \/ shape = [ends |-> 2, rest |-> FALSE]
    BY Zenon DEF TokenShapes
  <2> QED
    BY <2>1
<1>3. shape.ends # 0 => more \in Seq(SUBSET {turn})
  <2> SUFFICES ASSUME shape.ends # 0
               PROVE  more \in Seq(SUBSET {turn})
    OBVIOUS
  <2>1. shape.ends - 1 \in Nat
    BY <1>2
  <2>2. more \in [1..(shape.ends - 1) -> SUBSET {turn}]
    OBVIOUS
  <2> HIDE DEF more
  <2> QED
    BY <2>1, <2>2
<1> HIDE DEF more, mine
<1>4. first \in Seq(SUBSET {turn})
  <2>1. <<mine>> \in Seq(SUBSET {turn}) /\ <<>> \in Seq(SUBSET {turn})
    BY <1>1
  <2>2. shape.ends # 0 => <<mine>> \o more \in Seq(SUBSET {turn})
    BY <1>3, <2>1
  <2> QED
    BY <2>1, <2>2
<1> HIDE DEF first
<1>5. buf.whole \o first \in Seq(SUBSET {turn})
  BY <1>1, <1>4
<1>6. /\ Extended(shape).whole = buf.whole \o first
      /\ Extended(shape).tail \in {mine, {turn}, {}}
  BY DEF Extended, mine, more, first
<1> DEFINE whole == Extended(shape).whole
<1>7. whole \in Seq(SUBSET {turn})
  BY <1>5, <1>6
<1> HIDE DEF whole
<1>8. \A i \in DOMAIN whole : whole[i] \in SUBSET {turn}
  BY <1>7
<1> QED
  BY <1>1, <1>6, <1>8 DEF whole

LEMMA SpeechStep == TypeInv /\ SpeechInv /\ [Next]_vars => SpeechInv'
<1> SUFFICES ASSUME TypeInv, SpeechInv, [Next]_vars
             PROVE  SpeechInv'
  OBVIOUS
<1> USE DEF clientVars, pumpVars, turnVars, signalVars, speechVars
<1>1. ASSUME UNCHANGED <<turn, buf, chunk, late, speaker>>, bargeIn => bargeIn'
      PROVE  SpeechInv'
  BY <1>1, SpokenSame
<1>2. CASE ClientNext
  BY <1>1, <1>2 DEF ClientNext, ReceiveAudio, ReceiveText, ReceiveBargeIn, ReceiveConfirm,
     Receive, Disconnect
<1>3. CASE PumpNext
  <2>1. bargeIn => bargeIn'
    BY <1>3 DEF PumpNext, PumpAudio, PumpText, PumpConfirm, PumpBargeIn, PumpClose, SetBargeIn,
       PumpStep, Transcribed, QueueUtterance, HeardNothing, AsrFails, Apologised, ShowFails,
       DropUtterance
  <2>2. UNCHANGED <<turn, buf, chunk, late, speaker>>
    BY <1>3 DEF PumpNext, PumpAudio, PumpText, PumpConfirm, PumpBargeIn, PumpClose, Pump,
       PumpStep, Transcribed, QueueUtterance, HeardNothing, AsrFails, Apologised, ShowFails,
       DropUtterance
  <2> QED
    BY <1>1, <2>1, <2>2
<1>4. CASE SpeakerNext
  <2>1. UNCHANGED <<turn, bargeIn>>
    BY <1>4 DEF SpeakerNext, NothingToPlay, FirstAudio, MoreAudio, Announced, Played, SpeakerStep
  <2>2. CASE NothingToPlay \/ Played
    BY <2>1, <2>2, SpokenSame DEF NothingToPlay, Played, SpeakerStep
  <2>3. CASE FirstAudio
    BY <2>1, <2>3, SpokenSame DEF FirstAudio, Interrupted
  <2>4. CASE MoreAudio
    BY <2>1, <2>4, SpokenSame DEF MoreAudio, SendAudio, SpeakerStep, Interrupted
  <2>5. CASE Announced
    <3>1. late = 0
      BY <2>5 DEF Announced, SpeakerStep, SpeechInv
    <3> QED
      BY <2>1, <2>5, <3>1, SpokenSame DEF Announced, SendAudio, SpeakerStep
  <2> QED
    BY <1>4, <2>2, <2>3, <2>4, <2>5 DEF SpeakerNext
<1>5. CASE TakeTurn
  <2>1. buf' = [whole |-> <<>>, tail |-> {}] /\ late' = 0 /\ chunk' = chunk /\ speaker' = speaker
        /\ pc = "waiting"
    BY <1>5 DEF TakeTurn, FreshSpeech, EmptyBuf, AgentStep
  <2>2. chunk = {}
    BY <2>1 DEF TypeInv, SpeechTypes
  <2>3. DOMAIN buf'.whole = {} /\ buf'.tail = {}
    BY <2>1
  <2> QED
    BY <2>1, <2>2, <2>3 DEF SpeechInv
<1>6. ASSUME NEW shape \in TokenShapes, Buffer(shape)
      PROVE  SpeechInv'
  <2>1. turn \in Inputs
    BY <1>6 DEF Buffer, AgentStep, TypeInv, AgentTypes, InTurn, Inputs
  <2>2. buf' = Extended(shape) /\ UNCHANGED <<turn, chunk, late, speaker, bargeIn>>
    BY <1>6 DEF Buffer
  <2> QED
    BY <2>1, <2>2, ExtendedOwn DEF SpeechInv
<1>7. CASE SpeakSentence
  <2>1. /\ buf.whole \in Seq(SUBSET Inputs) /\ buf.whole # <<>>
        /\ buf \in [whole : Seq(SUBSET Inputs), tail : SUBSET Inputs]
    BY <1>7 DEF SpeakSentence, TypeInv, SpeechTypes
  <2>2. /\ Speak(Head(buf.whole)) /\ buf' = [buf EXCEPT !.whole = Tail(@)]
        /\ UNCHANGED <<turn, late, bargeIn>>
    BY <1>7 DEF SpeakSentence
  <2> DEFINE w == buf.whole
  <2>3. buf'.whole = Tail(w) /\ buf'.tail = buf.tail
    BY <2>1, <2>2
  <2>4. w \in Seq(SUBSET Inputs) /\ w # <<>>
    BY <2>1
  <2> HIDE DEF w
  <2>5. /\ \A i \in DOMAIN Tail(w) : i + 1 \in DOMAIN w /\ Tail(w)[i] = w[i + 1]
        /\ 1 \in DOMAIN w /\ Head(w) = w[1]
    BY <2>4
  <2>6. Head(w) \subseteq {turn}
    BY <2>5 DEF w, SpeechInv
  <2>7. \A i \in DOMAIN buf'.whole : \E j \in DOMAIN buf.whole : buf'.whole[i] = buf.whole[j]
    BY <2>3, <2>5 DEF w
  <2>8. Speak(Head(w)) /\ buf'.tail \subseteq buf.tail
    BY <2>2, <2>3 DEF w
  <2> QED
    BY <2>2, <2>6, <2>7, <2>8, SpokenOne
<1>8. CASE SpeakQuestion
  BY <1>8, SpokenOne DEF SpeakQuestion
<1>9. CASE Flush
  <2>1. buf \in [whole : Seq(SUBSET Inputs), tail : SUBSET Inputs]
    BY DEF TypeInv, SpeechTypes
  <2>2. buf'.whole = buf.whole /\ buf'.tail = {} /\ Speak(buf.tail)
        /\ UNCHANGED <<turn, late, bargeIn>>
    BY <1>9, <2>1 DEF Flush
  <2>3. buf.tail \subseteq {turn}
    BY DEF SpeechInv
  <2> QED
    BY <2>2, <2>3, SpokenOne
<1>10. CASE AskConfirm \/ GateCancelled \/ SendRaises
  BY <1>10, SpokenSame DEF AskConfirm, GateCancelled, GateEnds, SendRaises
<1>11. CASE \/ TakeClose \/ Prepare \/ Token \/ SentencesSpoken \/ ReplyAsks \/ Answered
            \/ TurnCancelled \/ TurnRaises \/ TurnFailed \/ ReplyEnds \/ TurnComplete
            \/ TurnIdle \/ TurnOver
  BY <1>1, <1>11 DEF TakeClose, Prepare, Token, SentencesSpoken, ReplyAsks, Answered,
     TurnCancelled, TurnRaises, TurnFailed, ReplyEnds, TurnComplete, TurnIdle, TurnOver, Go
<1>12. CASE WatcherFires \/ Close \/ UNCHANGED vars
  BY <1>1, <1>12 DEF WatcherFires, Close, vars
<1> QED
  BY <1>2, <1>3, <1>4, <1>5, <1>6, <1>7, <1>8, <1>9, <1>10, <1>11, <1>12 DEF Next, AgentNext

\* What is synthesized and played is text of the turn's own reply, whatever an interrupted
\* or failed turn left in the sentence buffer (user_turns, emit).
THEOREM OwnReplyOnly == Spec => []SpeaksOwnReply
<1>1. Init => TypeInv /\ SpeechInv
  BY TypeInit, SpeechInit
<1>2. TypeInv /\ SpeechInv /\ [Next]_vars => (TypeInv /\ SpeechInv)'
  BY TypeStep, SpeechStep
<1>3. SpeechInv => SpeaksOwnReply
  BY DEF SpeechInv, SpeaksOwnReply
<1> QED
  BY <1>1, <1>2, <1>3, PTL DEF Spec

\* After an interruption at most the frame goes out that was ready when it came (_speak).
THEOREM SilentAtOnce == Spec => []FallsSilent
<1>1. Init => TypeInv /\ SpeechInv
  BY TypeInit, SpeechInit
<1>2. TypeInv /\ SpeechInv /\ [Next]_vars => (TypeInv /\ SpeechInv)'
  BY TypeStep, SpeechStep
<1>3. SpeechInv => FallsSilent
  BY DEF SpeechInv, FallsSilent
<1> QED
  BY <1>1, <1>2, <1>3, PTL DEF Spec

----------------------------------------------------------------------------
(* Order *)

\* A frame that may interrupt, the first input it may be part of, the input it completes.
Marks(f) == f.type \in {"audio", "text", "barge_in"}
After(f) == IF f.type = "text" THEN f.k ELSE f.before + 1
Num(f) == IF f.type = "text" THEN f.k ELSE IF f.type = "audio" THEN f.ends ELSE 0

\* Every frame on its way that may interrupt was sent after input k.
Ahead(k) == \A i \in DOMAIN inbound : Marks(inbound[i]) => k < After(inbound[i])

\* Frames on their way are in the order of the inputs.
WireOrder ==
    /\ \A i \in DOMAIN inbound :
         Num(inbound[i]) <= said /\ (Num(inbound[i]) # 0 => Num(inbound[i]) = After(inbound[i]))
    /\ \A i, j \in DOMAIN inbound :
         i < j /\ Marks(inbound[j]) => Num(inbound[i]) < After(inbound[j])

\* So are what the ASR has and the turns that wait, and all of it is before the wire.
QueueOrder ==
    /\ turn <= said /\ Ahead(turn)
    /\ hearing <= said /\ Ahead(hearing)
    /\ \A t \in DOMAIN turns : /\ turns[t] <= said /\ Ahead(turns[t])
                               /\ hearing # 0 => turns[t] < hearing
    /\ \A s, t \in DOMAIN turns : s < t /\ turns[t] # 0 => turns[s] < turns[t]

\* Nothing is lost on the way.
Placed ==
    \A k \in 1..said :
      \/ k \in taken \cup lost
      \/ k = hearing
      \/ \E t \in DOMAIN turns : turns[t] = k
      \/ \E i \in DOMAIN inbound : Num(inbound[i]) = k

OrderInv ==
    /\ WireOrder /\ QueueOrder /\ Placed /\ InputsInOrder
    /\ bargeIn => cause > turn

LEMMA FrameNums ==
    ASSUME NEW f \in Frames
    PROVE  /\ Num(f) \in Nat
           /\ Num(f) # 0 => Marks(f)
           /\ Marks(f) => After(f) \in Nat \ {0}
<1>1. CASE f.type \in {"audio", "text", "barge_in"}
  BY <1>1, BoundsAssumption DEF Frames, Num, Marks, After
<1>2. CASE f.type \notin {"audio", "text", "barge_in"}
  BY <1>2 DEF Num, Marks
<1> QED
  BY <1>1, <1>2

LEMMA OrderInit == Init => OrderInv
<1> SUFFICES ASSUME Init
             PROVE  OrderInv
  OBVIOUS
<1>1. DOMAIN inbound = {} /\ DOMAIN turns = {} /\ 1..said = {}
  BY DEF Init
<1> QED
  BY <1>1 DEF Init, OrderInv, WireOrder, QueueOrder, Ahead, Placed, InputsInOrder

\* The client sends a frame.
LEMMA OrderSent ==
    ASSUME TypeInv, OrderInv, NEW f \in Frames, inbound' = Append(inbound, f),
           UNCHANGED <<hearing, turns, turn, taken, lost, bargeIn, cause>>,
           \/ said' = said /\ Num(f) = 0 /\ (Marks(f) => After(f) = said + 1)
           \/ said' = said + 1 /\ Num(f) = said + 1 /\ After(f) = said + 1
    PROVE  OrderInv'
<1> DEFINE n == Len(inbound)
<1>1. said \in Nat /\ inbound \in Seq(Frames) /\ turns \in Seq(0..MaxInputs) /\ turn \in Nat
      /\ hearing \in Nat
  BY DEF TypeInv, ClientTypes, SharedTypes, AgentTypes, PumpTypes
<1>2. /\ n \in Nat /\ DOMAIN inbound = 1..n /\ DOMAIN inbound' = 1..(n + 1)
      /\ inbound'[n + 1] = f /\ \A i \in 1..n : inbound'[i] = inbound[i] /\ inbound[i] \in Frames
  BY <1>1
<1>3. \A i \in 1..(n + 1) : i = n + 1 \/ i \in 1..n
  BY <1>2
<1>4. \A i \in 1..n : n + 1 > i
  BY <1>2
<1> HIDE DEF n
<1>5. \A i \in 1..n : Num(inbound[i]) \in Nat
  BY <1>2, FrameNums
<1>6. said' \in Nat /\ said <= said'
  BY <1>1
<1>7. WireOrder'
  <2>1. \A i \in DOMAIN inbound' :
          /\ Num(inbound'[i]) <= said'
          /\ Num(inbound'[i]) # 0 => Num(inbound'[i]) = After(inbound'[i])
    BY <1>1, <1>2, <1>3, <1>5, <1>6 DEF OrderInv, WireOrder
  <2>2. \A i \in 1..n : Marks(f) => Num(inbound[i]) < After(f)
    BY <1>1, <1>2, <1>5 DEF OrderInv, WireOrder
  <2>3. \A i, j \in DOMAIN inbound' :
          i < j /\ Marks(inbound'[j]) => Num(inbound'[i]) < After(inbound'[j])
    <3> TAKE i, j \in DOMAIN inbound'
    <3>1. CASE j = n + 1
      BY <1>2, <1>3, <2>2, <3>1
    <3>2. CASE j # n + 1 /\ i \in 1..n
      BY <1>2, <1>3, <3>2 DEF OrderInv, WireOrder
    <3>3. CASE j # n + 1 /\ i = n + 1
      BY <1>2, <1>3, <1>4, <3>3
    <3> QED
      BY <1>2, <1>3, <3>1, <3>2, <3>3
  <2> QED
    BY <2>1, <2>3 DEF WireOrder
<1>8. ASSUME NEW k \in Nat, k <= said, Ahead(k)
      PROVE  Ahead(k)'
  <2>1. Marks(f) => k < After(f)
    BY <1>1, <1>8
  <2> QED
    BY <1>2, <1>3, <1>8, <2>1 DEF Ahead
<1>9. QueueOrder'
  <2>1. \A t \in DOMAIN turns : turns[t] \in Nat
    <3>1. \A t \in 1..Len(turns) : turns[t] \in 0..MaxInputs
      BY <1>1, ElementOfSeq
    <3>2. DOMAIN turns = 1..Len(turns)
      BY <1>1
    <3> QED
      BY <3>1, <3>2
  <2>2. turn' <= said' /\ Ahead(turn)' /\ hearing' <= said' /\ Ahead(hearing)'
    BY <1>1, <1>6, <1>8 DEF OrderInv, QueueOrder
  <2>3. \A t \in DOMAIN turns : turns[t] <= said' /\ Ahead(turns[t])'
    BY <1>1, <1>6, <1>8, <2>1 DEF OrderInv, QueueOrder
  <2> QED
    BY <2>2, <2>3 DEF OrderInv, QueueOrder
<1>10. Placed'
  <2>1. \A k \in 1..said' : k \in 1..said \/ (k = said + 1 /\ Num(f) = k)
    BY <1>1
  <2> QED
    BY <1>2, <2>1 DEF OrderInv, Placed
<1> QED
  BY <1>7, <1>9, <1>10 DEF OrderInv, InputsInOrder

\* The frames that are left once the pump has taken one.
LEMMA WirePopped ==
    ASSUME TypeInv, OrderInv, inbound # <<>>, inbound' = Tail(inbound), UNCHANGED said
    PROVE  /\ Head(inbound) \in Frames
           /\ WireOrder'
           /\ \A k : Ahead(k) => Ahead(k)'
           /\ \A k : k = Num(Head(inbound)) => Ahead(k)'
           /\ Num(Head(inbound)) <= said
           /\ Num(Head(inbound)) # 0 => Num(Head(inbound)) = After(Head(inbound))
           /\ \A k : Ahead(k) /\ Marks(Head(inbound)) => k < After(Head(inbound))
           /\ \A k : (\E i \in DOMAIN inbound : Num(inbound[i]) = k)
                       => \/ Num(Head(inbound)) = k
                          \/ \E i \in DOMAIN inbound' : Num(inbound'[i]) = k
<1>1. inbound \in Seq(Frames)
  BY DEF TypeInv, ClientTypes
<1>2. /\ Head(inbound) \in Frames /\ Head(inbound) = inbound[1] /\ 1 \in DOMAIN inbound
      /\ \A i \in DOMAIN inbound' : /\ i + 1 \in DOMAIN inbound /\ i \in Nat /\ 1 < i + 1
                                    /\ inbound'[i] = inbound[i + 1]
      /\ \A i \in DOMAIN inbound : i # 1 =>
           i - 1 \in DOMAIN inbound' /\ inbound'[i - 1] = inbound[i]
  BY <1>1
<1>3. WireOrder'
  <2>1. \A i, j \in DOMAIN inbound' : i < j => i + 1 < j + 1
    BY <1>2
  <2> QED
    BY <1>2, <2>1 DEF OrderInv, WireOrder
<1>4. ASSUME NEW k, k = Num(Head(inbound))
      PROVE  Ahead(k)'
  <2>1. \A j \in DOMAIN inbound : 1 < j /\ Marks(inbound[j]) => Num(inbound[1]) < After(inbound[j])
    BY <1>2 DEF OrderInv, WireOrder
  <2> SUFFICES ASSUME NEW i \in DOMAIN inbound', Marks(inbound'[i])
               PROVE  k < After(inbound'[i])
    BY DEF Ahead
  <2> QED
    BY <1>2, <1>4, <2>1
<1>5. \A k : Ahead(k) => Ahead(k)'
  BY <1>2 DEF Ahead
<1> QED
  BY <1>2, <1>3, <1>4, <1>5 DEF OrderInv, WireOrder, Ahead

\* The queue of turns as a function on 1..Len.
LEMMA TurnsShape ==
    ASSUME TypeInv
    PROVE  /\ Len(turns) \in Nat /\ DOMAIN turns = 1..Len(turns)
           /\ \A t \in DOMAIN turns : turns[t] \in Nat
           /\ said \in Nat /\ hearing \in Nat /\ turn \in Nat
<1>1. turns \in Seq(0..MaxInputs)
  BY DEF TypeInv, SharedTypes
<1>2. Len(turns) \in Nat /\ DOMAIN turns = 1..Len(turns)
  BY <1>1
<1>3. \A t \in 1..Len(turns) : turns[t] \in 0..MaxInputs
  BY <1>1, ElementOfSeq
<1> QED
  BY <1>2, <1>3 DEF TypeInv, ClientTypes, PumpTypes, AgentTypes

\* Every frame on its way was sent after nothing.
LEMMA AheadOfNone == TypeInv => Ahead(0)
<1> SUFFICES ASSUME TypeInv, NEW i \in DOMAIN inbound, Marks(inbound[i])
             PROVE  0 < After(inbound[i])
  BY DEF Ahead
<1>1. inbound \in Seq(Frames)
  BY DEF TypeInv, ClientTypes
<1>2. inbound[i] \in Frames
  BY <1>1
<1> QED
  BY <1>2, FrameNums

\* An input, or the sentinel, is put behind the turns that wait.
LEMMA TurnQueued ==
    ASSUME TypeInv, TypeInv', OrderInv, NEW x \in Nat, turns' = Append(turns, x), hearing' = 0,
           UNCHANGED <<turn, said>>, x <= said, Ahead(x)',
           \A k : Ahead(k) => Ahead(k)',
           x # 0 => \A t \in DOMAIN turns : turns[t] < x
    PROVE  /\ QueueOrder'
           /\ \E t \in DOMAIN turns' : turns'[t] = x
           /\ \A k : (\E t \in DOMAIN turns : turns[t] = k) =>
                        \E t \in DOMAIN turns' : turns'[t] = k
<1> DEFINE n == Len(turns)
<1>1. turns \in Seq(0..MaxInputs)
  BY DEF TypeInv, SharedTypes
<1>2. /\ n \in Nat /\ DOMAIN turns = 1..n /\ DOMAIN turns' = 1..(n + 1)
      /\ turns'[n + 1] = x /\ \A t \in 1..n : turns'[t] = turns[t]
  BY <1>1
<1>3. \A t \in 1..(n + 1) : t = n + 1 \/ t \in 1..n
  BY <1>2
<1>4. \A t \in 1..n : ~(n + 1 < t)
  BY <1>2
<1>5. n + 1 \in 1..(n + 1) /\ 1..n \subseteq 1..(n + 1) /\ ~(n + 1 < n + 1)
  BY <1>2
<1> HIDE DEF n
<1>6. turn' <= said' /\ Ahead(turn)' /\ hearing' <= said' /\ Ahead(hearing)'
  <2>1. said \in Nat /\ Ahead(0)'
    BY AheadOfNone, TurnsShape
  <2> QED
    BY <2>1 DEF OrderInv, QueueOrder
<1>7. \A t \in DOMAIN turns' : turns'[t] <= said' /\ Ahead(turns[t])'
  <2>1. \A k : Ahead(k)' <=> \A i \in DOMAIN inbound' : Marks(inbound'[i]) => k < After(inbound'[i])
    BY DEF Ahead
  <2> SUFFICES ASSUME NEW t \in DOMAIN turns'
               PROVE  /\ turns'[t] <= said'
                      /\ \A i \in DOMAIN inbound' : Marks(inbound'[i]) => turns'[t] < After(inbound'[i])
    BY DEF Ahead
  <2>2. CASE t = n + 1
    BY <1>2, <2>1, <2>2
  <2>3. CASE t \in 1..n
    <3>1. turns[t] <= said /\ Ahead(turns[t])
      BY <1>2, <2>3 DEF OrderInv, QueueOrder
    <3>2. turns'[t] = turns[t]
      BY <1>2, <2>3
    <3> DEFINE k == turns[t]
    <3>3. Ahead(k)
      BY <3>1
    <3> HIDE DEF k
    <3>4. \A i \in DOMAIN inbound' : Marks(inbound'[i]) => k < After(inbound'[i])
      BY <2>1, <3>3
    <3> QED
      BY <3>1, <3>2, <3>4 DEF k
  <2> QED
    BY <1>2, <1>3, <2>2, <2>3
<1>8. \A s, t \in DOMAIN turns' : s < t /\ turns'[t] # 0 => turns'[s] < turns'[t]
  <2> TAKE s, t \in DOMAIN turns'
  <2>1. CASE t = n + 1
    BY <1>2, <1>3, <1>5, <2>1
  <2>2. CASE t \in 1..n
    BY <1>2, <1>3, <1>4, <2>2 DEF OrderInv, QueueOrder
  <2> QED
    BY <1>2, <1>3, <2>1, <2>2
<1>9. QueueOrder'
  BY <1>6, <1>7, <1>8 DEF QueueOrder
<1> QED
  BY <1>2, <1>5, <1>9

\* The pump takes a frame off the wire.
LEMMA PumpOrder ==
    ASSUME TypeInv, TypeInv', OrderInv,
           PumpAudio \/ PumpText \/ PumpConfirm \/ PumpBargeIn \/ PumpClose
    PROVE  OrderInv'
<1> DEFINE f == Head(inbound)
<1>1. /\ inbound # <<>> /\ inbound' = Tail(inbound) /\ UNCHANGED <<said, turn, taken, lost>>
      /\ pump = "draining"
  BY DEF PumpAudio, PumpText, PumpConfirm, PumpBargeIn, PumpClose, Pump, clientVars, turnVars,
     pumpVars
<1>2. /\ f \in Frames /\ WireOrder' /\ \A k : Ahead(k) => Ahead(k)'
      /\ \A k : k = Num(f) => Ahead(k)'
      /\ Num(f) <= said /\ (Num(f) # 0 => Num(f) = After(f))
      /\ \A k : Ahead(k) /\ Marks(f) => k < After(f)
  BY <1>1, WirePopped
<1>3. \A k : (\E i \in DOMAIN inbound : Num(inbound[i]) = k)
               => Num(f) = k \/ \E i \in DOMAIN inbound' : Num(inbound'[i]) = k
  BY <1>1, WirePopped
<1>4. Num(f) \in Nat /\ (Num(f) # 0 => Marks(f)) /\ (Marks(f) => After(f) \in Nat \ {0})
  BY <1>2, FrameNums
<1>5. hearing = 0 /\ Ahead(turn) /\ \A t \in DOMAIN turns : Ahead(turns[t])
  BY <1>1 DEF TypeInv, PumpTypes, OrderInv, QueueOrder
<1>6. \A t \in DOMAIN turns : Marks(f) => turns[t] < After(f)
  BY <1>2, <1>5
<1>8. InputsInOrder'
  BY <1>1 DEF OrderInv, InputsInOrder
<1>9. ASSUME UNCHANGED <<turns, hearing>>, Num(f) = 0
      PROVE  QueueOrder' /\ Placed'
  <2>1. Ahead(turn)' /\ Ahead(hearing)' /\ \A t \in DOMAIN turns : Ahead(turns[t])'
    BY <1>1, <1>2, <1>9 DEF OrderInv, QueueOrder
  <2>2. QueueOrder'
    BY <1>1, <1>9, <2>1 DEF OrderInv, QueueOrder
  <2>3. Placed'
    <3> SUFFICES ASSUME NEW k \in 1..said
                 PROVE  \/ k \in taken \cup lost \/ k = hearing
                        \/ \E t \in DOMAIN turns : turns[t] = k
                        \/ \E i \in DOMAIN inbound' : Num(inbound'[i]) = k
      BY <1>1, <1>9 DEF Placed
    <3>1. k # 0
      OBVIOUS
    <3> QED
      BY <1>3, <1>9, <3>1 DEF OrderInv, Placed
  <2> QED
    BY <2>2, <2>3
<1>10. CASE PumpConfirm
  <2>1. UNCHANGED <<turns, hearing, bargeIn, cause>> /\ f.type = "confirm"
    BY <1>10 DEF PumpConfirm, Pump, pumpVars
  <2>2. Num(f) = 0
    BY <2>1 DEF Num
  <2> QED
    BY <1>1, <1>2, <1>8, <1>9, <2>1, <2>2 DEF OrderInv
<1>11. CASE PumpBargeIn
  <2>1. UNCHANGED <<turns, hearing>> /\ f.type = "barge_in" /\ cause' = f.before + 1
    BY <1>11 DEF PumpBargeIn, Pump, pumpVars, SetBargeIn
  <2>2. Num(f) = 0 /\ Marks(f) /\ After(f) = cause'
    BY <2>1 DEF Num, Marks, After
  <2>3. turn < cause'
    BY <1>2, <1>5, <2>2
  <2>4. cause' > turn'
    BY <1>1, <1>4, <2>2, <2>3, TurnsShape
  <2> QED
    BY <1>2, <1>8, <1>9, <2>1, <2>2, <2>4 DEF OrderInv
<1>12. CASE PumpAudio
  <2>1. /\ turns' = turns /\ f.type = "audio" /\ hearing' = f.ends
        /\ bargeIn' = (bargeIn \/ (f.onset /\ turnActive))
        /\ cause' = IF f.onset /\ turnActive THEN f.before + 1 ELSE cause
    BY <1>12 DEF PumpAudio, Pump, SetBargeIn
  <2>2. hearing' = Num(f) /\ Marks(f) /\ After(f) = f.before + 1
    BY <2>1 DEF Num, Marks, After
  <2>3. turn < f.before + 1 /\ f.before + 1 \in Nat
    BY <1>2, <1>4, <1>5, <2>2
  <2>4. bargeIn' => cause' > turn'
    BY <1>1, <2>1, <2>3, TurnsShape DEF OrderInv
  <2>5. Ahead(hearing)' /\ Ahead(turn)' /\ hearing' <= said'
    <3> DEFINE h == hearing'
    <3>1. h = Num(f)
      BY <2>2
    <3>2. \A i \in DOMAIN inbound' : Marks(inbound'[i]) => h < After(inbound'[i])
      BY <1>2, <3>1 DEF Ahead
    <3>3. Ahead(hearing)'
      BY <3>2 DEF Ahead
    <3> QED
      BY <1>1, <1>2, <1>5, <2>2, <3>3
  <2>6. \A t \in DOMAIN turns : hearing' # 0 => turns[t] < hearing'
    BY <1>2, <1>6, <2>2
  <2>7. QueueOrder'
    <3>1. \A t \in DOMAIN turns : Ahead(turns[t])'
      BY <1>2, <1>5, <2>1
    <3> QED
      BY <1>1, <2>1, <2>5, <2>6, <3>1 DEF OrderInv, QueueOrder
  <2>8. Placed'
    <3> SUFFICES ASSUME NEW k \in 1..said
                 PROVE  \/ k \in taken \cup lost \/ k = hearing'
                        \/ \E t \in DOMAIN turns : turns[t] = k
                        \/ \E i \in DOMAIN inbound' : Num(inbound'[i]) = k
      BY <1>1, <2>1 DEF Placed
    <3>1. k # 0
      OBVIOUS
    <3> QED
      BY <1>3, <1>5, <2>2, <3>1 DEF OrderInv, Placed
  <2> QED
    BY <1>2, <1>8, <2>4, <2>7, <2>8 DEF OrderInv
<1>13. ASSUME NEW x \in Nat, turns' = Append(turns, x), hearing' = hearing, x = Num(f)
       PROVE  QueueOrder' /\ Placed'
  <2>1. x <= said /\ Ahead(x)' /\ (x # 0 => \A t \in DOMAIN turns : turns[t] < x)
    BY <1>2, <1>4, <1>6, <1>13
  <2>2. /\ QueueOrder'
        /\ \E t \in DOMAIN turns' : turns'[t] = x
        /\ \A k : (\E t \in DOMAIN turns : turns[t] = k) =>
                     \E t \in DOMAIN turns' : turns'[t] = k
    BY <1>1, <1>2, <1>5, <1>13, <2>1, TurnQueued
  <2>3. Placed'
    <3> SUFFICES ASSUME NEW k \in 1..said
                 PROVE  \/ k \in taken \cup lost \/ k = hearing
                        \/ \E t \in DOMAIN turns' : turns'[t] = k
                        \/ \E i \in DOMAIN inbound' : Num(inbound'[i]) = k
      BY <1>1, <1>13 DEF Placed
    <3> QED
      BY <1>3, <1>13, <2>2 DEF OrderInv, Placed
  <2> QED
    BY <2>2, <2>3
<1>14. CASE PumpText
  <2>1. /\ turns' = Append(turns, f.k) /\ hearing' = hearing /\ f.type = "text"
        /\ bargeIn' = (bargeIn \/ turnActive)
        /\ cause' = IF turnActive THEN f.k ELSE cause
    BY <1>14 DEF PumpText, Pump, pumpVars, SetBargeIn
  <2>2. f.k = Num(f) /\ Marks(f) /\ After(f) = f.k
    BY <2>1 DEF Num, Marks, After
  <2>3. turn < f.k /\ f.k \in Nat
    BY <1>2, <1>4, <1>5, <2>2
  <2>4. bargeIn' => cause' > turn'
    BY <1>1, <2>1, <2>3, TurnsShape DEF OrderInv
  <2> QED
    BY <1>2, <1>8, <1>13, <2>1, <2>2, <2>3, <2>4 DEF OrderInv
<1>15. CASE PumpClose
  <2>1. turns' = Append(turns, 0) /\ f.type = "close" /\ UNCHANGED <<hearing, bargeIn, cause>>
    BY <1>15 DEF PumpClose, Pump, CLOSE
  <2>2. Num(f) = 0
    BY <2>1 DEF Num
  <2> QED
    BY <1>1, <1>2, <1>8, <1>13, <2>1, <2>2 DEF OrderInv
<1> QED
  BY <1>10, <1>11, <1>12, <1>14, <1>15

\* The utterance the ASR has becomes a turn, or none.
LEMMA UtteranceOrder ==
    ASSUME TypeInv, TypeInv', OrderInv,
           \/ QueueUtterance
           \/ \E from \in {"transcribing", "showing"}, to \in {"draining", "apologising"} :
                DropUtterance(from, to)
    PROVE  OrderInv'
<1>1. UNCHANGED <<said, turn, taken, inbound, bargeIn, cause>> /\ hearing' = 0
  BY DEF QueueUtterance, DropUtterance, PumpStep, clientVars, turnVars, signalVars
<1>2. (\A k : Ahead(k) => Ahead(k)') /\ WireOrder' /\ Ahead(0)'
  BY <1>1, AheadOfNone DEF Ahead, OrderInv, WireOrder
<1>3. said \in Nat /\ hearing \in Nat
  BY TurnsShape
<1>4. CASE QueueUtterance
  <2>1. turns' = Append(turns, hearing) /\ lost' = lost /\ hearing # 0
    BY <1>4 DEF QueueUtterance, PumpStep, TypeInv, PumpTypes
  <2> DEFINE x == hearing
  <2>2. x \in Nat /\ turns' = Append(turns, x) /\ x <= said
        /\ (x # 0 => \A t \in DOMAIN turns : turns[t] < x)
    BY <1>3, <2>1 DEF OrderInv, QueueOrder
  <2>3. \A k : k = hearing => Ahead(k)'
    BY <1>2 DEF OrderInv, QueueOrder
  <2>4. ASSUME NEW k, k = hearing
        PROVE  /\ QueueOrder'
               /\ \E t \in DOMAIN turns' : turns'[t] = k
               /\ \A j : (\E t \in DOMAIN turns : turns[t] = j) =>
                            \E t \in DOMAIN turns' : turns'[t] = j
    <3>1. k \in Nat /\ turns' = Append(turns, k) /\ k <= said /\ Ahead(k)'
          /\ (k # 0 => \A t \in DOMAIN turns : turns[t] < k)
      BY <2>2, <2>3, <2>4
    <3> QED
      BY <1>1, <1>2, <3>1, TurnQueued
  <2>5. Placed'
    BY <1>1, <2>1, <2>4 DEF OrderInv, Placed
  <2>6. InputsInOrder'
    BY <1>1, <2>1 DEF OrderInv, InputsInOrder
  <2> QED
    BY <1>1, <1>2, <2>4, <2>5, <2>6 DEF OrderInv
<1>5. CASE turns' = turns /\ lost' = lost \cup {hearing}
  <2>1. \A t \in DOMAIN turns : Ahead(turns[t])'
    BY <1>2, <1>5 DEF OrderInv, QueueOrder
  <2>2. Ahead(hearing)' /\ Ahead(turn)'
    BY <1>1, <1>2 DEF OrderInv, QueueOrder
  <2>3. QueueOrder'
    BY <1>1, <1>3, <1>5, <2>1, <2>2 DEF OrderInv, QueueOrder
  <2>4. Placed' /\ InputsInOrder'
    BY <1>1, <1>5 DEF OrderInv, Placed, InputsInOrder
  <2> QED
    BY <1>1, <1>2, <2>3, <2>4 DEF OrderInv
<1> QED
  BY <1>4, <1>5 DEF DropUtterance

\* The agent takes the first of the turns that wait, or the sentinel.
LEMMA TakeOrder == ASSUME TypeInv, TypeInv', OrderInv, TakeTurn \/ TakeClose PROVE OrderInv'
<1> DEFINE h == Head(turns)
<1>1. turns # <<>> /\ turns' = Tail(turns) /\ UNCHANGED <<said, inbound, hearing, lost>>
  BY DEF TakeTurn, TakeClose, NextTurn, AgentStep, clientVars, pumpVars
<1>2. /\ h = turns[1] /\ 1 \in DOMAIN turns
      /\ \A t \in DOMAIN turns' : /\ t + 1 \in DOMAIN turns /\ t \in Nat /\ 1 < t + 1
                                  /\ turns'[t] = turns[t + 1]
      /\ \A t \in DOMAIN turns : t # 1 =>
           t - 1 \in DOMAIN turns' /\ turns'[t - 1] = turns[t] /\ 1 < t
  <2>1. turns \in Seq(0..MaxInputs)
    BY DEF TypeInv, SharedTypes
  <2> QED
    BY <1>1, <2>1
<1> HIDE DEF h
<1>3. h \in Nat /\ h <= said /\ Ahead(h) /\ (hearing # 0 => h < hearing) /\ said \in Nat
  BY <1>2, TurnsShape DEF OrderInv, QueueOrder
<1>4. WireOrder' /\ \A k : Ahead(k) => Ahead(k)'
  BY <1>1 DEF OrderInv, WireOrder, Ahead
<1>5. \/ turn' = turn /\ taken' = taken /\ h = 0 /\ UNCHANGED <<bargeIn, cause>>
      \/ turn' = h /\ taken' = taken \cup {h} /\ h # 0 /\ bargeIn' = FALSE
  BY DEF TakeTurn, TakeClose, NextTurn, FreshSignal, CLOSE, h, turnVars, signalVars
<1>6. turn' <= said' /\ Ahead(turn)'
  <2>1. CASE turn' = turn
    BY <1>1, <1>4, <2>1 DEF OrderInv, QueueOrder
  <2>2. CASE turn' = h
    <3>1. \A i \in DOMAIN inbound' : Marks(inbound'[i]) => h < After(inbound'[i])
      BY <1>1, <1>3 DEF Ahead
    <3> QED
      BY <1>1, <1>3, <2>2, <3>1 DEF Ahead
  <2> QED
    BY <1>5, <2>1, <2>2
<1>7. \A t \in DOMAIN turns' : /\ turns'[t] <= said' /\ Ahead(turns[t])'
                               /\ hearing' # 0 => turns'[t] < hearing'
  <2> SUFFICES ASSUME NEW t \in DOMAIN turns'
               PROVE  /\ turns'[t] <= said' /\ (hearing' # 0 => turns'[t] < hearing')
                      /\ \A i \in DOMAIN inbound' : Marks(inbound'[i]) => turns'[t] < After(inbound'[i])
    BY DEF Ahead
  <2>1. t + 1 \in DOMAIN turns /\ turns'[t] = turns[t + 1]
    BY <1>2
  <2> QED
    BY <1>1, <2>1 DEF OrderInv, QueueOrder, Ahead
<1>8. \A s, t \in DOMAIN turns' : s < t /\ turns'[t] # 0 => turns'[s] < turns'[t]
  <2>1. \A s, t \in DOMAIN turns' : s < t => s + 1 < t + 1
    BY <1>2
  <2> QED
    BY <1>2, <2>1 DEF OrderInv, QueueOrder
<1>9. Ahead(hearing)' /\ hearing' <= said'
  BY <1>1, <1>4 DEF OrderInv, QueueOrder
<1>10. QueueOrder'
  BY <1>6, <1>7, <1>8, <1>9 DEF QueueOrder
<1>11. Placed'
  <2> SUFFICES ASSUME NEW k \in 1..said
               PROVE  \/ k \in taken' \cup lost \/ k = hearing
                      \/ \E t \in DOMAIN turns' : turns'[t] = k
                      \/ \E i \in DOMAIN inbound : Num(inbound[i]) = k
    BY <1>1 DEF Placed
  <2>1. k # 0
    OBVIOUS
  <2>2. ASSUME NEW t \in DOMAIN turns, turns[t] = k
        PROVE  k \in taken' \/ \E s \in DOMAIN turns' : turns'[s] = k
    BY <1>2, <1>5, <2>1, <2>2
  <2>3. k \in taken => k \in taken'
    BY <1>5
  <2> QED
    BY <2>2, <2>3 DEF OrderInv, Placed
<1>12. InputsInOrder'
  <2>1. ASSUME NEW j \in 1..(h - 1), h # 0
        PROVE  j \in taken \cup lost
    <3>1. j \in 1..said /\ j < h /\ j # 0
      BY <1>3
    <3>2. j # hearing
      BY <1>3, <3>1
    <3>3. ~\E t \in DOMAIN turns : turns[t] = j
      <4>1. \A t \in DOMAIN turns : t # 1 /\ turns[t] # 0 => h < turns[t]
        BY <1>2 DEF OrderInv, QueueOrder
      <4> QED
        BY <1>2, <1>3, <3>1, <4>1
    <3>4. ~\E i \in DOMAIN inbound : Num(inbound[i]) = j
      <4>1. inbound \in Seq(Frames)
        BY DEF TypeInv, ClientTypes
      <4>2. \A i \in DOMAIN inbound : Num(inbound[i]) # 0 => Marks(inbound[i])
        <5>1. \A i \in DOMAIN inbound : inbound[i] \in Frames
          BY <4>1
        <5> QED
          BY <5>1, FrameNums
      <4>3. \A i \in DOMAIN inbound : Num(inbound[i]) # 0 => h < Num(inbound[i])
        BY <1>3, <4>2 DEF OrderInv, WireOrder, Ahead
      <4> QED
        BY <1>3, <3>1, <4>3
    <3> QED
      BY <3>1, <3>2, <3>3, <3>4 DEF OrderInv, Placed
  <2>2. \A k \in taken' : k \in taken \/ (k = h /\ h # 0)
    BY <1>5
  <2>3. taken \cup lost \subseteq taken' \cup lost'
    BY <1>1, <1>5
  <2> QED
    BY <2>1, <2>2, <2>3 DEF OrderInv, InputsInOrder
<1>13. bargeIn' => cause' > turn'
  BY <1>5 DEF OrderInv
<1> QED
  BY <1>4, <1>10, <1>11, <1>12, <1>13 DEF OrderInv

\* Each frame of the client is of the next input, or says what came before it.
LEMMA ClientOrder == ASSUME TypeInv, OrderInv, ClientNext PROVE OrderInv'
<1> USE DEF pumpVars, turnVars, signalVars, Receive
<1>1. said \in 0..MaxInputs /\ hints \in 0..MaxHints
  BY DEF TypeInv, ClientTypes
<1>2. ASSUME NEW onset \in BOOLEAN, NEW ends \in BOOLEAN, ReceiveAudio(onset, ends)
      PROVE  OrderInv'
  <2>1. /\ said < MaxInputs /\ UNCHANGED <<hearing, turns, turn, taken, lost, bargeIn, cause>>
        /\ inbound' = Append(inbound, AudioFrame(onset, IF ends THEN said + 1 ELSE 0))
        /\ said' = IF ends THEN said + 1 ELSE said
    BY <1>2 DEF ReceiveAudio
  <2>2. \E n \in 0..MaxInputs : /\ inbound' = Append(inbound, AudioFrame(onset, n))
                                /\ (n = 0 /\ said' = said) \/ (n = said + 1 /\ said' = said + 1)
    <3>0. 0 \in 0..MaxInputs /\ said + 1 \in 0..MaxInputs
      BY <1>1, <2>1, BoundsAssumption
    <3>1. CASE ends
      <4>1. said' = said + 1 /\ inbound' = Append(inbound, AudioFrame(onset, said + 1))
        BY <2>1, <3>1
      <4> QED
        BY <3>0, <4>1
    <3>2. CASE ~ends
      <4>1. said' = said /\ inbound' = Append(inbound, AudioFrame(onset, 0))
        BY <2>1, <3>2
      <4> QED
        BY <3>0, <4>1
    <3> QED
      BY <3>1, <3>2
  <2>3. PICK n \in 0..MaxInputs : /\ inbound' = Append(inbound, AudioFrame(onset, n))
                                  /\ (n = 0 /\ said' = said) \/ (n = said + 1 /\ said' = said + 1)
    BY <2>2
  <2> DEFINE f == AudioFrame(onset, n)
  <2>4. f \in Frames
    BY <1>1 DEF AudioFrame, Frames
  <2>5. Marks(f) /\ After(f) = said + 1 /\ Num(f) = n
    BY DEF AudioFrame, Marks, After, Num
  <2>6. inbound' = Append(inbound, f)
    BY <2>3
  <2> HIDE DEF f
  <2> QED
    BY <2>1, <2>3, <2>4, <2>5, <2>6, OrderSent
<1>3. CASE ReceiveText
  <2> DEFINE f == TextFrame(said + 1)
  <2>1. said + 1 \in 1..MaxInputs
    BY <1>1, <1>3, BoundsAssumption DEF ReceiveText
  <2>2. f \in Frames
    BY <2>1 DEF TextFrame, Frames
  <2>3. After(f) = said + 1 /\ Num(f) = said + 1
    BY DEF TextFrame, After, Num
  <2>4. inbound' = Append(inbound, f) /\ said' = said + 1
        /\ UNCHANGED <<hearing, turns, turn, taken, lost, bargeIn, cause>>
    BY <1>3 DEF ReceiveText
  <2> HIDE DEF f
  <2> QED
    BY <2>2, <2>3, <2>4, OrderSent
<1>4. CASE ReceiveBargeIn
  <2> DEFINE f == HintFrame
  <2>1. f \in Frames /\ After(f) = said + 1 /\ Num(f) = 0
    BY <1>1 DEF HintFrame, Frames, After, Num
  <2> HIDE DEF f
  <2>2. inbound' = Append(inbound, f) /\ said' = said
        /\ UNCHANGED <<hearing, turns, turn, taken, lost, bargeIn, cause>>
    BY <1>4 DEF ReceiveBargeIn, f
  <2> QED
    BY <2>1, <2>2, OrderSent
<1>5. ASSUME NEW f \in Frames, f.type \in {"confirm", "close"}, inbound' = Append(inbound, f),
             UNCHANGED <<said, hearing, turns, turn, taken, lost, bargeIn, cause>>
      PROVE  OrderInv'
  <2>1. Num(f) = 0 /\ ~Marks(f)
    BY <1>5 DEF Num, Marks
  <2> QED
    BY <1>5, <2>1, OrderSent
<1>6. ASSUME NEW ok \in BOOLEAN, ReceiveConfirm(ok)
      PROVE  OrderInv'
  <2>1. asked \in 1..MaxQuestions
    BY <1>6 DEF ReceiveConfirm, TypeInv, AgentTypes
  <2>2. ConfirmFrame(ok) \in Frames /\ ConfirmFrame(ok).type = "confirm"
    BY <2>1 DEF ConfirmFrame, Frames
  <2> QED
    BY <1>5, <1>6, <2>2 DEF ReceiveConfirm
<1>7. CASE Disconnect
  <2>1. CloseFrame \in Frames /\ CloseFrame.type = "close"
    BY DEF CloseFrame, Frames
  <2> QED
    BY <1>5, <1>7, <2>1 DEF Disconnect
<1> QED
  BY <1>2, <1>3, <1>4, <1>6, <1>7 DEF ClientNext

LEMMA OrderStep == TypeInv /\ TypeInv' /\ OrderInv /\ [Next]_vars => OrderInv'
<1> SUFFICES ASSUME TypeInv, TypeInv', OrderInv, [Next]_vars
             PROVE  OrderInv'
  OBVIOUS
<1> USE DEF clientVars, pumpVars, turnVars, signalVars, speechVars
<1>1. ASSUME UNCHANGED <<said, inbound, hearing, lost, turns, turn, taken, bargeIn, cause>>
      PROVE  OrderInv'
  BY <1>1 DEF OrderInv, WireOrder, QueueOrder, Ahead, Placed, InputsInOrder
<1>2. CASE PumpNext
  <2>1. CASE HeardNothing \/ AsrFails \/ ShowFails
    BY <2>1, UtteranceOrder DEF HeardNothing, AsrFails, ShowFails
  <2>2. CASE Transcribed \/ Apologised
    BY <1>1, <2>2 DEF Transcribed, Apologised, PumpStep
  <2> QED
    BY <1>2, <2>1, <2>2, PumpOrder, UtteranceOrder DEF PumpNext
<1>3. CASE SpeakerNext
  BY <1>1, <1>3 DEF SpeakerNext, NothingToPlay, FirstAudio, MoreAudio, Announced, Played,
     SpeakerStep
<1>4. CASE \/ Token \/ SpeakSentence \/ AskConfirm \/ SpeakQuestion \/ GateCancelled \/ Flush
           \/ SendRaises \/ \E shape \in TokenShapes : Buffer(shape)
  BY <1>1, <1>4 DEF Token, SpeakSentence, AskConfirm, SpeakQuestion, GateCancelled, Flush,
     SendRaises, Buffer, AgentStep
<1>5. CASE \/ Prepare \/ SentencesSpoken \/ ReplyAsks \/ Answered \/ TurnCancelled \/ TurnRaises
           \/ TurnFailed \/ ReplyEnds \/ TurnComplete \/ TurnIdle \/ TurnOver
  BY <1>1, <1>5 DEF Prepare, SentencesSpoken, ReplyAsks, Answered, TurnCancelled, TurnRaises,
     TurnFailed, ReplyEnds, TurnComplete, TurnIdle, TurnOver, Go, AgentStep
<1>6. CASE WatcherFires \/ Close \/ UNCHANGED vars
  BY <1>1, <1>6 DEF WatcherFires, Close, vars
<1> QED
  BY <1>2, <1>3, <1>4, <1>5, <1>6, ClientOrder, TakeOrder DEF Next, AgentNext

\* No turn is cancelled by the onset of the utterance it answers, nor by what interrupted
\* an earlier turn (_handle_inbound, user_turns).
THEOREM LaterInterrupts == Spec => []InterruptedFromLater
<1>1. Init => TypeInv /\ OrderInv
  BY TypeInit, OrderInit
<1>2. TypeInv /\ OrderInv /\ [Next]_vars => (TypeInv /\ OrderInv)'
  BY TypeStep, OrderStep
<1>3. OrderInv => InterruptedFromLater
  BY DEF OrderInv, InterruptedFromLater
<1> QED
  BY <1>1, <1>2, <1>3, PTL DEF Spec

\* Spoken or typed, inputs become turns in the order in which the user gave them, and none
\* is left out but utterances nothing was heard in (_transcribe_and_queue).
THEOREM OrderKept == Spec => []InputsInOrder
<1>1. Init => TypeInv /\ OrderInv
  BY TypeInit, OrderInit
<1>2. TypeInv /\ OrderInv /\ [Next]_vars => (TypeInv /\ OrderInv)'
  BY TypeStep, OrderStep
<1>3. OrderInv => InputsInOrder
  BY DEF OrderInv
<1> QED
  BY <1>1, <1>2, <1>3, PTL DEF Spec

----------------------------------------------------------------------------
(* Naturals and folds *)

\* Any nonempty set of naturals has a smallest element: what stands for induction.
LEMMA SmallestNat ==
    ASSUME NEW T, T \subseteq Nat, T # {}
    PROVE  \E x \in T : \A y \in T : x <= y
<1>1. IsWellFoundedOn(OpToRel(<, Nat), Nat)
  BY NatLessThanWellFounded
<1>2. PICK x \in T : \A y \in T : ~(<<y, x>> \in OpToRel(<, Nat))
  BY <1>1, WFMin
<1>3. \A y \in T : ~(y < x)
  BY <1>2 DEF OpToRel
<1> QED
  BY <1>3

\* A bounded one has a greatest element.
LEMMA GreatestNat ==
    ASSUME NEW b \in Nat, NEW T, T \subseteq 0..b, T # {}
    PROVE  \E x \in T : \A y \in T : y <= x
<1> DEFINE Gaps == {d \in Nat : b - d \in T}
<1>1. Gaps # {}
  <2>1. PICK x \in T : TRUE
    OBVIOUS
  <2>2. x \in 0..b /\ b - x \in Nat /\ b - (b - x) = x
    BY <2>1
  <2>3. b - x \in Gaps
    BY <2>1, <2>2
  <2> QED
    BY <2>3
<1>2. PICK d \in Gaps : \A e \in Gaps : d <= e
  BY <1>1, SmallestNat
<1>3. ASSUME NEW y \in T
      PROVE  y <= b - d
  <2>1. y \in 0..b /\ b - y \in Nat /\ b - (b - y) = y
    BY <1>3
  <2>2. d <= b - y
    BY <1>2, <2>1
  <2> QED
    BY <2>1, <2>2
<1> QED
  BY <1>2, <1>3

\* What stands for induction: a set of naturals that has 0 and with each number the next.
LEMMA UpToNat ==
    ASSUME NEW n \in Nat, NEW T, 0 \in T, \A k \in 0..n - 1 : k \in T => k + 1 \in T
    PROVE  0..n \subseteq T
<1> DEFINE Missing == {k \in 0..n : k \notin T}
<1>1. SUFFICES ASSUME Missing # {}
               PROVE  FALSE
  OBVIOUS
<1>2. PICK k \in Missing : \A l \in Missing : k <= l
  <2>1. Missing \subseteq Nat
    OBVIOUS
  <2> QED
    BY <1>1, <2>1, SmallestNat
<1>3. k # 0 /\ k \in 0..n
  OBVIOUS
<1>4. k - 1 \in 0..n - 1 /\ k - 1 \in 0..n /\ (k - 1) + 1 = k /\ ~(k <= k - 1)
  BY <1>3
<1>5. k - 1 \in T
  BY <1>2, <1>4
<1> QED
  BY <1>4, <1>5

LEMMA MaxIsGreatest ==
    ASSUME NEW n \in Nat, NEW s, s \subseteq 1..n, s # {}
    PROVE  Max(s) \in s /\ \A x \in s : x <= Max(s)
<1>1. s \subseteq 0..n
  OBVIOUS
<1>2. \E x \in s : \A y \in s : y <= x
  BY <1>1, GreatestNat
<1>3. \E x \in s : \A y \in s : x >= y
  <2>1. \A x, y \in s : x \in Nat /\ y \in Nat
    OBVIOUS
  <2> QED
    BY <1>2, <2>1
<1>4. Max(s) \in s /\ \A y \in s : Max(s) >= y
  BY <1>3 DEF Max
<1>5. \A x \in s : x \in Nat
  OBVIOUS
<1> QED
  BY <1>4, <1>5


\* What a fold over a sequence computes, step by step.
TakeAll(base, frames) == FoldLeft(Take, base, frames)

\* What the recursion of the fold of Take says of g, on sets up to n.
Takes(g, base, frames, n) ==
    g = [s \in SUBSET (1..n) |->
           IF s = {} THEN base ELSE Take(g[s \ {Max(s)}], frames[Max(s)])]

LEMMA TakeEquations ==
    ASSUME NEW base, NEW n \in Nat, NEW frames, DOMAIN frames = 1..n
    PROVE  \E f : /\ TakeAll(base, frames) = f[n] /\ f[0] = base
                  /\ \A k \in 0..n - 1 : f[k + 1] = Take(f[k], frames[k + 1])
<1> DEFINE T == {k \in 0..n : \E g : Takes(g, base, frames, k)}
<1>1. 0 \in T
  <2> DEFINE g == [s \in SUBSET (1..0) |-> base]
  <2>1. \A s \in SUBSET (1..0) : s = {}
    OBVIOUS
  <2>2. Takes(g, base, frames, 0)
    BY <2>1 DEF Takes
  <2> QED
    BY <2>2
<1>2. ASSUME NEW k \in 0..n - 1, k \in T
      PROVE  k + 1 \in T
  <2>1. PICK g : Takes(g, base, frames, k)
    BY <1>2
  <2> DEFINE h == [s \in SUBSET (1..k + 1) |->
                     IF s = {} THEN base
                     ELSE Take(g[s \ {Max(s)}], frames[Max(s)])]
  <2>2. ASSUME NEW s \in SUBSET (1..k + 1), s # {}
        PROVE  g[s \ {Max(s)}] = h[s \ {Max(s)}]
    <3> DEFINE r == s \ {Max(s)}
    <3>1. Max(s) \in s /\ \A x \in s : x <= Max(s)
      <4>1. k + 1 \in Nat
        OBVIOUS
      <4> QED
        BY <2>2, <4>1, MaxIsGreatest
    <3>2. r \in SUBSET (1..k)
      <4>1. ASSUME NEW x \in r
            PROVE  x \in 1..k
        <5>1. x \in 1..k + 1 /\ Max(s) \in 1..k + 1 /\ x <= Max(s) /\ x # Max(s)
          BY <3>1
        <5> QED
          BY <5>1
      <4> QED
        BY <4>1
    <3>3. r \in SUBSET (1..k + 1)
      OBVIOUS
    <3>4. g[r] = IF r = {} THEN base ELSE Take(g[r \ {Max(r)}], frames[Max(r)])
      BY <2>1, <3>2 DEF Takes
    <3> QED
      BY <3>3, <3>4
  <2>3. Takes(h, base, frames, k + 1)
    BY <2>2 DEF Takes
  <2>4. k + 1 \in 0..n
    OBVIOUS
  <2> QED
    BY <2>3, <2>4
<1>3. n \in T
  <2>1. 0..n \subseteq T
    BY <1>1, <1>2, UpToNat
  <2> QED
    BY <2>1
<1> DEFINE g == CHOOSE h : Takes(h, base, frames, n)
           f == [k \in 0..n |-> g[1..k]]
<1>4. Takes(g, base, frames, n)
  BY <1>3
<1>5. TakeAll(base, frames) = g[1..n]
  BY DEF TakeAll, FoldLeft, MapThenFoldSet, Takes
<1> HIDE DEF g
<1>6. f[0] = base
  <2>1. 1..0 = {}
    OBVIOUS
  <2> QED
    BY <1>4, <2>1 DEF Takes
<1>7. ASSUME NEW k \in 0..n - 1
      PROVE  f[k + 1] = Take(f[k], frames[k + 1])
  <2> DEFINE s == 1..k + 1
  <2>1. s \in SUBSET (1..n) /\ s # {} /\ k \in 0..n /\ k + 1 \in 0..n /\ k + 1 \in Nat
    OBVIOUS
  <2>2. Max(s) = k + 1
    <3>1. Max(s) \in s /\ \A x \in s : x <= Max(s)
      BY <2>1, MaxIsGreatest
    <3> QED
      BY <3>1
  <2>3. s \ {k + 1} = 1..k
    OBVIOUS
  <2>4. g[s] = Take(g[s \ {Max(s)}], frames[Max(s)])
    BY <1>4, <2>1 DEF Takes
  <2> QED
    BY <2>1, <2>2, <2>3, <2>4
<1>8. TakeAll(base, frames) = f[n]
  BY <1>5
<1> HIDE DEF f
<1> QED
  BY <1>6, <1>7, <1>8

ProcessAll(base, chunks) == FoldLeft(Process, base, chunks)

\* What the recursion of the fold of Process says of g, on sets up to n.
Processes(g, base, chunks, n) ==
    g = [s \in SUBSET (1..n) |->
           IF s = {} THEN base ELSE Process(g[s \ {Max(s)}], chunks[Max(s)])]

LEMMA ProcessEquations ==
    ASSUME NEW base, NEW n \in Nat, NEW chunks, DOMAIN chunks = 1..n
    PROVE  \E f : /\ ProcessAll(base, chunks) = f[n] /\ f[0] = base
                  /\ \A k \in 0..n - 1 : f[k + 1] = Process(f[k], chunks[k + 1])
<1> DEFINE T == {k \in 0..n : \E g : Processes(g, base, chunks, k)}
<1>1. 0 \in T
  <2> DEFINE g == [s \in SUBSET (1..0) |-> base]
  <2>1. \A s \in SUBSET (1..0) : s = {}
    OBVIOUS
  <2>2. Processes(g, base, chunks, 0)
    BY <2>1 DEF Processes
  <2> QED
    BY <2>2
<1>2. ASSUME NEW k \in 0..n - 1, k \in T
      PROVE  k + 1 \in T
  <2>1. PICK g : Processes(g, base, chunks, k)
    BY <1>2
  <2> DEFINE h == [s \in SUBSET (1..k + 1) |->
                     IF s = {} THEN base
                     ELSE Process(g[s \ {Max(s)}], chunks[Max(s)])]
  <2>2. ASSUME NEW s \in SUBSET (1..k + 1), s # {}
        PROVE  g[s \ {Max(s)}] = h[s \ {Max(s)}]
    <3> DEFINE r == s \ {Max(s)}
    <3>1. Max(s) \in s /\ \A x \in s : x <= Max(s)
      <4>1. k + 1 \in Nat
        OBVIOUS
      <4> QED
        BY <2>2, <4>1, MaxIsGreatest
    <3>2. r \in SUBSET (1..k)
      <4>1. ASSUME NEW x \in r
            PROVE  x \in 1..k
        <5>1. x \in 1..k + 1 /\ Max(s) \in 1..k + 1 /\ x <= Max(s) /\ x # Max(s)
          BY <3>1
        <5> QED
          BY <5>1
      <4> QED
        BY <4>1
    <3>3. r \in SUBSET (1..k + 1)
      OBVIOUS
    <3>4. g[r] = IF r = {} THEN base ELSE Process(g[r \ {Max(r)}], chunks[Max(r)])
      BY <2>1, <3>2 DEF Processes
    <3> QED
      BY <3>3, <3>4
  <2>3. Processes(h, base, chunks, k + 1)
    BY <2>2 DEF Processes
  <2>4. k + 1 \in 0..n
    OBVIOUS
  <2> QED
    BY <2>3, <2>4
<1>3. n \in T
  <2>1. 0..n \subseteq T
    BY <1>1, <1>2, UpToNat
  <2> QED
    BY <2>1
<1> DEFINE g == CHOOSE h : Processes(h, base, chunks, n)
           f == [k \in 0..n |-> g[1..k]]
<1>4. Processes(g, base, chunks, n)
  BY <1>3
<1>5. ProcessAll(base, chunks) = g[1..n]
  BY DEF ProcessAll, FoldLeft, MapThenFoldSet, Processes
<1> HIDE DEF g
<1>6. f[0] = base
  <2>1. 1..0 = {}
    OBVIOUS
  <2> QED
    BY <1>4, <2>1 DEF Processes
<1>7. ASSUME NEW k \in 0..n - 1
      PROVE  f[k + 1] = Process(f[k], chunks[k + 1])
  <2> DEFINE s == 1..k + 1
  <2>1. s \in SUBSET (1..n) /\ s # {} /\ k \in 0..n /\ k + 1 \in 0..n /\ k + 1 \in Nat
    OBVIOUS
  <2>2. Max(s) = k + 1
    <3>1. Max(s) \in s /\ \A x \in s : x <= Max(s)
      BY <2>1, MaxIsGreatest
    <3> QED
      BY <3>1
  <2>3. s \ {k + 1} = 1..k
    OBVIOUS
  <2>4. g[s] = Process(g[s \ {Max(s)}], chunks[Max(s)])
    BY <1>4, <2>1 DEF Processes
  <2> QED
    BY <2>1, <2>2, <2>3, <2>4
<1>8. ProcessAll(base, chunks) = f[n]
  BY <1>5
<1> HIDE DEF f
<1> QED
  BY <1>6, <1>7, <1>8

----------------------------------------------------------------------------
(* Positions and the pre-roll *)

\* The positions of consecutive frames.
LEMMA PositionsNext ==
    ASSUME NEW first \in Nat, NEW last \in Nat, first <= last + 1
    PROVE  /\ Positions(first, last) \in Seq(Nat)
           /\ Len(Positions(first, last)) = last - first + 1
           /\ Append(Positions(first, last), last + 1) = Positions(first, last + 1)
<1> DEFINE n == last - first + 1
<1>1. n \in Nat /\ (last + 1) - first + 1 = n + 1
  OBVIOUS
<1>2. \A i \in 1..n : first + i - 1 \in Nat
  OBVIOUS
<1>3. Positions(first, last) \in Seq(Nat) /\ Len(Positions(first, last)) = n
  BY <1>1, <1>2 DEF Positions
<1>4. DOMAIN Positions(first, last) = 1..n /\ \A i \in 1..n : Positions(first, last)[i] = first + i - 1
  BY DEF Positions
<1>5. first + (n + 1) - 1 = last + 1
  BY <1>1
<1> HIDE DEF n
<1> DEFINE more == Append(Positions(first, last), last + 1)
<1>6. /\ DOMAIN more = 1..n + 1 /\ more[n + 1] = last + 1
      /\ \A i \in 1..n : more[i] = Positions(first, last)[i]
      /\ more \in Seq(Nat)
  BY <1>1, <1>3
<1>7. Positions(first, last + 1) = [i \in 1..n + 1 |-> first + i - 1]
  BY <1>1 DEF Positions
<1>8. more = [i \in 1..n + 1 |-> first + i - 1]
  <2>1. \A i \in 1..n + 1 : more[i] = first + i - 1
    BY <1>1, <1>4, <1>5, <1>6
  <2>2. more = [i \in DOMAIN more |-> more[i]]
    BY <1>6
  <2> QED
    BY <1>6, <2>1, <2>2
<1> QED
  BY <1>3, <1>7, <1>8 DEF n

LEMMA PositionsTail ==
    ASSUME NEW first \in Nat, NEW last \in Nat, first <= last
    PROVE  Tail(Positions(first, last)) = Positions(first + 1, last)
<1> DEFINE n == last - first
<1>1. n \in Nat /\ last - first + 1 = n + 1 /\ last - (first + 1) + 1 = n
  OBVIOUS
<1>2. Positions(first, last) \in Seq(Nat) /\ Len(Positions(first, last)) = n + 1
  <2>1. first <= last + 1
    OBVIOUS
  <2> QED
    BY <1>1, <2>1, PositionsNext
<1>3. \A i \in 1..n : i + 1 \in 1..n + 1 /\ first + (i + 1) - 1 = (first + 1) + i - 1
  BY <1>1
<1>4. \A i \in 1..n + 1 : Positions(first, last)[i] = first + i - 1
  BY <1>1 DEF Positions
<1>5. Positions(first + 1, last) = [i \in 1..n |-> (first + 1) + i - 1]
  BY <1>1 DEF Positions
<1> HIDE DEF n
<1> DEFINE rest == Tail(Positions(first, last))
<1>6. DOMAIN rest = 1..n /\ rest \in Seq(Nat) /\ \A i \in 1..n : rest[i] = Positions(first, last)[i + 1]
  <2>1. Positions(first, last) # << >>
    BY <1>1, <1>2
  <2>2. Len(rest) = n /\ rest \in Seq(Nat)
    BY <1>1, <1>2, <2>1
  <2>3. \A i \in 1..Len(rest) : rest[i] = Positions(first, last)[i + 1]
    BY <1>2, <2>1
  <2> QED
    BY <2>2, <2>3
<1> HIDE DEF rest
<1>7. rest = [i \in 1..n |-> (first + 1) + i - 1]
  <2>1. \A i \in 1..n : rest[i] = (first + 1) + i - 1
    BY <1>3, <1>4, <1>6
  <2>2. rest = [i \in DOMAIN rest |-> rest[i]]
    BY <1>6
  <2> QED
    BY <1>6, <2>1, <2>2
<1> QED
  BY <1>5, <1>7 DEF rest

\* Where the pre-roll of frame n begins when `from' frames are gone.
RollStart(from, n) == IF n - PrerollFrames < from THEN from + 1 ELSE n - PrerollFrames + 1

LEMMA SinceIsPositions == \A from, onset, t : Since(from, onset, t) = Positions(RollStart(from, onset), t)
BY DEF Since, RollStart

LEMMA RollStartBounds ==
    ASSUME NEW from \in Nat, NEW n \in Nat, from <= n
    PROVE  /\ RollStart(from, n) \in Nat /\ from + 1 <= RollStart(from, n)
           /\ RollStart(from, n) <= n + 1 /\ RollStart(from, n + 1) <= n + 1
           /\ RollStart(from, n + 1) \in Nat
           /\ n - RollStart(from, n) + 1 <= PrerollFrames
           /\ n - RollStart(from, n) + 1 = PrerollFrames
                 => RollStart(from, n + 1) = RollStart(from, n) + 1 \/ from = n - PrerollFrames
BY EndpointerAssumption DEF RollStart

\* The pre-roll rolls.
LEMMA PrerollRolls ==
    ASSUME NEW from \in Nat, NEW n \in Nat, from <= n
    PROVE  Rolled(Since(from, n, n), n + 1) = Since(from, n + 1, n + 1)
<1> DEFINE s == RollStart(from, n)
<1>1. s \in Nat /\ from + 1 <= s /\ s <= n + 1
  BY RollStartBounds
<1>2. /\ Append(Positions(s, n), n + 1) = Positions(s, n + 1)
  BY <1>1, PositionsNext
<1>3. Len(Positions(s, n + 1)) = n + 1 - s + 1
  <2>1. ASSUME NEW m \in Nat, m = n + 1
        PROVE  Len(Positions(s, m)) = m - s + 1
    <3>1. s <= m + 1
      BY <1>1, <2>1
    <3> QED
      BY <1>1, <3>1, PositionsNext
  <2>2. Len(Positions(s, n + 1)) = (n + 1) - s + 1
    BY <2>1
  <2> QED
    BY <1>1, <2>2
<1>4. CASE n + 1 - s + 1 > PrerollFrames
  <2>1. RollStart(from, n + 1) = s + 1
    BY <1>4, EndpointerAssumption DEF RollStart
  <2>2. Tail(Positions(s, n + 1)) = Positions(s + 1, n + 1)
    BY <1>1, PositionsTail
  <2> QED
    BY <1>2, <1>3, <1>4, <2>1, <2>2, SinceIsPositions DEF Rolled
<1>5. CASE ~(n + 1 - s + 1 > PrerollFrames)
  <2>1. RollStart(from, n + 1) = s
    BY <1>5, EndpointerAssumption DEF RollStart
  <2> QED
    BY <1>2, <1>3, <1>5, <2>1, SinceIsPositions DEF Rolled
<1> QED
  BY <1>4, <1>5

\* What an utterance collects.
LEMMA SinceNext ==
    ASSUME NEW from \in Nat, NEW onset \in Nat, NEW n \in Nat, from < onset, onset <= n
    PROVE  /\ Append(Since(from, onset, n), n + 1) = Since(from, onset, n + 1)
           /\ Since(from, onset, n) \in Seq(Nat) /\ Since(from, onset, n) # << >>
           /\ Last(Since(from, onset, n)) = n
<1> DEFINE s == RollStart(from, onset)
<1>1. s \in Nat /\ s <= onset
  BY EndpointerAssumption DEF RollStart
<1>2. s <= n + 1 /\ s <= n
  BY <1>1
<1>3. /\ Append(Positions(s, n), n + 1) = Positions(s, n + 1)
      /\ Positions(s, n) \in Seq(Nat) /\ Len(Positions(s, n)) = n - s + 1
  BY <1>1, <1>2, PositionsNext
<1>4. n - s + 1 \in 1..n - s + 1 /\ s + (n - s + 1) - 1 = n
  BY <1>1, <1>2
<1>5. Positions(s, n)[n - s + 1] = n
  BY <1>4 DEF Positions
<1>6. Positions(s, n) # << >>
  BY <1>3, <1>4
<1> QED
  BY <1>3, <1>5, <1>6, SinceIsPositions DEF Last

----------------------------------------------------------------------------
(* What is said of the audio when there is one frame more *)

\* The states of an endpointer.
States ==
    [leftover : Seq(BOOLEAN), speaking : BOOLEAN, utterance : Seq(Nat), speechMs : Nat,
     silenceMs : Nat, preroll : Seq(Nat), started : BOOLEAN, finished : BOOLEAN,
     heard : Seq(BOOLEAN), cut : Seq(Seq(Nat))]

\* A sequence with one frame more.
OneMore(audio, more, loud) ==
    /\ more \in Seq(BOOLEAN) /\ Len(more) = Len(audio) + 1
    /\ more[Len(audio) + 1] = loud
    /\ \A i \in 1..Len(audio) : more[i] = audio[i]

LEMMA AppendIsOneMore ==
    ASSUME NEW audio \in Seq(BOOLEAN), NEW loud \in BOOLEAN
    PROVE  OneMore(audio, Append(audio, loud), loud)
BY DEF OneMore

\* What is said of the first frames stays true when there is one more.
LEMMA SilentStays ==
    ASSUME NEW audio \in Seq(BOOLEAN), NEW more, NEW loud, OneMore(audio, more, loud),
           NEW first \in Nat \ {0}, NEW last \in Int, last <= Len(audio)
    PROVE  Silent(more, first, last) <=> Silent(audio, first, last)
<1>1. Len(audio) \in Nat
  OBVIOUS
<1>2. \A i \in first..last : i \in 1..Len(audio)
  BY <1>1
<1> QED
  BY <1>2 DEF OneMore, Silent

LEMMA LoudStays ==
    ASSUME NEW audio \in Seq(BOOLEAN), NEW more, NEW loud, OneMore(audio, more, loud),
           NEW first \in Nat \ {0}, NEW last \in Int, last <= Len(audio)
    PROVE  LoudFrames(more, first, last) = LoudFrames(audio, first, last)
<1>1. Len(audio) \in Nat
  OBVIOUS
<1>2. \A i \in first..last : i \in 1..Len(audio)
  BY <1>1
<1> QED
  BY <1>2 DEF OneMore, LoudFrames

LEMMA PausesStays ==
    ASSUME NEW audio \in Seq(BOOLEAN), NEW more, NEW loud, OneMore(audio, more, loud),
           NEW onset \in Nat \ {0}, NEW t \in Nat, t <= Len(audio)
    PROVE  Pauses(more, onset, t) <=> Pauses(audio, onset, t)
<1>1. \A l \in onset..t - 1 : Silent(more, l + 1, t) <=> Silent(audio, l + 1, t)
  <2> TAKE l \in onset..t - 1
  <2>1. l + 1 \in Nat \ {0}
    OBVIOUS
  <2> QED
    BY <2>1, SilentStays
<1>2. LoudFrames(more, onset, t) = LoudFrames(audio, onset, t)
  BY LoudStays
<1> QED
  BY <1>1, <1>2 DEF Pauses

LEMMA SpeechStays ==
    ASSUME NEW audio \in Seq(BOOLEAN), NEW more, NEW loud, OneMore(audio, more, loud),
           NEW from \in Nat, NEW onset, NEW t \in Nat, t <= Len(audio)
    PROVE  Speech(more, from, onset, t) <=> Speech(audio, from, onset, t)
<1> SUFFICES ASSUME onset \in from + 1..t
             PROVE  Speech(more, from, onset, t) <=> Speech(audio, from, onset, t)
  BY DEF Speech
<1>1. /\ onset \in Nat \ {0} /\ onset \in 1..Len(audio) /\ from + 1 \in Nat \ {0}
      /\ onset - 1 \in Int /\ onset - 1 <= Len(audio)
  OBVIOUS
<1>2. more[onset] = audio[onset]
  BY <1>1 DEF OneMore
<1>3. Silent(more, from + 1, onset - 1) <=> Silent(audio, from + 1, onset - 1)
  BY <1>1, SilentStays
<1>4. \A u \in onset..t : Pauses(more, onset, u) <=> Pauses(audio, onset, u)
  <2> TAKE u \in onset..t
  <2>1. u \in Nat /\ u <= Len(audio)
    BY <1>1
  <2> QED
    BY <1>1, <2>1, PausesStays
<1> QED
  BY <1>2, <1>3, <1>4 DEF Speech

LEMMA UtteranceStays ==
    ASSUME NEW audio \in Seq(BOOLEAN), NEW more, NEW loud, OneMore(audio, more, loud),
           NEW from \in Nat, NEW utterance, IsUtterance(audio, from, utterance)
    PROVE  IsUtterance(more, from, utterance)
<1>1. PICK t \in from + 2..Len(audio) : \E onset \in from + 1..t - 1 :
             /\ Speech(audio, from, onset, t - 1)
             /\ Pauses(audio, onset, t)
             /\ utterance = Since(from, onset, t)
  BY DEF IsUtterance
<1>2. PICK onset \in from + 1..t - 1 :
             /\ Speech(audio, from, onset, t - 1)
             /\ Pauses(audio, onset, t)
             /\ utterance = Since(from, onset, t)
  BY <1>1
<1>3. /\ t \in Nat /\ t - 1 \in Nat /\ t <= Len(audio) /\ t - 1 <= Len(audio)
      /\ onset \in Nat \ {0}
  OBVIOUS
<1>4. Speech(more, from, onset, t - 1)
  BY <1>2, <1>3, SpeechStays
<1>5. Pauses(more, onset, t)
  BY <1>2, <1>3, PausesStays
<1>6. t \in from + 2..Len(more)
  BY <1>3 DEF OneMore
<1> QED
  BY <1>2, <1>4, <1>5, <1>6 DEF IsUtterance

\* Loud frames are counted one by one.
LEMMA LoudCount ==
    ASSUME NEW audio, NEW first \in Nat, NEW last \in Nat
    PROVE  /\ IsFiniteSet(LoudFrames(audio, first, last))
           /\ Cardinality(LoudFrames(audio, first, last)) \in Nat
<1>1. IsFiniteSet(first..last)
  BY FS_Interval
<1>2. LoudFrames(audio, first, last) \subseteq first..last
  BY DEF LoudFrames
<1> QED
  BY <1>1, <1>2, FS_Subset, FS_CardinalityType

LEMMA LoudCountNext ==
    ASSUME NEW audio, NEW first \in Nat, NEW last \in Nat, first <= last + 1
    PROVE  /\ audio[last + 1] => Cardinality(LoudFrames(audio, first, last + 1)) =
                                   Cardinality(LoudFrames(audio, first, last)) + 1
           /\ ~audio[last + 1] => Cardinality(LoudFrames(audio, first, last + 1)) =
                                    Cardinality(LoudFrames(audio, first, last))
<1>1. first..last + 1 = (first..last) \cup {last + 1} /\ last + 1 \notin first..last
  OBVIOUS
<1>2. CASE audio[last + 1]
  <2>1. LoudFrames(audio, first, last + 1) = LoudFrames(audio, first, last) \cup {last + 1}
    BY <1>1, <1>2 DEF LoudFrames
  <2>2. last + 1 \notin LoudFrames(audio, first, last)
    BY <1>1 DEF LoudFrames
  <2>3. Cardinality(LoudFrames(audio, first, last) \cup {last + 1}) =
          Cardinality(LoudFrames(audio, first, last)) + 1
    BY <2>2, LoudCount, FS_AddElement
  <2> QED
    BY <1>2, <2>1, <2>3
<1>3. CASE ~audio[last + 1]
  <2>1. LoudFrames(audio, first, last + 1) = LoudFrames(audio, first, last)
    BY <1>1, <1>3 DEF LoudFrames
  <2>2. Cardinality(LoudFrames(audio, first, last)) \in Nat
    BY LoudCount
  <2> QED
    BY <1>3, <2>1, <2>2
<1> QED
  BY <1>2, <1>3

\* Milliseconds.
LEMMA Milliseconds ==
    ASSUME NEW k \in Nat, NEW l \in Nat
    PROVE  /\ k * FrameMs \in Nat
           /\ (k + 1) * FrameMs = k * FrameMs + FrameMs
           /\ k <= l => k * FrameMs <= l * FrameMs
<1>1. FrameMs \in Nat
  BY EndpointerAssumption
<1>2. k * FrameMs \in Nat
  BY <1>1
<1>3. (k + 1) * FrameMs = k * FrameMs + FrameMs
  BY <1>1
<1>4. ASSUME k <= l
      PROVE  k * FrameMs <= l * FrameMs
  BY <1>1, <1>4
<1> QED
  BY <1>2, <1>3, <1>4

----------------------------------------------------------------------------
(* The endpointer in step with the audio *)

Done(ep) == Before(ep.cut, Len(ep.cut) + 1)

\* The utterances are those of the audio heard so far, and end in it.
CutsInOrder(ep) ==
    /\ Done(ep) \in 0..Len(ep.heard)
    /\ \A k \in DOMAIN ep.cut :
         /\ Before(ep.cut, k) \in Nat
         /\ IsUtterance(ep.heard, Before(ep.cut, k), ep.cut[k])

\* There was no speech since the last utterance, and the pre-roll holds the latest frames.
HearsQuiet(ep) ==
    LET n == Len(ep.heard)
    IN  /\ ~ep.speaking
        /\ Silent(ep.heard, Done(ep) + 1, n)
        /\ ep.preroll = Since(Done(ep), n, n)

\* The length of frames.
Ms(frames) == frames * FrameMs

\* Frame l is the latest loud one, and the silence since then is measured.
SilentSince(ep, l) ==
    LET n == Len(ep.heard)
    IN  /\ ep.heard[l] /\ Silent(ep.heard, l + 1, n)
        /\ ep.silenceMs = Ms(n - l)

\* Speech began at `onset', and what is collected and counted is of it.
HearsSpeech(ep, onset) ==
    LET n == Len(ep.heard)
    IN  /\ ep.speaking
        /\ Speech(ep.heard, Done(ep), onset, n)
        /\ ep.utterance = Since(Done(ep), onset, n)
        /\ ep.speechMs = Cardinality(LoudFrames(ep.heard, onset, n)) * FrameMs
        /\ \E l \in onset..n : SilentSince(ep, l)

Follows(ep) ==
    /\ ep \in States
    /\ CutsInOrder(ep)
    /\ HearsQuiet(ep) \/ \E onset \in 1..Len(ep.heard) : HearsSpeech(ep, onset)

\* What a frame does to the state.
LEMMA QuietFields ==
    ASSUME NEW ep \in States, NEW loud \in BOOLEAN, ~ep.speaking,
           NEW next, next = Hear(ep, loud),
           Rolled(ep.preroll, Len(ep.heard) + 1) \in Seq(Nat)
    PROVE  /\ next \in States
           /\ next.heard = Append(ep.heard, loud) /\ next.cut = ep.cut
           /\ next.leftover = ep.leftover /\ next.finished = ep.finished
           /\ next.speaking = loud /\ next.started = (ep.started \/ loud)
           /\ loud => /\ next.utterance = Rolled(ep.preroll, Len(ep.heard) + 1)
                      /\ next.speechMs = FrameMs /\ next.silenceMs = 0
           /\ ~loud => next.preroll = Rolled(ep.preroll, Len(ep.heard) + 1)
<1> DEFINE preroll == Rolled(ep.preroll, Len(ep.heard) + 1)
           heard == Append(ep.heard, loud)
<1>1. heard \in Seq(BOOLEAN) /\ FrameMs \in Nat
  BY EndpointerAssumption DEF States
<1>2. preroll \in Seq(Nat)
  OBVIOUS
<1>3. next = [HearQuiet(ep, loud) EXCEPT !.heard = heard]
  <2>1. HearQuiet(ep, loud).heard = ep.heard
    BY DEF HearQuiet, States
  <2> QED
    BY <2>1 DEF Hear
<1>4. CASE loud
  <2>1. next = [ep EXCEPT !.speaking = TRUE, !.started = TRUE, !.utterance = preroll,
                          !.preroll = <<>>, !.speechMs = FrameMs, !.silenceMs = 0,
                          !.heard = heard]
    BY <1>3, <1>4 DEF HearQuiet
  <2> HIDE DEF preroll, heard
  <2>2. /\ next.heard = heard /\ next.cut = ep.cut
        /\ next.leftover = ep.leftover /\ next.finished = ep.finished
        /\ next.speaking = TRUE /\ next.started = TRUE
        /\ next.utterance = preroll /\ next.speechMs = FrameMs /\ next.silenceMs = 0
    BY <2>1 DEF States
  <2>3. << >> \in Seq(Nat) /\ 0 \in Nat /\ TRUE \in BOOLEAN /\ FALSE \in BOOLEAN
    OBVIOUS
  <2>4. next \in States
    BY <1>1, <1>2, <2>1, <2>3 DEF States
  <2> QED
    BY <1>4, <2>2, <2>4 DEF preroll, heard, States
<1>5. CASE ~loud
  <2>1. next = [ep EXCEPT !.preroll = preroll, !.heard = heard]
    BY <1>3, <1>5 DEF HearQuiet
  <2> HIDE DEF preroll, heard
  <2>2. /\ next.heard = heard /\ next.cut = ep.cut
        /\ next.leftover = ep.leftover /\ next.finished = ep.finished
        /\ next.speaking = ep.speaking /\ next.started = ep.started /\ next.preroll = preroll
    BY <2>1 DEF States
  <2>3. << >> \in Seq(Nat) /\ 0 \in Nat /\ TRUE \in BOOLEAN /\ FALSE \in BOOLEAN
    OBVIOUS
  <2>4. next \in States
    BY <1>1, <1>2, <2>1, <2>3 DEF States
  <2> QED
    BY <1>5, <2>2, <2>4 DEF preroll, heard, States
<1> QED
  BY <1>4, <1>5

Ends(ep) == ep.silenceMs + FrameMs >= SilenceMs /\ ep.speechMs >= MinSpeechMs

LEMMA SpeechFields ==
    ASSUME NEW ep \in States, NEW loud \in BOOLEAN, ep.speaking,
           NEW next, next = Hear(ep, loud)
    PROVE  /\ next \in States
           /\ next.heard = Append(ep.heard, loud)
           /\ next.leftover = ep.leftover /\ next.started = ep.started
           /\ loud \/ ~Ends(ep) =>
                /\ next.speaking /\ next.finished = ep.finished /\ next.cut = ep.cut
                /\ next.utterance = Append(ep.utterance, Len(ep.heard) + 1)
           /\ loud => next.speechMs = ep.speechMs + FrameMs /\ next.silenceMs = 0
           /\ ~loud /\ ~Ends(ep) =>
                next.speechMs = ep.speechMs /\ next.silenceMs = ep.silenceMs + FrameMs
           /\ ~loud /\ Ends(ep) =>
                /\ ~next.speaking /\ next.finished /\ next.preroll = << >>
                /\ next.cut = Append(ep.cut, Append(ep.utterance, Len(ep.heard) + 1))
<1> DEFINE utterance == Append(ep.utterance, Len(ep.heard) + 1)
           heard == Append(ep.heard, loud)
           cut == Append(ep.cut, utterance)
<1>1. heard \in Seq(BOOLEAN) /\ FrameMs \in Nat
  BY EndpointerAssumption DEF States
<1>2. utterance \in Seq(Nat)
  BY DEF States
<1>3. cut \in Seq(Seq(Nat))
  BY <1>2 DEF States
<1>4. next = [HearSpeech(ep, loud) EXCEPT !.heard = heard]
  <2>1. HearSpeech(ep, loud).heard = ep.heard
    BY DEF HearSpeech, States
  <2> QED
    BY <2>1 DEF Hear
<1>5. ep.speechMs + FrameMs \in Nat /\ ep.silenceMs + FrameMs \in Nat
  BY <1>1 DEF States
<1>6. CASE loud
  <2>1. next = [ep EXCEPT !.utterance = utterance, !.speechMs = ep.speechMs + FrameMs,
                          !.silenceMs = 0, !.heard = heard]
    BY <1>4, <1>6 DEF HearSpeech
  <2> HIDE DEF utterance, heard
  <2>2. /\ next.heard = heard /\ next.cut = ep.cut
        /\ next.leftover = ep.leftover /\ next.finished = ep.finished
        /\ next.speaking = ep.speaking /\ next.started = ep.started
        /\ next.utterance = utterance /\ next.speechMs = ep.speechMs + FrameMs
        /\ next.silenceMs = 0
    BY <2>1 DEF States
  <2>3. << >> \in Seq(Nat) /\ 0 \in Nat /\ TRUE \in BOOLEAN /\ FALSE \in BOOLEAN
    OBVIOUS
  <2>4. next \in States
    BY <1>1, <1>2, <1>5, <2>1, <2>3 DEF States
  <2> QED
    BY <1>6, <2>2, <2>4 DEF utterance, heard
<1>7. CASE ~loud /\ ~Ends(ep)
  <2>1. next = [ep EXCEPT !.utterance = utterance, !.silenceMs = ep.silenceMs + FrameMs,
                          !.heard = heard]
    BY <1>4, <1>7 DEF HearSpeech, Ends
  <2> HIDE DEF utterance, heard
  <2>2. /\ next.heard = heard /\ next.cut = ep.cut
        /\ next.leftover = ep.leftover /\ next.finished = ep.finished
        /\ next.speaking = ep.speaking /\ next.started = ep.started
        /\ next.utterance = utterance /\ next.speechMs = ep.speechMs
        /\ next.silenceMs = ep.silenceMs + FrameMs
    BY <2>1 DEF States
  <2>3. << >> \in Seq(Nat) /\ 0 \in Nat /\ TRUE \in BOOLEAN /\ FALSE \in BOOLEAN
    OBVIOUS
  <2>4. next \in States
    BY <1>1, <1>2, <1>5, <2>1, <2>3 DEF States
  <2> QED
    BY <1>7, <2>2, <2>4 DEF utterance, heard
<1>8. CASE ~loud /\ Ends(ep)
  <2>1. next = [ep EXCEPT !.finished = TRUE, !.cut = cut, !.utterance = <<>>,
                          !.speaking = FALSE, !.speechMs = 0, !.silenceMs = 0,
                          !.preroll = <<>>, !.heard = heard]
    BY <1>4, <1>8 DEF HearSpeech, Ends
  <2> HIDE DEF utterance, heard, cut
  <2>2. /\ next.heard = heard /\ next.cut = cut
        /\ next.leftover = ep.leftover /\ next.finished = TRUE
        /\ next.speaking = FALSE /\ next.started = ep.started /\ next.preroll = << >>
    BY <2>1 DEF States
  <2>3. << >> \in Seq(Nat) /\ 0 \in Nat /\ TRUE \in BOOLEAN /\ FALSE \in BOOLEAN
    OBVIOUS
  <2>4. next \in States
    BY <1>1, <1>3, <2>1, <2>3 DEF States
  <2> QED
    BY <1>8, <2>2, <2>4 DEF utterance, heard, cut
<1> QED
  BY <1>6, <1>7, <1>8

\* A frame that ends no utterance leaves the earlier ones as they are.
LEMMA CutsStay ==
    ASSUME NEW ep \in States, NEW next \in States, CutsInOrder(ep), next.cut = ep.cut,
           NEW loud, OneMore(ep.heard, next.heard, loud)
    PROVE  CutsInOrder(next) /\ Done(next) = Done(ep)
<1>1. Done(next) = Done(ep) /\ \A k : Before(next.cut, k) = Before(ep.cut, k)
  BY DEF Done
<1>2. Len(ep.heard) \in Nat /\ Len(next.heard) = Len(ep.heard) + 1 /\ ep.heard \in Seq(BOOLEAN)
  BY DEF OneMore, States
<1>3. Done(next) \in 0..Len(next.heard)
  BY <1>1, <1>2 DEF CutsInOrder
<1>4. ASSUME NEW k \in DOMAIN next.cut
      PROVE  /\ Before(next.cut, k) \in Nat
             /\ IsUtterance(next.heard, Before(next.cut, k), next.cut[k])
  <2>1. Before(ep.cut, k) \in Nat /\ IsUtterance(ep.heard, Before(ep.cut, k), ep.cut[k])
    BY <1>4 DEF CutsInOrder
  <2>2. IsUtterance(next.heard, Before(ep.cut, k), ep.cut[k])
    BY <1>2, <2>1, UtteranceStays
  <2> QED
    BY <1>1, <2>1, <2>2
<1> QED
  BY <1>1, <1>3, <1>4 DEF CutsInOrder

\* A frame heard in the quiet.
LEMMA QuietFollows ==
    ASSUME NEW ep, Follows(ep), HearsQuiet(ep), NEW loud \in BOOLEAN
    PROVE  Follows(Hear(ep, loud))
<1> DEFINE next == Hear(ep, loud)
           n == Len(ep.heard)
           from == Done(ep)
           audio == ep.heard
           more == Append(ep.heard, loud)
<1>1. /\ ep \in States /\ ~ep.speaking /\ audio \in Seq(BOOLEAN) /\ n \in Nat
      /\ from \in 0..n /\ from \in Nat /\ from <= n /\ CutsInOrder(ep)
      /\ Silent(audio, from + 1, n) /\ ep.preroll = Since(from, n, n)
  BY DEF Follows, HearsQuiet, CutsInOrder, States
<1>2. OneMore(audio, more, loud)
  BY <1>1, AppendIsOneMore
<1>3. Rolled(ep.preroll, n + 1) = Since(from, n + 1, n + 1)
  BY <1>1, PrerollRolls
<1>4. Since(from, n + 1, n + 1) \in Seq(Nat)
  <2>1. n + 1 \in Nat /\ from < n + 1 /\ n + 1 <= n + 1
    BY <1>1
  <2> QED
    BY <1>1, <2>1, SinceNext
<1> HIDE DEF next
<1>5. /\ next \in States
      /\ next.heard = more /\ next.cut = ep.cut
      /\ next.speaking = loud
      /\ loud => /\ next.utterance = Since(from, n + 1, n + 1)
                 /\ next.speechMs = FrameMs /\ next.silenceMs = 0
      /\ ~loud => next.preroll = Since(from, n + 1, n + 1)
  BY <1>1, <1>3, <1>4, QuietFields DEF next
<1> HIDE DEF more, from
<1>6. CutsInOrder(next) /\ Done(next) = from
  BY <1>1, <1>2, <1>5, CutsStay DEF from
<1>7. /\ Len(more) = n + 1 /\ more[n + 1] = loud /\ n + 1 \in Nat
      /\ Silent(more, from + 1, n)
  <2>1. from + 1 \in Nat \ {0} /\ n \in Int /\ n <= Len(audio)
    BY <1>1
  <2> QED
    BY <1>1, <1>2, <2>1, SilentStays DEF OneMore
<1>8. CASE loud
  <2>1. Speech(more, from, n + 1, n + 1)
    <3>1. n + 1 \in from + 1..n + 1 /\ (n + 1) - 1 = n
      BY <1>1
    <3>2. \A u \in n + 1..n + 1 : u = n + 1
      BY <1>1
    <3>3. n + 1..(n + 1) - 1 = {}
      BY <1>1
    <3>4. ~Pauses(more, n + 1, n + 1)
      BY <3>3 DEF Pauses
    <3> QED
      BY <1>7, <1>8, <3>1, <3>2, <3>4 DEF Speech
  <2>2. Cardinality(LoudFrames(more, n + 1, n + 1)) * FrameMs = FrameMs
    <3>1. LoudFrames(more, n + 1, n) = {}
      BY <1>1 DEF LoudFrames
    <3>2. Cardinality(LoudFrames(more, n + 1, n)) = 0
      BY <3>1, FS_EmptySet
    <3>3. n + 1 \in Nat /\ n + 1 <= n + 1
      BY <1>1
    <3>4. Cardinality(LoudFrames(more, n + 1, n + 1)) = 1
      <4>1. ASSUME NEW m \in Nat, m = n + 1
            PROVE  Cardinality(LoudFrames(more, m, n + 1)) =
                     Cardinality(LoudFrames(more, m, n)) + 1
        <5>1. m <= n + 1 /\ more[n + 1]
          BY <1>7, <1>8, <4>1
        <5> QED
          BY <1>1, <5>1, LoudCountNext
      <4>2. Cardinality(LoudFrames(more, n + 1, n + 1)) =
              Cardinality(LoudFrames(more, n + 1, n)) + 1
        BY <3>3, <4>1
      <4> QED
        BY <3>2, <4>2
    <3> QED
      BY <3>4, EndpointerAssumption
  <2>3. SilentSince(next, n + 1) /\ n + 1 \in n + 1..n + 1
    <3>1. (n + 1) - (n + 1) = 0 /\ (n + 1) + 1..n + 1 = {} /\ n + 1 \in n + 1..n + 1
      BY <1>1
    <3>2. Silent(more, (n + 1) + 1, n + 1)
      BY <3>1 DEF Silent
    <3>3. Ms(0) = 0
      BY EndpointerAssumption DEF Ms
    <3> QED
      BY <1>5, <1>7, <1>8, <3>1, <3>2, <3>3 DEF SilentSince
  <2>4. HearsSpeech(next, n + 1)
    BY <1>5, <1>6, <1>7, <1>8, <2>1, <2>2, <2>3 DEF HearsSpeech
  <2>5. n + 1 \in 1..Len(next.heard)
    BY <1>1, <1>5, <1>7
  <2> QED
    BY <1>5, <1>6, <2>4, <2>5 DEF Follows, next
<1>9. CASE ~loud
  <2>1. Silent(more, from + 1, n + 1)
    <3>1. \A i \in from + 1..n + 1 : i \in from + 1..n \/ i = n + 1
      BY <1>1
    <3> QED
      BY <1>7, <1>9, <3>1 DEF Silent
  <2>2. HearsQuiet(next)
    BY <1>5, <1>6, <1>7, <1>9, <2>1 DEF HearsQuiet
  <2> QED
    BY <1>5, <1>6, <2>2 DEF Follows, next
<1> QED
  BY <1>8, <1>9

\* The last utterance is where the next one may begin.
LEMMA DoneIsLast ==
    ASSUME NEW ep \in States, NEW next \in States, NEW utterance \in Seq(Nat),
           next.cut = Append(ep.cut, utterance)
    PROVE  /\ Done(next) = Last(utterance)
           /\ DOMAIN next.cut = DOMAIN ep.cut \cup {Len(ep.cut) + 1}
           /\ next.cut[Len(ep.cut) + 1] = utterance
           /\ Before(next.cut, Len(ep.cut) + 1) = Done(ep)
           /\ \A k \in DOMAIN ep.cut :
                next.cut[k] = ep.cut[k] /\ Before(next.cut, k) = Before(ep.cut, k)
<1> DEFINE old == ep.cut
           c == next.cut
           m == Len(old)
<1>1. old \in Seq(Seq(Nat)) /\ c = Append(old, utterance) /\ m \in Nat
  BY DEF States
<1> HIDE DEF old, c
<1>2. /\ DOMAIN old = 1..m /\ Len(c) = m + 1 /\ DOMAIN c = 1..m + 1
      /\ c[m + 1] = utterance /\ \A k \in 1..m : c[k] = old[k]
  BY <1>1
<1>3. Before(c, Len(c) + 1) = Last(utterance)
  <2>1. (m + 1) + 1 # 1 /\ ((m + 1) + 1) - 1 = m + 1
    BY <1>1
  <2> QED
    BY <1>2, <2>1 DEF Before
<1>4. ASSUME NEW k \in 1..m + 1
      PROVE  Before(c, k) = Before(old, k)
  <2>1. k # 1 => k - 1 \in 1..m
    BY <1>1
  <2> QED
    BY <1>2, <2>1 DEF Before
<1>5. m + 1 \in 1..m + 1 /\ 1..m + 1 = (1..m) \cup {m + 1} /\ \A k \in 1..m : k \in 1..m + 1
  BY <1>1
<1> QED
  BY <1>2, <1>3, <1>4, <1>5 DEF Done, old, c

\* What is measured in an utterance, when there is one frame more.
LEMMA SpeechMeasures ==
    ASSUME NEW ep, Follows(ep), NEW onset \in 1..Len(ep.heard), HearsSpeech(ep, onset),
           NEW loud \in BOOLEAN, NEW more, more = Append(ep.heard, loud)
    PROVE  /\ Cardinality(LoudFrames(more, onset, Len(ep.heard) + 1)) * FrameMs =
                ep.speechMs + (IF loud THEN FrameMs ELSE 0)
           /\ ~loud => \E l \in onset..Len(ep.heard) :
                /\ more[l] /\ Silent(more, l + 1, Len(ep.heard) + 1)
                /\ Ms(Len(ep.heard) + 1 - l) = ep.silenceMs + FrameMs
<1> DEFINE n == Len(ep.heard)
           audio == ep.heard
<1>1. /\ ep \in States /\ audio \in Seq(BOOLEAN) /\ n \in Nat /\ n + 1 \in Nat
      /\ onset \in Nat \ {0} /\ onset <= n /\ onset <= n + 1
      /\ ep.speechMs = Cardinality(LoudFrames(audio, onset, n)) * FrameMs
      /\ \E l \in onset..n : SilentSince(ep, l)
  BY DEF Follows, HearsSpeech, States
<1>2. OneMore(audio, more, loud)
  BY <1>1, AppendIsOneMore
<1>3. Len(more) = n + 1 /\ more[n + 1] = loud /\ \A i \in 1..n : more[i] = audio[i]
  BY <1>2 DEF OneMore
<1> HIDE DEF n, audio
<1>4. Cardinality(LoudFrames(more, onset, n + 1)) * FrameMs =
        ep.speechMs + (IF loud THEN FrameMs ELSE 0)
  <2> DEFINE count == Cardinality(LoudFrames(audio, onset, n))
  <2>1. count \in Nat
    BY <1>1, LoudCount
  <2>2. LoudFrames(more, onset, n) = LoudFrames(audio, onset, n)
    <3>1. n \in Int /\ n <= Len(audio)
      BY <1>1 DEF n, audio
    <3> QED
      BY <1>1, <1>2, <3>1, LoudStays
  <2>3. /\ loud => Cardinality(LoudFrames(more, onset, n + 1)) = count + 1
        /\ ~loud => Cardinality(LoudFrames(more, onset, n + 1)) = count
    <3>1. /\ more[n + 1] => Cardinality(LoudFrames(more, onset, n + 1)) =
                              Cardinality(LoudFrames(more, onset, n)) + 1
          /\ ~more[n + 1] => Cardinality(LoudFrames(more, onset, n + 1)) =
                               Cardinality(LoudFrames(more, onset, n))
      BY <1>1, LoudCountNext
    <3> QED
      BY <1>3, <2>2, <3>1
  <2>4. ep.speechMs = count * FrameMs
    BY <1>1
  <2> HIDE DEF count
  <2>5. (count + 1) * FrameMs = count * FrameMs + FrameMs /\ count * FrameMs \in Nat
    BY <2>1, Milliseconds
  <2>6. CASE loud
    BY <2>3, <2>4, <2>5, <2>6
  <2>7. CASE ~loud
    <3>1. Cardinality(LoudFrames(more, onset, n + 1)) = count
      BY <2>1, <2>3, <2>7
    <3> QED
      BY <2>4, <2>5, <2>7, <3>1
  <2> QED
    BY <2>6, <2>7
<1>5. ASSUME ~loud
      PROVE  \E l \in onset..n :
                /\ more[l] /\ Silent(more, l + 1, n + 1)
                /\ Ms(n + 1 - l) = ep.silenceMs + FrameMs
  <2>1. PICK l \in onset..n : SilentSince(ep, l)
    BY <1>1
  <2>2. /\ l \in 1..n /\ audio[l] /\ Silent(audio, l + 1, n)
        /\ ep.silenceMs = Ms(n - l)
    BY <1>1, <2>1 DEF SilentSince, n, audio
  <2>3. more[l]
    BY <1>3, <2>2
  <2>4. Silent(more, l + 1, n + 1)
    <3>1. ASSUME NEW i \in l + 1..n + 1
          PROVE  ~more[i]
      <4>1. i \in l + 1..n \/ i = n + 1
        BY <1>1, <2>2, <3>1
      <4>2. CASE i \in l + 1..n
        <5>1. i \in 1..n /\ ~audio[i]
          BY <1>1, <2>2, <4>2 DEF Silent
        <5> QED
          BY <1>3, <5>1
      <4>3. CASE i = n + 1
        BY <1>3, <1>5, <4>3
      <4> QED
        BY <4>1, <4>2, <4>3
    <3> QED
      BY <3>1 DEF Silent
  <2>5. Ms(n + 1 - l) = ep.silenceMs + FrameMs
    <3>1. n - l \in Nat /\ n + 1 - l = (n - l) + 1
      BY <1>1, <2>2
    <3>2. Ms((n - l) + 1) = Ms(n - l) + FrameMs
      BY <3>1, Milliseconds DEF Ms
    <3> QED
      BY <2>2, <3>1, <3>2
  <2> QED
    BY <2>3, <2>4, <2>5
<1> QED
  BY <1>4, <1>5 DEF n, audio

\* There is a pause at the next frame if and only if the endpointer ends the utterance.
LEMMA PausesWhenEnds ==
    ASSUME NEW ep, Follows(ep), NEW onset \in 1..Len(ep.heard), HearsSpeech(ep, onset),
           NEW loud \in BOOLEAN, NEW more, more = Append(ep.heard, loud)
    PROVE  Pauses(more, onset, Len(ep.heard) + 1) <=> ~loud /\ Ends(ep)
<1> DEFINE n == Len(ep.heard)
<1>1. /\ ep \in States /\ ep.heard \in Seq(BOOLEAN) /\ n \in Nat /\ onset \in Nat \ {0}
      /\ onset <= n /\ ep.speechMs \in Nat /\ ep.silenceMs \in Nat /\ FrameMs \in Nat
      /\ more[n + 1] = loud /\ SilenceMs \in Nat /\ MinSpeechMs \in Nat
      /\ (n + 1) - 1 = n
  BY EndpointerAssumption DEF Follows, States
<1>2. /\ Cardinality(LoudFrames(more, onset, n + 1)) * FrameMs =
           ep.speechMs + (IF loud THEN FrameMs ELSE 0)
      /\ ~loud => \E l \in onset..n :
                /\ more[l] /\ Silent(more, l + 1, n + 1)
                /\ Ms(n + 1 - l) = ep.silenceMs + FrameMs
  BY SpeechMeasures
<1> HIDE DEF n
<1>3. ASSUME ~loud, Ends(ep)
      PROVE  Pauses(more, onset, n + 1)
  <2>1. PICK l \in onset..n :
                /\ more[l] /\ Silent(more, l + 1, n + 1)
                /\ Ms(n + 1 - l) = ep.silenceMs + FrameMs
    BY <1>2, <1>3
  <2>2. (n + 1 - l) * FrameMs >= SilenceMs
    BY <1>3, <2>1 DEF Ends, Ms
  <2>3. Cardinality(LoudFrames(more, onset, n + 1)) * FrameMs = ep.speechMs
    BY <1>1, <1>2, <1>3
  <2>4. Cardinality(LoudFrames(more, onset, n + 1)) * FrameMs >= MinSpeechMs
    BY <1>3, <2>3 DEF Ends
  <2> QED
    BY <1>1, <2>1, <2>2, <2>4 DEF Pauses
<1>4. ASSUME Pauses(more, onset, n + 1)
      PROVE  ~loud /\ Ends(ep)
  <2>1. PICK k \in onset..n :
               Silent(more, k + 1, n + 1) /\ (n + 1 - k) * FrameMs >= SilenceMs
    BY <1>1, <1>4 DEF Pauses
  <2>2. k \in Nat /\ k <= n /\ onset <= k
    BY <1>1, <2>1
  <2>3. n + 1 \in k + 1..n + 1
    BY <1>1, <2>2
  <2>4. ~loud
    BY <1>1, <2>1, <2>3 DEF Silent
  <2>5. PICK l \in onset..n :
                /\ more[l] /\ Silent(more, l + 1, n + 1)
                /\ Ms(n + 1 - l) = ep.silenceMs + FrameMs
    BY <1>2, <2>4
  <2>6. l <= k
    <3>1. ~(l \in k + 1..n + 1)
      BY <2>1, <2>5 DEF Silent
    <3> QED
      BY <1>1, <2>2, <2>5, <3>1
  <2>7. (n + 1 - k) * FrameMs <= (n + 1 - l) * FrameMs
    <3>1. n + 1 - k \in Nat /\ n + 1 - l \in Nat /\ n + 1 - k <= n + 1 - l
      BY <1>1, <2>2, <2>5, <2>6
    <3> QED
      BY <3>1, Milliseconds
  <2>8. ep.silenceMs + FrameMs >= SilenceMs
    <3>1. n + 1 - k \in Nat
      BY <1>1, <2>2
    <3>2. (n + 1 - k) * FrameMs \in Nat
      BY <3>1, Milliseconds
    <3> DEFINE long == (n + 1 - k) * FrameMs
               measured == (n + 1 - l) * FrameMs
    <3>3. long >= SilenceMs /\ long <= measured /\ measured = ep.silenceMs + FrameMs
          /\ long \in Nat
      BY <2>1, <2>5, <2>7, <3>2 DEF Ms
    <3> HIDE DEF long, measured
    <3> QED
      BY <1>1, <3>3
  <2>9. ep.speechMs >= MinSpeechMs
    <3>1. Cardinality(LoudFrames(more, onset, n + 1)) * FrameMs >= MinSpeechMs
      BY <1>4 DEF Pauses
    <3> QED
      BY <1>1, <1>2, <2>4, <3>1
  <2> QED
    BY <2>4, <2>8, <2>9 DEF Ends
<1> QED
  BY <1>3, <1>4 DEF n

\* A frame heard in an utterance.
LEMMA SpeechFollows ==
    ASSUME NEW ep, Follows(ep), NEW onset \in 1..Len(ep.heard), HearsSpeech(ep, onset),
           NEW loud \in BOOLEAN
    PROVE  Follows(Hear(ep, loud))
<1> DEFINE next == Hear(ep, loud)
           n == Len(ep.heard)
           from == Done(ep)
           audio == ep.heard
           more == Append(ep.heard, loud)
<1>1. /\ ep \in States /\ ep.speaking /\ audio \in Seq(BOOLEAN) /\ n \in Nat /\ n + 1 \in Nat
      /\ from \in 0..n /\ from \in Nat /\ CutsInOrder(ep)
      /\ onset \in Nat /\ onset <= n /\ from < onset /\ onset \in from + 1..n
      /\ Speech(audio, from, onset, n)
      /\ ep.utterance = Since(from, onset, n)
  <2>1. ep \in States /\ ep.speaking /\ CutsInOrder(ep) /\ from \in 0..n
        /\ Speech(audio, from, onset, n) /\ ep.utterance = Since(from, onset, n)
    BY DEF Follows, HearsSpeech, CutsInOrder
  <2>2. audio \in Seq(BOOLEAN)
    BY <2>1 DEF States
  <2>3. onset \in from + 1..n
    BY <2>1 DEF Speech
  <2> HIDE DEF from, audio
  <2>4. n \in Nat
    BY <2>2 DEF audio
  <2> QED
    BY <2>1, <2>2, <2>3, <2>4
<1>2. OneMore(audio, more, loud)
  BY <1>1, AppendIsOneMore
<1>3. /\ Len(more) = n + 1 /\ more[n + 1] = loud
      /\ more \in Seq(BOOLEAN)
  BY <1>2 DEF OneMore
<1>4. /\ Append(ep.utterance, n + 1) = Since(from, onset, n + 1)
      /\ Since(from, onset, n + 1) \in Seq(Nat)
      /\ Last(Since(from, onset, n + 1)) = n + 1
  <2> HIDE DEF from, n
  <2>1. Append(Since(from, onset, n), n + 1) = Since(from, onset, n + 1)
    BY <1>1, SinceNext
  <2>2. onset <= n + 1
    BY <1>1
  <2>3. Since(from, onset, n + 1) \in Seq(Nat) /\ Last(Since(from, onset, n + 1)) = n + 1
    BY <1>1, <2>2, SinceNext
  <2> QED
    BY <1>1, <2>1, <2>3
<1>5. /\ Cardinality(LoudFrames(more, onset, n + 1)) * FrameMs =
           ep.speechMs + (IF loud THEN FrameMs ELSE 0)
      /\ ~loud => \E l \in onset..n :
                /\ more[l] /\ Silent(more, l + 1, n + 1)
                /\ Ms(n + 1 - l) = ep.silenceMs + FrameMs
  BY SpeechMeasures
<1>6. Pauses(more, onset, n + 1) <=> ~loud /\ Ends(ep)
  BY PausesWhenEnds
<1>7. Speech(more, from, onset, n)
  <2>1. n <= Len(audio) /\ onset \in Nat \ {0}
    BY <1>1
  <2> HIDE DEF n, from, audio, more
  <2> QED
    BY <1>1, <1>2, <2>1, SpeechStays
<1> HIDE DEF next
<1>8. /\ next \in States
      /\ next.heard = more
      /\ loud \/ ~Ends(ep) =>
                /\ next.speaking /\ next.cut = ep.cut
                /\ next.utterance = Append(ep.utterance, n + 1)
      /\ loud => next.speechMs = ep.speechMs + FrameMs /\ next.silenceMs = 0
      /\ ~loud /\ ~Ends(ep) =>
                next.speechMs = ep.speechMs /\ next.silenceMs = ep.silenceMs + FrameMs
      /\ ~loud /\ Ends(ep) =>
                /\ ~next.speaking /\ next.preroll = << >>
                /\ next.cut = Append(ep.cut, Append(ep.utterance, n + 1))
  BY <1>1, SpeechFields DEF next
<1>9. ep.speechMs \in Nat /\ FrameMs \in Nat
  BY <1>1, EndpointerAssumption DEF States
<1> HIDE DEF more, from, audio, n
<1>10. CASE loud \/ ~Ends(ep)
  <2>1. CutsInOrder(next) /\ Done(next) = from
    BY <1>1, <1>2, <1>8, <1>10, CutsStay DEF from, audio
  <2>2. Speech(more, from, onset, n + 1)
    <3>1. \A u \in onset..n + 1 : u \in onset..n \/ u = n + 1
      BY <1>1
    <3>2. onset \in from + 1..n + 1
      BY <1>1
    <3> QED
      BY <1>6, <1>7, <1>10, <3>1, <3>2 DEF Speech
  <2>3. next.speechMs = Cardinality(LoudFrames(more, onset, n + 1)) * FrameMs
    <3>1. CASE loud
      BY <1>5, <1>8, <3>1
    <3>2. CASE ~loud
      <4>1. next.speechMs = ep.speechMs
        BY <1>8, <1>10, <3>2
      <4>2. Cardinality(LoudFrames(more, onset, n + 1)) * FrameMs = ep.speechMs
        BY <1>5, <1>9, <3>2
      <4> QED
        BY <4>1, <4>2
    <3> QED
      BY <3>1, <3>2
  <2>4. \E l \in onset..n + 1 : SilentSince(next, l)
    <3>1. CASE loud
      <4>1. (n + 1) - (n + 1) = 0 /\ (n + 1) + 1..n + 1 = {} /\ n + 1 \in onset..n + 1
        BY <1>1
      <4>2. Silent(more, (n + 1) + 1, n + 1)
        BY <4>1 DEF Silent
      <4>3. Ms(0) = 0
        BY <1>9 DEF Ms
      <4>4. SilentSince(next, n + 1)
        BY <1>3, <1>8, <3>1, <4>1, <4>2, <4>3 DEF SilentSince
      <4> QED
        BY <4>1, <4>4
    <3>2. CASE ~loud
      <4>1. PICK l \in onset..n :
                /\ more[l] /\ Silent(more, l + 1, n + 1)
                /\ Ms(n + 1 - l) = ep.silenceMs + FrameMs
        BY <1>5, <3>2
      <4>2. SilentSince(next, l)
        <5>1. next.silenceMs = ep.silenceMs + FrameMs /\ Len(next.heard) = n + 1
          BY <1>3, <1>8, <1>10, <3>2
        <5>2. Len(next.heard) - l = n + 1 - l /\ next.heard[l]
          BY <1>1, <1>8, <4>1, <5>1
        <5>3. Silent(next.heard, l + 1, Len(next.heard))
          BY <1>8, <4>1, <5>1
        <5>4. next.silenceMs = Ms(Len(next.heard) - l)
          BY <4>1, <5>1, <5>2
        <5> QED
          BY <5>2, <5>3, <5>4 DEF SilentSince
      <4>3. l \in onset..n + 1
        BY <1>1
      <4> QED
        BY <4>2, <4>3
    <3> QED
      BY <3>1, <3>2
  <2>5. HearsSpeech(next, onset)
    BY <1>3, <1>4, <1>8, <1>10, <2>1, <2>2, <2>3, <2>4 DEF HearsSpeech
  <2>6. onset \in 1..Len(next.heard)
    BY <1>1, <1>3, <1>8 DEF n
  <2> QED
    BY <1>8, <2>1, <2>5, <2>6 DEF Follows, next
<1>11. CASE ~(loud \/ ~Ends(ep))
  <2> DEFINE utterance == Since(from, onset, n + 1)
             m == Len(ep.cut) + 1
  <2>1. next.cut = Append(ep.cut, utterance) /\ ~next.speaking /\ next.preroll = << >>
    BY <1>4, <1>8, <1>11
  <2>2. utterance \in Seq(Nat) /\ Last(utterance) = n + 1
    BY <1>4
  <2> HIDE DEF utterance
  <2>3. /\ Done(next) = n + 1
        /\ DOMAIN next.cut = DOMAIN ep.cut \cup {m}
        /\ next.cut[m] = utterance
        /\ Before(next.cut, m) = from
        /\ \A k \in DOMAIN ep.cut :
                next.cut[k] = ep.cut[k] /\ Before(next.cut, k) = Before(ep.cut, k)
    BY <1>1, <1>8, <2>1, <2>2, DoneIsLast DEF from
  <2> HIDE DEF m
  <2>4. IsUtterance(more, from, utterance)
    <3>1. n + 1 \in from + 2..Len(more) /\ onset \in from + 1..(n + 1) - 1 /\ (n + 1) - 1 = n
      BY <1>1, <1>3
    <3>2. Speech(more, from, onset, (n + 1) - 1) /\ Pauses(more, onset, n + 1)
      BY <1>6, <1>7, <1>11, <3>1
    <3> QED
      BY <3>1, <3>2 DEF IsUtterance, utterance
  <2>5. CutsInOrder(next)
    <3>1. ASSUME NEW k \in DOMAIN ep.cut
          PROVE  Before(ep.cut, k) \in Nat /\ IsUtterance(more, Before(ep.cut, k), ep.cut[k])
      <4>1. Before(ep.cut, k) \in Nat /\ IsUtterance(audio, Before(ep.cut, k), ep.cut[k])
        BY <1>1, <3>1 DEF CutsInOrder, audio
      <4> QED
        BY <1>1, <1>2, <4>1, UtteranceStays
    <3>2. Done(next) \in 0..Len(next.heard)
      BY <1>1, <1>3, <1>8, <2>3
    <3> QED
      BY <1>1, <1>8, <2>3, <2>4, <3>1, <3>2 DEF CutsInOrder
  <2>6. HearsQuiet(next)
    <3>1. (n + 1) + 1..n + 1 = {}
      BY <1>1
    <3>2. Silent(more, (n + 1) + 1, n + 1)
      BY <3>1 DEF Silent
    <3>3. Since(n + 1, n + 1, n + 1) = << >>
      <4>1. (n + 1) - PrerollFrames < n + 1
        BY <1>1, EndpointerAssumption
      <4>2. Since(n + 1, n + 1, n + 1) = Positions((n + 1) + 1, n + 1)
        BY <4>1 DEF Since
      <4>3. (n + 1) - ((n + 1) + 1) + 1 = 0 /\ 1..0 = {}
        BY <1>1
      <4>4. Positions((n + 1) + 1, n + 1) = [i \in {} |-> (n + 1) + 1 + i - 1]
        BY <4>3 DEF Positions
      <4> QED
        BY <4>2, <4>4
    <3> QED
      BY <1>3, <1>8, <2>1, <2>3, <3>2, <3>3 DEF HearsQuiet
  <2> QED
    BY <1>8, <2>5, <2>6 DEF Follows, next
<1> QED
  BY <1>10, <1>11

\* A frame keeps the state in step with the audio.
LEMMA HearFollows ==
    ASSUME NEW ep, Follows(ep), NEW loud \in BOOLEAN
    PROVE  Follows(Hear(ep, loud))
<1>1. CASE HearsQuiet(ep)
  BY <1>1, QuietFollows
<1>2. CASE \E onset \in 1..Len(ep.heard) : HearsSpeech(ep, onset)
  <2>1. PICK onset \in 1..Len(ep.heard) : HearsSpeech(ep, onset)
    BY <1>2
  <2> QED
    BY <2>1, SpeechFollows
<1> QED
  BY <1>1, <1>2 DEF Follows

LEMMA AudioJoins ==
    ASSUME NEW s \in Seq(BOOLEAN), NEW t \in Seq(BOOLEAN), NEW u \in Seq(BOOLEAN)
    PROVE  s \o t \in Seq(BOOLEAN) /\ (s \o t) \o u = s \o (t \o u)
<1>1. s \o t \in Seq(BOOLEAN)
  OBVIOUS
<1> QED
  BY <1>1, ConcatAssociative

LEMMA AudioGrows ==
    ASSUME NEW s \in Seq(BOOLEAN), NEW t \in Seq(BOOLEAN), NEW loud \in BOOLEAN
    PROVE  s \o Append(t, loud) = Append(s \o t, loud)
<1>1. <<loud>> \in Seq(BOOLEAN) /\ s \o t \in Seq(BOOLEAN)
  OBVIOUS
<1>2. Append(t, loud) = t \o <<loud>>
  BY AppendIsConcat
<1>3. Append(s \o t, loud) = (s \o t) \o <<loud>>
  BY <1>1, AppendIsConcat
<1> QED
  BY <1>1, <1>2, <1>3, AudioJoins

\* The audio that has come in.
Audio(ep) == ep.heard \o ep.leftover

\* What a call has reported so far, when there was speech before it or not.
Reporting(speaking, ep) ==
    /\ ep.started => ~speaking
    /\ ep.finished => speaking \/ ep.started
    /\ ep.speaking <=> ~ep.finished /\ (speaking \/ ep.started)

\* What Follows says is not about the flags of a call and the leftover.
LEMMA FollowsFields ==
    ASSUME NEW ep, Follows(ep), NEW next \in States,
           next.heard = ep.heard, next.cut = ep.cut, next.speaking = ep.speaking,
           next.utterance = ep.utterance, next.speechMs = ep.speechMs,
           next.silenceMs = ep.silenceMs, next.preroll = ep.preroll
    PROVE  Follows(next)
<1>1. Done(next) = Done(ep) /\ \A k : Before(next.cut, k) = Before(ep.cut, k)
  BY DEF Done
<1>2. CutsInOrder(next)
  BY <1>1 DEF Follows, CutsInOrder
<1>3. HearsQuiet(ep) => HearsQuiet(next)
  BY <1>1 DEF HearsQuiet
<1>4. ASSUME NEW l, SilentSince(ep, l)
      PROVE  SilentSince(next, l)
  BY <1>4 DEF SilentSince
<1>5. ASSUME NEW onset, HearsSpeech(ep, onset)
      PROVE  HearsSpeech(next, onset)
  BY <1>1, <1>4, <1>5 DEF HearsSpeech
<1> QED
  BY <1>2, <1>3, <1>5 DEF Follows

LEMMA TakeLater ==
    ASSUME NEW ep, Follows(ep), NEW loud \in BOOLEAN, NEW speaking \in BOOLEAN,
           ep.finished, Reporting(speaking, ep),
           NEW next, next = Take(ep, loud)
    PROVE  /\ Follows(next) /\ next.finished
           /\ Audio(next) = Append(Audio(ep), loud)
           /\ Reporting(speaking, next)
<1> DEFINE leftover == Append(ep.leftover, loud)
<1>1. ep \in States /\ ep.leftover \in Seq(BOOLEAN) /\ ep.heard \in Seq(BOOLEAN)
  BY DEF Follows, States
<1>2. leftover \in Seq(BOOLEAN)
  BY <1>1
<1>3. ep.heard \o leftover = Append(ep.heard \o ep.leftover, loud)
  BY <1>1, AudioGrows
<1> HIDE DEF leftover
<1>4. next = [ep EXCEPT !.leftover = leftover]
  BY DEF Take, leftover
<1>5. next \in States
  BY <1>1, <1>2, <1>4 DEF States
<1>6. /\ next.heard = ep.heard /\ next.cut = ep.cut /\ next.speaking = ep.speaking
      /\ next.utterance = ep.utterance /\ next.speechMs = ep.speechMs
      /\ next.silenceMs = ep.silenceMs /\ next.preroll = ep.preroll
      /\ next.started = ep.started /\ next.finished = ep.finished
      /\ next.leftover = leftover
  BY <1>1, <1>4 DEF States
<1>7. Follows(next)
  BY <1>5, <1>6, FollowsFields
<1>8. Reporting(speaking, next)
  BY <1>6 DEF Reporting
<1> QED
  BY <1>3, <1>6, <1>7, <1>8 DEF Audio

LEMMA TakeNow ==
    ASSUME NEW ep, Follows(ep), NEW loud \in BOOLEAN, NEW speaking \in BOOLEAN,
           ~ep.finished, ep.leftover = << >>, Reporting(speaking, ep),
           NEW next, next = Take(ep, loud)
    PROVE  /\ Follows(next) /\ next.leftover = << >>
           /\ Audio(next) = Append(Audio(ep), loud)
           /\ Reporting(speaking, next)
<1>1. ep \in States /\ ep.heard \in Seq(BOOLEAN) /\ ep.preroll \in Seq(Nat)
      /\ Len(ep.heard) + 1 \in Nat
  BY DEF Follows, States
<1>2. next = Hear(ep, loud)
  BY DEF Take
<1>3. Follows(next)
  BY <1>2, HearFollows
<1>4. Rolled(ep.preroll, Len(ep.heard) + 1) \in Seq(Nat)
  <2> DEFINE all == Append(ep.preroll, Len(ep.heard) + 1)
  <2>1. all \in Seq(Nat) /\ all # << >>
    BY <1>1
  <2> HIDE DEF all
  <2>2. Tail(all) \in Seq(Nat)
    BY <2>1
  <2> QED
    BY <2>1, <2>2 DEF Rolled, all
<1>5. next.heard = Append(ep.heard, loud) /\ next.leftover = ep.leftover
  BY <1>1, <1>2, <1>4, QuietFields, SpeechFields
<1>6. Audio(next) = Append(Audio(ep), loud)
  <2>1. /\ Append(ep.heard, loud) \o << >> = Append(ep.heard, loud)
        /\ ep.heard \o << >> = ep.heard
    <3>1. Append(ep.heard, loud) \in Seq(BOOLEAN)
      BY <1>1
    <3> QED
      BY <1>1, <3>1, ConcatEmptySeq
  <2> QED
    BY <1>5, <2>1 DEF Audio
<1>7. Reporting(speaking, next)
  <2>1. CASE ~ep.speaking
    <3>1. next.finished = ep.finished /\ next.speaking = loud
          /\ next.started = (ep.started \/ loud)
      BY <1>1, <1>2, <1>4, <2>1, QuietFields
    <3> QED
      BY <2>1, <3>1 DEF Reporting
  <2>2. CASE ep.speaking
    <3>1. /\ next.started = ep.started
          /\ loud \/ ~Ends(ep) => next.speaking /\ next.finished = ep.finished
          /\ ~loud /\ Ends(ep) => ~next.speaking /\ next.finished
      BY <1>1, <1>2, <2>2, SpeechFields
    <3> QED
      BY <2>2, <3>1 DEF Reporting
  <2> QED
    BY <2>1, <2>2
<1> QED
  BY <1>3, <1>5, <1>6, <1>7

\* Where a call is when it has sofar k of its frames.
Taken(base, frames, k, ep) ==
    /\ Follows(ep)
    /\ ep.finished \/ ep.leftover = << >>
    /\ Audio(ep) = base.heard \o SubSeq(frames, 1, k)
    /\ Reporting(base.speaking, ep)

LEMMA TakenNext ==
    ASSUME NEW base, base.heard \in Seq(BOOLEAN), base.speaking \in BOOLEAN,
           NEW frames \in Seq(BOOLEAN), NEW k \in 0..Len(frames) - 1,
           NEW ep, Taken(base, frames, k, ep)
    PROVE  Taken(base, frames, k + 1, Take(ep, frames[k + 1]))
<1> DEFINE loud == frames[k + 1]
           sofar == SubSeq(frames, 1, k)
           next == Take(ep, loud)
<1>1. base.heard \in Seq(BOOLEAN) /\ base.speaking \in BOOLEAN
  OBVIOUS
<1>2. k \in Nat /\ k + 1 \in 1..Len(frames) /\ loud \in BOOLEAN /\ Len(frames) \in Nat
  OBVIOUS
<1>3. sofar \in Seq(BOOLEAN) /\ SubSeq(frames, 1, k + 1) = Append(sofar, loud)
  BY <1>2
<1>4. next = Take(ep, loud)
  OBVIOUS
<1> HIDE DEF loud, next, sofar
<1>5. base.heard \o Append(sofar, loud) = Append(base.heard \o sofar, loud)
  BY <1>1, <1>2, <1>3, AudioGrows
<1>6. base.heard \o SubSeq(frames, 1, k + 1) = Append(base.heard \o sofar, loud)
  BY <1>3, <1>5
<1>7. /\ Follows(ep) /\ (ep.finished \/ ep.leftover = << >>)
      /\ Audio(ep) = base.heard \o sofar /\ Reporting(base.speaking, ep)
  BY DEF Taken, sofar
<1>8. /\ Follows(next) /\ (next.finished \/ next.leftover = << >>)
      /\ Audio(next) = Append(Audio(ep), loud)
      /\ Reporting(base.speaking, next)
  <2>1. CASE ep.finished
    BY <1>1, <1>2, <1>7, <2>1, <1>4, TakeLater
  <2>2. CASE ~ep.finished
    BY <1>1, <1>2, <1>7, <2>2, <1>4, TakeNow
  <2> QED
    BY <2>1, <2>2
<1> QED
  BY <1>6, <1>7, <1>8 DEF Taken, next, loud

\* All the frames of a call.
LEMMA AllTaken ==
    ASSUME NEW base, Follows(base), base.leftover = << >>, Reporting(base.speaking, base),
           base.heard \in Seq(BOOLEAN), base.speaking \in BOOLEAN,
           NEW frames \in Seq(BOOLEAN), NEW n \in Nat, n = Len(frames),
           NEW after, after = TakeAll(base, frames)
    PROVE  Taken(base, frames, n, after)
<1>1. DOMAIN frames = 1..n
  OBVIOUS
<1>2. PICK f : /\ TakeAll(base, frames) = f[n] /\ f[0] = base
               /\ \A k \in 0..n - 1 : f[k + 1] = Take(f[k], frames[k + 1])
  BY <1>1, TakeEquations
<1> DEFINE T == {k \in 0..n : Taken(base, frames, k, f[k])}
<1>3. 0 \in T
  <2>1. SubSeq(frames, 1, 0) = << >>
    OBVIOUS
  <2>2. Audio(base) = base.heard \o SubSeq(frames, 1, 0)
    BY <2>1 DEF Audio
  <2>3. Taken(base, frames, 0, base)
    BY <2>2 DEF Taken
  <2> QED
    BY <1>2, <2>3
<1>4. ASSUME NEW k \in 0..n - 1, k \in T
      PROVE  k + 1 \in T
  <2>1. Taken(base, frames, k + 1, Take(f[k], frames[k + 1]))
    BY <1>4, TakenNext
  <2>2. k + 1 \in 0..n
    OBVIOUS
  <2> QED
    BY <1>2, <2>1, <2>2
<1>5. 0..n \subseteq T
  BY <1>3, <1>4, UpToNat
<1> QED
  BY <1>2, <1>5

\* A call of process, whatever its chunk.
LEMMA ProcessFollows ==
    ASSUME NEW ep, Follows(ep), NEW pcm \in Seq(BOOLEAN)
    PROVE  /\ Follows(Process(ep, pcm))
           /\ Audio(Process(ep, pcm)) = Audio(ep) \o pcm
           /\ Reports(ep, pcm)
<1> DEFINE base == [ep EXCEPT !.leftover = << >>, !.started = FALSE, !.finished = FALSE]
           frames == ep.leftover \o pcm
           n == Len(frames)
<1>1. /\ ep \in States /\ ep.leftover \in Seq(BOOLEAN) /\ ep.heard \in Seq(BOOLEAN)
      /\ ep.speaking \in BOOLEAN
  BY DEF Follows, States
<1>2. frames \in Seq(BOOLEAN) /\ n \in Nat /\ DOMAIN frames = 1..n
  BY <1>1
<1>3. Process(ep, pcm) = TakeAll(base, frames)
  BY DEF Process, TakeAll
<1>4. Follows(base) /\ base.leftover = << >> /\ Reporting(ep.speaking, base)
      /\ base.heard = ep.heard /\ base.speaking = ep.speaking
  <2>1. << >> \in Seq(BOOLEAN) /\ FALSE \in BOOLEAN
    OBVIOUS
  <2>2. base \in States
    BY <1>1, <2>1 DEF States
  <2>3. /\ base.heard = ep.heard /\ base.cut = ep.cut /\ base.speaking = ep.speaking
        /\ base.utterance = ep.utterance /\ base.speechMs = ep.speechMs
        /\ base.silenceMs = ep.silenceMs /\ base.preroll = ep.preroll
        /\ base.started = FALSE /\ base.finished = FALSE
        /\ base.leftover = << >>
    BY <1>1 DEF States
  <2> HIDE DEF base
  <2>4. Follows(base)
    BY <2>2, <2>3, FollowsFields
  <2>5. Reporting(ep.speaking, base)
    BY <2>3 DEF Reporting
  <2> QED
    BY <2>3, <2>4, <2>5
<1> HIDE DEF base, frames, n
<1> DEFINE after == Process(ep, pcm)
<1>5. Taken(base, frames, n, after)
  <2>1. base.heard \in Seq(BOOLEAN) /\ base.speaking \in BOOLEAN
        /\ Reporting(base.speaking, base)
    BY <1>1, <1>4
  <2>2. Taken(base, frames, n, TakeAll(base, frames))
    BY <1>2, <1>4, <2>1, AllTaken DEF n
  <2> QED
    BY <1>3, <2>2
<1> HIDE DEF after
<1>6. Follows(after) /\ Reporting(ep.speaking, after) /\ Audio(after) = ep.heard \o frames
  <2>1. SubSeq(frames, 1, n) = frames
    BY <1>2, SubSeqFull DEF n
  <2> QED
    BY <1>4, <1>5, <2>1 DEF Taken
<1>7. Audio(after) = Audio(ep) \o pcm
  <2>1. (ep.heard \o ep.leftover) \o pcm = ep.heard \o (ep.leftover \o pcm)
    BY <1>1, AudioJoins
  <2> QED
    BY <1>6, <2>1 DEF Audio, frames
<1>8. Reports(ep, pcm)
  BY <1>6 DEF Reports, Reporting, after
<1> QED
  BY <1>6, <1>7, <1>8 DEF after

\* An endpointer that has heard nothing.
LEMMA FreshFollows == Follows(Fresh) /\ Audio(Fresh) = << >>
<1>1. Fresh \in States
  <2>1. << >> \in Seq(BOOLEAN) /\ << >> \in Seq(Nat) /\ << >> \in Seq(Seq(Nat)) /\ 0 \in Nat
        /\ FALSE \in BOOLEAN
    OBVIOUS
  <2> QED
    BY <2>1 DEF Fresh, States
<1>2. /\ Fresh.heard = << >> /\ Fresh.leftover = << >> /\ Fresh.cut = << >>
      /\ Fresh.preroll = << >> /\ Fresh.speaking = FALSE
  BY DEF Fresh
<1>3. Len(Fresh.heard) = 0 /\ Len(Fresh.cut) = 0 /\ DOMAIN Fresh.cut = {}
  BY <1>2
<1>4. Done(Fresh) = 0
  BY <1>3 DEF Done, Before
<1>5. CutsInOrder(Fresh)
  BY <1>3, <1>4 DEF CutsInOrder
<1>6. Since(0, 0, 0) = << >>
  <2>1. 0 - PrerollFrames < 0
    BY EndpointerAssumption
  <2>2. Since(0, 0, 0) = Positions(1, 0)
    BY <2>1 DEF Since
  <2>3. 0 - 1 + 1 = 0 /\ 1..0 = {}
    OBVIOUS
  <2>4. Positions(1, 0) = [i \in {} |-> 1 + i - 1]
    BY <2>3 DEF Positions
  <2> QED
    BY <2>2, <2>4
<1>7. HearsQuiet(Fresh)
  <2>1. 0 + 1..0 = {}
    OBVIOUS
  <2> QED
    BY <1>2, <1>3, <1>4, <1>6, <2>1 DEF HearsQuiet, Silent
<1>8. << >> \o << >> = << >>
  <2>1. << >> \in Seq(BOOLEAN)
    OBVIOUS
  <2> QED
    BY <2>1, ConcatEmptySeq
<1> QED
  BY <1>1, <1>2, <1>5, <1>7, <1>8 DEF Follows, Audio

\* What the recursion of FlattenSeq says of g, up to n.
Flattens(g, seqs, n) ==
    g = [i \in 1..n |-> IF i = 1 THEN seqs[i] ELSE g[i - 1] \o seqs[i]]

\* There is such a g, so that FlattenSeq adds one sequence after the other.
LEMMA FlattenEquations ==
    ASSUME NEW n \in Nat, n # 0, NEW seqs, Len(seqs) = n
    PROVE  \E g : FlattenSeq(seqs) = g[n] /\ Flattens(g, seqs, n)
<1> DEFINE T == {k \in 0..n : \E g : Flattens(g, seqs, k)}
<1>1. 0 \in T
  <2> DEFINE g == [i \in 1..0 |-> seqs[i]]
  <2>1. Flattens(g, seqs, 0)
    BY DEF Flattens
  <2> QED
    BY <2>1
<1>2. ASSUME NEW k \in 0..n - 1, k \in T
      PROVE  k + 1 \in T
  <2>1. PICK g : Flattens(g, seqs, k)
    BY <1>2
  <2> DEFINE h == [i \in 1..k + 1 |-> IF i = 1 THEN seqs[i] ELSE g[i - 1] \o seqs[i]]
  <2>2. ASSUME NEW i \in 1..k + 1, i # 1
        PROVE  g[i - 1] = h[i - 1]
    <3>1. i - 1 \in 1..k /\ i - 1 \in 1..k + 1
      BY <2>2
    <3>2. g[i - 1] = (IF i - 1 = 1 THEN seqs[i - 1] ELSE g[(i - 1) - 1] \o seqs[i - 1])
      BY <2>1, <3>1 DEF Flattens
    <3> QED
      BY <3>1, <3>2
  <2>3. Flattens(h, seqs, k + 1)
    BY <2>2 DEF Flattens
  <2>4. k + 1 \in 0..n
    OBVIOUS
  <2> QED
    BY <2>3, <2>4
<1>3. n \in T
  <2>1. 0..n \subseteq T
    BY <1>1, <1>2, UpToNat
  <2> QED
    BY <2>1
<1> DEFINE g == CHOOSE h : Flattens(h, seqs, n)
<1>4. Flattens(g, seqs, n)
  BY <1>3
<1>5. FlattenSeq(seqs) = g[n]
  BY DEF FlattenSeq, Flattens
<1> HIDE DEF g
<1> QED
  BY <1>4, <1>5

\* The audio of the chunks.
LEMMA AudioOfChunks ==
    ASSUME NEW chunks \in Seq(Seq(BOOLEAN)), NEW n \in Nat, Len(chunks) = n
    PROVE  \E h : /\ h[0] = << >> /\ h[n] = FlattenSeq(chunks)
                  /\ \A k \in 0..n - 1 : h[k + 1] = h[k] \o chunks[k + 1]
<1>1. CASE n = 0
  <2> DEFINE h == [k \in 0..0 |-> << >>]
  <2>1. chunks = << >>
    BY <1>1
  <2>2. FlattenSeq(chunks) = << >>
    BY <1>1, <2>1 DEF FlattenSeq
  <2>3. h[0] = << >> /\ 0..0 - 1 = {}
    OBVIOUS
  <2> HIDE DEF h
  <2>4. \A k \in 0..n - 1 : h[k + 1] = h[k] \o chunks[k + 1]
    BY <1>1, <2>3
  <2> QED
    BY <1>1, <2>2, <2>3, <2>4
<1>2. CASE n # 0
  <2>1. PICK g : FlattenSeq(chunks) = g[n] /\ Flattens(g, chunks, n)
    BY <1>2, FlattenEquations
  <2> DEFINE h == [k \in 0..n |-> IF k = 0 THEN << >> ELSE g[k]]
  <2>2. h[0] = << >> /\ h[n] = FlattenSeq(chunks)
    BY <1>2, <2>1
  <2>3. ASSUME NEW k \in 0..n - 1
        PROVE  h[k + 1] = h[k] \o chunks[k + 1]
    <3>1. k + 1 \in 0..n /\ k \in 0..n /\ k + 1 # 0 /\ k + 1 \in 1..n
      BY <1>2
    <3>2. h[k + 1] = g[k + 1]
      BY <3>1
    <3>3. CASE k = 0
      <4>1. g[1] = chunks[1]
        <5>1. 1 \in 1..n
          BY <1>2
        <5> QED
          BY <2>1, <5>1 DEF Flattens
      <4>2. chunks[1] \in Seq(BOOLEAN)
        BY <3>1, <3>3
      <4>3. << >> \o chunks[1] = chunks[1]
        BY <4>2, ConcatEmptySeq
      <4>4. h[k] = << >> /\ k + 1 = 1
        BY <3>3
      <4> QED
        BY <3>2, <4>1, <4>3, <4>4
    <3>4. CASE k # 0
      <4>1. k \in 1..n - 1 /\ h[k] = g[k]
        BY <3>1, <3>4
      <4>2. g[k + 1] = g[k] \o chunks[k + 1]
        <5>1. k + 1 \in 1..n /\ k + 1 # 1 /\ (k + 1) - 1 = k
          BY <4>1
        <5> HIDE DEF h
        <5> QED
          BY <2>1, <5>1 DEF Flattens
      <4> QED
        BY <3>2, <4>1, <4>2
    <3> QED
      BY <3>3, <3>4
  <2> HIDE DEF h
  <2> QED
    BY <2>2, <2>3
<1> QED
  BY <1>1, <1>2

\* Whatever chunks are fed, the endpointer is in step with their audio.
LEMMA FedFollows ==
    ASSUME NEW chunks \in Seq(Seq(BOOLEAN))
    PROVE  Follows(Fed(chunks)) /\ Audio(Fed(chunks)) = FlattenSeq(chunks)
<1> DEFINE n == Len(chunks)
<1>1. n \in Nat /\ DOMAIN chunks = 1..n /\ \A k \in 1..n : chunks[k] \in Seq(BOOLEAN)
  OBVIOUS
<1>2. PICK h : /\ h[0] = << >> /\ h[n] = FlattenSeq(chunks)
               /\ \A k \in 0..n - 1 : h[k + 1] = h[k] \o chunks[k + 1]
  BY <1>1, AudioOfChunks
<1> HIDE DEF n
<1>3. Fed(chunks) = ProcessAll(Fresh, chunks)
  BY DEF Fed, ProcessAll
<1>4. PICK f : /\ ProcessAll(Fresh, chunks) = f[n] /\ f[0] = Fresh
               /\ \A k \in 0..n - 1 : f[k + 1] = Process(f[k], chunks[k + 1])
  BY <1>1, <1>3, ProcessEquations
<1> DEFINE T == {k \in 0..n : Follows(f[k]) /\ Audio(f[k]) = h[k]}
<1>5. 0 \in T
  BY <1>1, <1>2, <1>4, FreshFollows
<1>6. ASSUME NEW k \in 0..n - 1, k \in T
      PROVE  k + 1 \in T
  <2>1. k + 1 \in 0..n /\ chunks[k + 1] \in Seq(BOOLEAN)
    BY <1>1
  <2>2. /\ Follows(Process(f[k], chunks[k + 1]))
        /\ Audio(Process(f[k], chunks[k + 1])) = Audio(f[k]) \o chunks[k + 1]
    BY <1>6, <2>1, ProcessFollows
  <2> QED
    BY <1>2, <1>4, <1>6, <2>1, <2>2
<1>7. 0..n \subseteq T
  BY <1>1, <1>5, <1>6, UpToNat
<1> QED
  BY <1>1, <1>2, <1>4, <1>7, <1>3

\* However the audio is cut into chunks, Endpointer.process loses no frame and hears none
\* twice, and the utterances it returns are those of the audio, none left out: each from
\* the pre-roll of the first speech after the one before to the first long enough pause.
THEOREM EndpointerCutsAudio == \A chunks \in Seq(Seq(BOOLEAN)) : CutsTheAudio(chunks)
<1> TAKE chunks \in Seq(Seq(BOOLEAN))
<1> DEFINE ep == Fed(chunks)
<1>1. Follows(ep) /\ Audio(ep) = FlattenSeq(chunks)
  BY FedFollows
<1> HIDE DEF ep
<1>2. \A k \in DOMAIN ep.cut : IsUtterance(ep.heard, Before(ep.cut, k), ep.cut[k])
  BY <1>1 DEF Follows, CutsInOrder
<1>3. \/ ~ep.speaking /\ Silent(ep.heard, Done(ep) + 1, Len(ep.heard))
      \/ ep.speaking /\ \E onset \in 1..Len(ep.heard) :
                           Speech(ep.heard, Done(ep), onset, Len(ep.heard))
  BY <1>1 DEF Follows, HearsQuiet, HearsSpeech
<1> QED
  BY <1>1, <1>2, <1>3 DEF CutsTheAudio, Audio, Done, ep

\* What process reports of a chunk is what VoicePipeline takes it for: speech starts only
\* where there was none, an utterance ends only where speech was going on or started, and
\* afterwards there is speech if and only if it was going on or started and has not ended.
THEOREM EndpointerReports ==
    \A chunks \in Seq(Seq(BOOLEAN)), pcm \in Seq(BOOLEAN) : Reports(Fed(chunks), pcm)
BY FedFollows, ProcessFollows

=============================================================================
