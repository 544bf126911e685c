----------------------------- MODULE Endpointer -----------------------------
(***************************************************************************)
(* The endpointer of voice/vad.py, which cuts the captured audio into      *)
(* utterances, as functions on its state.                                  *)
(*                                                                         *)
(* A chunk of audio stands for the frames it completes, and a frame for    *)
(* whether its energy reaches the threshold (TRUE).  What the code buffers *)
(* are bytes of frames; here it is the positions of the frames in the      *)
(* audio, which count from 1.                                              *)
(***************************************************************************)
EXTENDS Integers, Sequences, FiniteSets, SequencesExt

CONSTANTS
    FrameMs,        \* frame_ms, 20 in the code
    SilenceMs,      \* silence_ms, 700
    MinSpeechMs,    \* min_speech_ms, 200
    PrerollFrames   \* _preroll_frames, 10

ASSUME EndpointerAssumption ==
    /\ FrameMs \in Nat \ {0} /\ PrerollFrames \in Nat \ {0}
    /\ SilenceMs \in Nat /\ MinSpeechMs \in Nat

\* Endpointer.__init__, what a call of process has found so far (started, finished), and
\* two histories: the frames that have been processed, and the utterances cut from them.
Fresh ==
    [leftover  |-> <<>>,   \* frames received and not processed
     speaking  |-> FALSE,
     utterance |-> <<>>,
     speechMs  |-> 0,
     silenceMs |-> 0,
     preroll   |-> <<>>,
     started   |-> FALSE,
     finished  |-> FALSE,
     heard     |-> <<>>,
     cut       |-> <<>>]

\* The rolling pre-roll.
Rolled(frames, n) ==
    LET all == Append(frames, n) IN IF Len(all) > PrerollFrames THEN Tail(all) ELSE all

\* A frame of the silence between utterances, or the one in which speech begins.
HearQuiet(ep, loud) ==
    LET preroll == Rolled(ep.preroll, Len(ep.heard) + 1)
    IN  IF loud
          THEN [ep EXCEPT !.speaking = TRUE, !.started = TRUE, !.utterance = preroll,
                          !.preroll = <<>>, !.speechMs = FrameMs, !.silenceMs = 0]
          ELSE [ep EXCEPT !.preroll = preroll]

\* A frame of an utterance: the last one, if the silence is long enough, and the speech
\* before it.
HearSpeech(ep, loud) ==
    LET utterance == Append(ep.utterance, Len(ep.heard) + 1)
        silence   == ep.silenceMs + FrameMs
    IN  IF loud
          THEN [ep EXCEPT !.utterance = utterance, !.speechMs = @ + FrameMs, !.silenceMs = 0]
        ELSE IF silence >= SilenceMs /\ ep.speechMs >= MinSpeechMs
          THEN [ep EXCEPT !.finished = TRUE, !.cut = Append(@, utterance),
                          !.utterance = <<>>, !.speaking = FALSE, !.speechMs = 0,
                          !.silenceMs = 0, !.preroll = <<>>]
        ELSE [ep EXCEPT !.utterance = utterance, !.silenceMs = silence]

Hear(ep, loud) ==
    [ (IF ep.speaking THEN HearSpeech(ep, loud) ELSE HearQuiet(ep, loud))
        EXCEPT !.heard = Append(@, loud) ]

\* The loop of process breaks at the end of an utterance: the frames after it stay for the
\* next call.
Take(ep, loud) ==
    IF ep.finished THEN [ep EXCEPT !.leftover = Append(@, loud)] ELSE Hear(ep, loud)

\* process: `pcm' are the frames that the chunk completes.
Process(ep, pcm) ==
    FoldLeft(Take, [ep EXCEPT !.leftover = <<>>, !.started = FALSE, !.finished = FALSE],
             ep.leftover \o pcm)

Fed(chunks) == FoldLeft(Process, Fresh, chunks)

----------------------------------------------------------------------------
(* What an utterance is, in terms of the audio *)

Positions(first, last) == [i \in 1..(last - first + 1) |-> first + i - 1]

Silent(audio, first, last) == \A i \in first..last : ~audio[i]

LoudFrames(audio, first, last) == {i \in first..last : audio[i]}

\* Frame t is silent and the last of a long enough silence, and there has been enough
\* speech since the onset.
Pauses(audio, onset, t) ==
    /\ \E l \in onset..t - 1 : Silent(audio, l + 1, t) /\ (t - l) * FrameMs >= SilenceMs
    /\ Cardinality(LoudFrames(audio, onset, t)) * FrameMs >= MinSpeechMs

\* Speech begins at `onset', after `from' frames, and has not ended by frame t.
Speech(audio, from, onset, t) ==
    /\ onset \in from + 1..t
    /\ audio[onset] /\ Silent(audio, from + 1, onset - 1)
    /\ \A u \in onset..t : ~Pauses(audio, onset, u)

\* The audio from the pre-roll of the onset, but nothing of what came before `from'.
Since(from, onset, t) ==
    Positions(IF onset - PrerollFrames < from THEN from + 1 ELSE onset - PrerollFrames + 1, t)

\* The first utterance that ends after `from' frames.
IsUtterance(audio, from, utterance) ==
    \E t \in from + 2..Len(audio) : \E onset \in from + 1..t - 1 :
       /\ Speech(audio, from, onset, t - 1)
       /\ Pauses(audio, onset, t)
       /\ utterance = Since(from, onset, t)

\* Where the utterances before the k-th one end.
Before(cut, k) == IF k = 1 THEN 0 ELSE Last(cut[k - 1])

----------------------------------------------------------------------------

\* Whatever the chunks, no frame is lost or heard twice, and the utterances are those of
\* the audio, one after the other and none left out: each begins with the pre-roll of the
\* first speech after the one before and ends with the first long enough pause.
CutsTheAudio(chunks) ==
    LET ep   == Fed(chunks)
        done == Before(ep.cut, Len(ep.cut) + 1)
    IN  /\ ep.heard \o ep.leftover = FlattenSeq(chunks)
        /\ \A k \in DOMAIN ep.cut : IsUtterance(ep.heard, Before(ep.cut, k), ep.cut[k])
        /\ \/ ~ep.speaking /\ Silent(ep.heard, done + 1, Len(ep.heard))
           \/ ep.speaking /\ \E onset \in 1..Len(ep.heard) :
                                Speech(ep.heard, done, onset, Len(ep.heard))

\* What a call reports is what VoicePipeline takes from a chunk: speech begins only in the
\* quiet, and ends only where it has begun.
Reports(ep, pcm) ==
    LET after == Process(ep, pcm)
    IN  /\ after.started \/ after.finished => (after.started <=> ~ep.speaking)
        /\ after.speaking <=> ~after.finished /\ (ep.speaking \/ after.started)
=============================================================================
