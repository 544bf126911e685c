# A formal model of EDITH

EDITH is a voice-and-chat assistant: a FastAPI server (`src/server/app`) that runs one
asyncio session per WebSocket, an agent loop that calls an LLM and tools, and a Flutter
client (`src/app/lib`). This directory models the parts in which the order of events
decides whether the program is right, checks them with TLC on small instances, and proves
the most important facts with TLAPS for all instances.

`PROJECT.json` maps every definition to the lines it models, and lists the runs, the
mutants (one plausible bug per property, which the property catches), the hazards, the
findings and the theorems.

Paths below are relative to `src/server/app` or, for `.dart` files, `src/app/lib`.

## 1. Inventory

| Component | State | Operations | Talks to | What is hard |
|---|---|---|---|---|
| Text session: `session.py`, `ws.py`, `voice/text_transport.py`, `voice/transport.py`, `events.py` | `_inbound` and `_turns` queues, `_pending` futures, `_barge_in` event, `_turn_active` | receive a frame, pump it, hand a turn out, register and resolve a confirmation, end | client by WebSocket, agent loop by queue and future | three tasks interleave at every await; text interrupts; disconnects at any moment |
| Agent loop: `agent/loop.py` | the turn's cancel event, rounds, calls of the reply, the transcript given to the model, the messages and the action log | run turns, stream, dispatch AUTO/CONFIRM/unknown tools, record, report failure, watch for barge-in | LLM, catalog, gate, transport, database | cancellation is looked for at some places only; failures in the middle of a batch, or between a deed and its record |
| Confirmation gate: `agent/confirm.py` | the wait for a reply against the wait for a cancellation | `await_reply` | loop, transport | both waits end at once; ids of calls are reused; nobody answers |
| LLM provider: `agent/llm.py`, `agent/llm_ilmu.py` | slots of the tool calls of one stream | stream text and fragments of tool calls | loop | fragments of several calls interleave, chunks are unreadable, streams stop short, ids are missing |
| Tool catalog, registry, connectors: `agent/catalog.py`, `connectors/*`, `agent/tools/foundational.py` | the registry of connectors, the tools by name | discover, register, resolve, build, call | loop, remote APIs | names and keys that collide; a connector that does not keep its contract stops the start; a deed is done and its answer lost |
| Memory: `agent/memory.py` | facts, in memory or in the database | recall with its fallback, remember by a tool, extract (does nothing yet) | loop, database | what was remembered in a turn must be there in the next |
| Refresh tokens: `auth/service.py`, `repositories.py` | `refresh_tokens` rows: family, revoked, expiry | login, refresh, logout | login endpoints | requests interleave statement by statement; theft detection |
| Access tokens: `auth/tokens.py`, `auth/service.py`, `ws.py` | none: the token is signed and expires | mint, verify, start a session | login endpoints, sessions | nothing revokes one |
| Token encryption: `auth/crypto.py` | none | encrypt, decrypt | accounts | none |
| Provider accounts: `auth/service.py`, `auth/oidc.py`, `auth/router.py`, `integrations/*` | `users`, `provider_accounts`: subject, scopes, two tokens | sign in, link, connect an API, refresh at the start of a session | Google, sessions | three flows write one row, after waiting for Google |
| Reminders: `proactivity/*`, `connectors/reminders.py` | `reminders`, `device_tokens`; the tick's list | set, register, poll, send, mark | push service, database | raises and crashes between the push and its mark; devices change owner meanwhile |
| Voice pipeline: `voice/pipeline.py`, `vad.py`, `asr.py`, `tts.py` | frames of the utterance, sentence buffer, speaking flag | endpoint, transcribe, speak, interrupt | ASR, TTS, agent loop, client | audio, replies and interruptions share one pump that awaits the transcription |
| Chat client: `chat/*`, `ws/*`, `ui/voice_screen.dart` | messages, state of the session, pending confirmation, dialog, channel | reduce events, send, answer, reconnect | server | the state is a shadow of the server's; two sides act at once; the connection is replaced in mid-turn |
| Voice client: `voice/*`, `voice/native/*`, `voice/web/*`, `ui/voice_screen.dart` | microphone stream and its subscription, player and its queue, channel, state of the orb | start, stop, play a frame, interrupt | platform audio, transport | each tap starts an asynchronous function that overlaps the next; platform calls fail half-way |
| Client sign-in: `auth/*.dart` | two stored tokens | sign in, refresh, sign out | refresh endpoints | none: the store is written and never read |
| Other screens, WhatsApp bridge, wake word, widget | widgets | display, platform channels | - | none modelled |
| Shell: `main.py`, `config.py`, `db.py`, `logging_config.py` | pool, settings | import connectors, start with or without the database, stop | registry, sessions | what a failed start leaves running |

What makes each correct, in short:

* session and loop: every text is a turn, in order, once; text interrupts exactly the turn
  in flight; an interrupted turn falls silent; turns and sessions end;
* gate: a CONFIRM tool runs only after the user's Yes to that very call, and its request
  can always be answered;
* tools: whatever is installed, a name keeps its tool; what is dispatched is what was
  streamed; nothing is done outside without a Yes; every deed is in the action log, or its
  loss is known;
* transcript and memory: each call is followed by its result before the model is asked
  again; the stored messages tell the turns in order; what was remembered is in the prompt;
* refresh tokens: a rotated token is never accepted again, a family has one live token, a
  dead family stays dead;
* access tokens: no session starts with a token of a family that has been over for as long
  as an access token lives;
* provider accounts: an identity stays its user; the tokens and the scopes of a row belong
  together;
* reminders: due ones are delivered in the end, none twice without a failure, and what is
  marked is final;
* voice: what is spoken is of the turn's own reply and stops at an interruption; what the
  user says becomes turns in order;
* chat client: bubbles never mix replies, the input comes back, and what runs was on the
  screen;
* voice client: the microphone is live only while the screen says so, the last tap decides,
  and what was stopped is never played.

## 2. Plan

In order of importance, and where it stands:

1. `TextSession` with `ConfirmPromise` - modelled, checked, eight theorems.
2. `ToolCatalog` and `ToolTurn` - modelled, checked, eight theorems.
3. `RefreshTokens`, and `AccessTokens` above it - modelled, checked, seven theorems.
4. `ReminderScheduler` - modelled, checked, four theorems.
5. `ChatClient` - modelled, checked, three theorems.
6. `VoicePipeline`, and `Endpointer` beside it - modelled, checked, seven theorems.
7. `ProviderAccounts` - modelled, checked, four theorems.
8. `VoiceClient` - modelled, checked, four theorems.

What is left, in the order in which it would add most: `VoiceClient` composed with the frames
of `VoicePipeline`; the framer of the client (`pcm_framer.dart`) as a function, in the way of
`Endpointer`. The token store of the app was planned and is dropped: nothing in the app calls
`AuthService.refresh` or `logout` or reads the store, so that there is no protocol to model.

Each module declares its parameters as CONSTANTS with named assumptions, has one action per
operation, states its invariant as a conjunction of named parts, and uses no recursive
operator, so that it can be proved about.

## 3. Modules

### TextSession (with ConfirmPromise)

One authenticated session in text mode. An action is what one task does between two
awaits. `Session.run` is the composition of three tasks:

* *demux* (`ReceiveText`, `ReceiveConfirm`, `ReceiveBargeIn`, `ReceiveAudio`, `Disconnect`,
  `MalformedFrame`): frames go to `inbound`, and the end is a sentinel. The wire and the
  queue are one sequence: a frame in `inbound` may as well still be on its way.
* *pump* (`PumpText` ... `PumpClose`): `TextTransport.pump`, one frame per step; it resolves
  futures through `pending`, sets the barge-in flag and fills `turns`.
* *agent* (`TakeTurn` ... `SendRaises`): `AgentLoop.run`, `_run_turn`, `_dispatch` and
  `ConfirmGate.await_reply`. `pc` names the await it is suspended at. `SendRaises` is a send
  that fails at any of the places where the code sends.
* *watcher* (`WatcherFires`): the task of a turn that copies `_barge_in` into the cancel
  event.

`Close` is what follows the TaskGroup. The model's answer is a batch of calls of any shape
up to `MaxBatch`; a call has a serial number `n`, which the code does not have and the
properties talk about, and the id the code uses, the provider's own or `call_<index>`
(`llm_ilmu.py:164`). What a turn records is in `ToolTurn`.

`ConfirmPromise` is what the gate promises, with no queue, future or id in it. The
refinement maps its open request to the call at the gate; `KeepsPromise` is checked as a
property of `TextSession` and, with ids of the provider's own, proved.

### ToolCatalog and ToolTurn

`ToolCatalog` is data and functions: the connectors that come with the server, each tool
reduced to its class, to what it needs, to what a call of it does (computes, reads, stores,
acts outside) and to whether it has a required parameter; `Validates`, the contract that
`register` enforces; and `_resolve_names`, by which a name that is taken goes to the tool
that had it first, and the later one gets the key of its connector as a prefix.

`ToolTurn` is the life of one server and one session in it, as one task: the start (each
module of connectors is imported and registered, or the start fails; the database is
there, or the server goes on in memory, or it stops when `EDITH_REQUIRE_DB` is set), the
conversation row, and turn by turn the stored user message, the recall, the prompt, the
stream with its fragments and slots, the calls with their gate, handler and log entry, the
results fed back, and the reply stored at the end. The rest of the world (`Interrupt`,
`TurnRaises`, `SocketGone`, and a statement or request that fails in every place where one
is awaited) may strike between any two awaits. It complements `TextSession`, which has the
other tasks and none of the data. Which facts match a query is any set of them; their limit
and the fallback to the latest facts are the code's. The arguments of a call come in parts, and
what the code parses is those that came, joined (`ParsedArguments`): the whole is what was
meant; an object without its end or its beginning does not parse; one with a gap in between
may parse or not, and is another object then (`mangled`).

### RefreshTokens and AccessTokens

Concurrent login, refresh and logout. The record is read in one statement and rotated, or
its family revoked, in a later transaction. At READ COMMITTED the two updates of one family
serialise on its rows, so that an atomic statement or transaction is a sound step. A
refused token changes nothing and is no action. The check that the user exists cannot fail,
as no code deletes users. `parent` of a row is the ghost that lets properties speak of
rotations; the index of a row stands for its UUID.

`AccessTokens` extends it with a clock, the access token that is minted with each row, and
the handshake of a session, which looks at the token once. Access tokens are stateless: the
logout and the detection of a theft leave them good until they expire, and `NoLateSession`
says how much later a session can still start. `over` is the ghost that remembers since when
a family can issue no more.

### ReminderScheduler

The tables `reminders` and `device_tokens`, the connector and the endpoint that fill them,
and the one task of `ProactiveScheduler`. `Poll` reads at most `Limit` due reminders in any
order the clock allows among equals, `ReadTargets` the devices of the first one's user, then
each device is sent to (`SendAccepted`, `SendRefused`, `SendRaises`), then it is marked. A
raise breaks the delivery off, a database error the tick, a restart both; after a request
that was answered but whose answer was lost the device has rung. `LogPushSender`, used
without credentials, is the case in which all sends are accepted. A reminder refused by
every device is marked delivered all the same; the code means it (comment at
`scheduler.py:79`).

### ChatClient

The reducer, `ChatController`, the dialog of `VoiceScreen`, and `WsTransport` with its
reconnects, against a session reduced to the frames it exchanges: its turns, interruptions
and requests, in text or in voice mode. What the app shows of errors and of the running
tool is left out. `ChatScreen` is not part of the app (`VoiceScreen` is where it lands) and
no widget calls `ChatController.bargeIn`. The modal dialog keeps the user from the buttons
behind it. After a reconnect the old session's frames reach nobody, and it is not followed
further. `cut` remembers that the app is busy with a turn of which it will hear nothing: its
connection was lost or replaced, or a Yes came after its request had been withdrawn.

### ProviderAccounts

Sign-in with a Google identity, connection of a Google API, and the refresh of the connection's
token at the start of a session. All write the one row of `provider_accounts` that a user has
for Google. A token is named by the account it is for. Consent and exchange are one step, since
what is granted is settled when the user consents; the callback's write is a later one, as is
the write that follows a refresh. The writes of a sign-in are atomic at the commit of its
transaction, and a violated unique constraint rolls them back (`Abort`). Of Google it is
assumed that a code always brings a refresh token (`prompt=consent`, `google_oauth.py:69`),
that its answer names the scopes, which include all earlier ones
(`include_granted_scopes=true`), and that the user's info has a `sub`: what `google_callback`
stores where one of these is absent (`router.py:144`, `:146`) is left out. Users of the
development login, who have no row until they connect, are left out. Connecting as another
Google account replaces the subject of the row: the identity it had is *displaced*, and its
next sign-in is found by its email or is a new user's. The properties name this exception.

### VoicePipeline

One voice session. The endpointer is a function of the audio in order, and only the pump
feeds it, so that a chunk stands for what it makes of it: speech begins in it, an utterance
ends in it, or both (`AudioFrame`). Frames are on the wire or in `inbound`, as in
`TextSession`; inputs are numbered by their end. `pump` names the await the pump is at: the
ASR, the transcript it shows, the apology. `_speak` is a machine of its own (`speaker`),
since the agent runs it for tokens and for the flush, and the gate's reply task for a
question. `buf` abstracts `_sentence_buf` to whole sentences and a rest, and a sentence to
the turns whose text is in it, which is what `SpeaksOwnReply` asks. `TokenShapes` is what
the regular expression makes of a token. A turn here streams tokens and asks questions; a
round of other tools is only time that passes in `streaming`. `cause` and `late` are
ghosts: the first input an interruption may be part of, and the audio sent after it. A
malformed frame ends the demux as in `TextSession`, and is left out.

### Endpointer

How `vad.py` comes to what `VoicePipeline` takes from a chunk: the state of `Endpointer`, and
`process` as a fold over the frames that are left over from the chunk before and those the
chunk completes. A frame is whether its energy reaches the threshold, and what the code
buffers of it is its position in the audio, so that a duplicate, a gap or a wrong pre-roll
shows. `CutsTheAudio` is the reference: it speaks of the whole audio, of where speech begins,
of the pauses that are long enough and of the utterances they end, and knows no state, no
chunk and no counter. `Reports` is the interface to `VoicePipeline`. `reset` is left out:
nothing calls it.

### VoiceClient

The voice side of the app: the buttons of the orb (`_startVoice`, `_stopVoice`), the
reconnects they ask of `WsTransport`, `VoiceController`, and capture and playback on both
platforms. A tap starts a function that runs on while the user taps again: `pc[t]` is the
await that the function of tap `t` is at, and the stream and the subscription it makes go by
`t`. A reconnect first waits for the old subscription to end; the waits end in the order of
the taps. Of the platform it is assumed that a device's recorder has one stream, that calls
of a plugin run in their order, and that closing an `AudioContext` that is closing raises.
`raced` remembers that a tap met a function that was still switching the microphone,
`contested` that a channel was given up or lost while another reconnect was still to
connect: the exceptions that `MicIsTold` and `LastTapDecides` name (section 5 says what
happens in them). `StopSilences` has none.

## 4. Runs

| Run | Checks | Bounds | States |
|---|---|---|---|
| `text_session` | `ConfirmedOnly`, `GateReachable`, `TurnActiveExact`, `TextsInOrder`, `InterruptedStreamStops`, `KeepsPromise`, `GateReleases`, `TurnEnds`, `SessionEnds` | 2 texts, 2 other frames, 1 round, batches of 2 | 331,252, under fairness |
| `tool_turn` | `NamesResolve`, `CallsAsStreamed`, `TranscriptPaired`, `ActionsAccounted`, `ActsOnDemand`, `MessagesTellTheTurns`, `PromptHasContext` | the server's connectors and at most one of three of contributors; 2 turns, 2 calls, 2 rounds, 2 faults, arguments in 3 fragments, recall of 1 fact | 1,167,358 |
| `refresh_tokens` | `OnlyLatestLive`, `OneLivePerFamily`, `DeadStaysDead`, `NoLateSession` | 3 calls at a time, 3 tokens, a clock of 3 instants | 497,316, symmetric in the calls |
| `reminders` | `OneShotUnlessInterrupted`, `DeliveredIsFinal`, `MarkedWhenAllAnswered`, `DueIsDelivered` | 2 users, 2 devices, 2 reminders, 1 fault and one device that raises for ever | 1,182,334, under fairness |
| `chat_client` | `BubblesOfOneTurn`, `InputReturns`, `BusyEnds` | 2 turns, 2 chunks, 1 request, 1 break | 387,264, under fairness |
| `provider_accounts` | `TokensMatch`, `ScopesCovered`, `SignedInAsBefore` | 2 requests at a time, 2 accounts, 2 scopes, 1 email, 2 users | 1,073,687, symmetric |
| `voice_pipeline` | `SpeaksOwnReply`, `FallsSilent`, `InputsInOrder`, `InterruptedFromLater`, `BargeInEndsTurn`, `HangUpEndsSession`, `InputsAreHeard` | 2 inputs, 1 barge-in frame, 1 token, 1 question; audios of up to 8 frames in up to 3 chunks | 178,702, under fairness |
| `voice_client` | `MicIsTold`, `LastTapDecides`, `StopSilences` | both platforms, 4 taps, 1 frame of audio, 1 fault | 1,554,222 |
| `disconnect_hangs` | violates `DisconnectEndsSession` | | finding |
| `reused_action_id` | violates `ConfirmedOnly` with ids of the position | | finding |
| `talked_over` | violates `SpeechStopsPlayback` | 2 inputs, 1 token | finding |
| `stale_dialog` | violates `RunsWhatWasShown` | | finding |

The types (`TypeOK`) are no properties of the runs: they are theorems of the modules that
have proofs.

Why the bounds are enough. *Session*: two texts are a turn and the one that interrupts it; two
further frames are a reply and a stale reply, or a reply and a barge-in; a batch of two has a
call after a call, and one round reaches the limit of rounds. With two rounds and batches of
one it passes too (221,632 states); what it says of calls is proved for all bounds. *Tools*:
the connectors of contributors are one with a name that is taken, one with a key that is taken
and one with a name twice; two calls in three fragments each are enough to interleave, and to
lose the first, the last or one in the middle; two rounds are a result fed back and the limit
of rounds, two turns are a fact remembered and a prompt that needs it, and two faults are a
lost answer and a lost record. *Tokens*: three rows are a token, its successor, and one more of
either; three calls are a race of two with a third that sees the result; of three instants the
last is after the end of an access token of the first. Without the clock it was also checked
with four tokens, in which one family has two generations beside another (340,451 states).
*Reminders*: two of each resource, so that a reminder may be the other user's and a device may
change hands; the fault is a failure and the flaky device that of its retry. The query takes
both, so that a tick has a list to work on; with a query that takes one of the two, so that
what it takes first matters, the run passes too (865,934 states). Safety was also checked with
two faults and no flaky device (542,480 states). *Client*: a turn, the one that interrupts it,
and one break anywhere; with two requests for confirmation the run also passes (892,692
states). *Voice*: two inputs are a turn and the one that interrupts it, or is transcribed
meanwhile; one token makes up to two sentences, or one and a rest, so that with the question
three frames of audio can follow each other. Safety was also checked with three inputs
(1,625,819 states). The endpointer is evaluated, by the assumption `EndpointerCuts` of
`MC_VoicePipeline`, on every audio of up to eight frames: with a pause of two frames, speech of
two and a pre-roll of two that is two utterances, an onset right after a cut, and speech too
short to be ended. *Accounts*: two identities that share an email or a user, and two requests
at a time, since each of the exceptions is one write that overlaps one other. *Voice client*:
four taps are two starts and two stops that may all overlap; it also passes with two frames of
audio (3,778,412 states), and with five taps and no audio (7,621,845 states).

Deadlock is not checked where a session may end for good or the bounds exhaust what the
user may do (`text_session`, `tool_turn`, `voice_pipeline`, `voice_client`, `chat_client`,
`talked_over`, `disconnect_hangs`, `reused_action_id`, `stale_dialog`); it is checked in the
others.

**Fairness.** `TextSession`, `VoicePipeline` and `ChatClient`: the event loops of asyncio and
of Dart run every task that can run, and the provider, the tools and the HTTP client have
timeouts, so the pump, the agent, the watcher and the close are weakly fair; so are, in
`VoicePipeline`, the ASR and the TTS, whose requests time out after 60 seconds (`asr.py`,
`tts.py`). Nothing is assumed of the user or of the socket. `ReminderScheduler`: the task's
sleep ends and every statement and request returns or raises (`FcmPushSender` sets a
timeout); faults are bounded but for the requests to the devices of `Flaky`, which may raise
for ever. As many reminders as the query takes, if they fail for ever, keep those due after
them out: this is the exception `Crowded` of `DueIsDelivered`. `ToolTurn`, `AccessTokens`,
`ProviderAccounts` and `VoiceClient` state safety only.

## 5. Findings

The runs that end in a violation each check a sentence of the repository against the code.

* A client that disconnects while it is asked for a confirmation leaves the session at the
  gate for ever: the `close()` that would cancel the wait runs after the task that waits.
* With the ids the provider client falls back to, a late Yes to one request lets another
  call run.
* A user who begins to speak before the turn of his last input is taken, and goes on, does
  not interrupt it: only the onset counts, and it found no active turn. The reply is spoken
  over his voice until he pauses and speaks again.
* A dialog left over from an interrupted turn answers the request of the next one.

Seen while modelling, and not runs of their own:

* server, accounts and tokens: a session that refreshes its user's Google token writes back the
  scopes it read before it waited for Google, so that an API connected meanwhile is lost until
  the user connects it again (`credentials.py:69` and `:89`, though `router.py:107` "adds to
  any existing grant"), and of two connections that overlap the last to store decides the
  scopes, though it may be the one that was granted less; two refreshes with one token both
  succeed if both read it before either writes (`auth/service.py:98` and `:111`, the exception
  of `OneLivePerFamily`); grants are resolved once, at the start of a session
  (`session.py:170`), and a session goes on after the logout of its user; `db.py:26` speaks of
  blocking the start where `main.py:66` goes on in memory unless `EDITH_REQUIRE_DB` is set;
* tools: the registry refuses a connector whose key has a dot, but a tool's name may have one:
  a connector `notes` whose tools are `notes.remember` and then `remember` loses the first,
  since the second, whose bare name is taken, is exposed under the name of the first and
  overwrites it (`catalog.py:59`). `NamesResolve` holds of connectors of which `NamesApart`
  does, as it does of the server's own; a chunk in the middle of a call's arguments that is
  skipped as unreadable (`llm_ilmu.py:98`) may leave on both sides of the gap what joins to
  another object that parses (`:147`, `:157`), and the call is dispatched with it, a tool of
  class AUTO like `remember` without asking (the exception `missing` of `CallsAsStreamed`);
* server, voice: a question that is cancelled while it is spoken stays in `_pending`
  (`pipeline.py:177` is before the `try`); the unspoken rest of a reply before a question is
  spoken after it; a noise shorter than the minimum of an utterance keeps the endpointer in
  speech, so that the speech that follows has no onset (`vad.py:123`); an input appears twice,
  a typed one from the app's echo and the loop's transcript, a spoken one from the transcripts
  of the pump (`pipeline.py:131`) and of the loop (`loop.py:131`);
* chat client: switching voice mode off in the middle of a turn leaves the app thinking or
  speaking and its input blocked (an exception, `cut`, of `InputReturns`), and so does a Yes
  that comes after its request was withdrawn; `connected` is never reset when the socket closes
  (`chat_reducer.dart:15`), so that the app goes on taking texts, though only "when connected"
  (`chat_models.dart:57`), drops them and shows that EDITH is thinking; a reconnect emits no
  `ws_closed`, though the comment at `ws_transport.dart:69` says so, since it has cancelled the
  subscription before it closes; the bubble of an interrupted reply stays marked as streaming;
* voice client: a Stop that meets a Start which is still acquiring the microphone leaves it on,
  over a text connection; on the web two acquisitions that overlap leave a live stream that
  nothing can stop; after start, stop and start the reconnect of the stop may come last and
  leave the session in text; if the opening of the native player raises, it never opens again
  and the voice is silent (`native_audio_playback.dart:28`); captured audio interrupts whenever
  the state is speaking (`voice_controller.dart:130`), and nothing can interrupt the rest of
  the playback once the state is idle.

## 6. Proofs

All for every value of the constants, under the named assumptions of each module only
(ranges of the bounds, distinctness of `Nobody` and the like), and those a theorem states.

**`TextSession_proofs`.** `TypeCorrect`; `GateIsReachable`; `OnlyConfirmedRun`, under the
assumption that ids are the provider's own; `InterruptionHolds`; `ActiveInFlight`;
`OrderOfTexts`; `PromiseIsKept`; `PromiseConfirms`. `ConfirmedOnly` is not
inductive: the invariant adds that an entry of `pending`, a reply in `inbound` and the
prompt of the client agree on which call an id means (with own ids the id *is* the call's
number), that a resolved future at the gate means the answer of that call, and that numbers
grow. Each step of the pump, the agent and the client is a lemma. `OrderOfTexts` is about
`Line`, the turn in flight, the turns that wait and the texts on the wire as one sequence: a
step moves a text along it, drops its head or adds the next text at its end. `PromiseIsKept`
adds to the invariant of `ConfirmedOnly` that calls are numbered in order, that the request
the user sees is not answered, and that a call still to be dispatched has been neither asked
nor answered nor run; under it each step is one of `ConfirmPromise` or changes nothing of
it. `PromiseConfirms` says what that is worth: `ConfirmPromise` alone, whatever implements
it, runs only what the user confirmed and nothing he declined.

**`ToolTurn_proofs`.** `TypeCorrect`, with the shape of every message, call and slot;
`ActionsAreAccounted`: the record lags the deeds by at most the call under way, so the
invariant ties the position of the agent to what may be missing; `MessagesInOrder`: the turns
of the stored messages are at most the turn under way, which has no reply stored before its
end; `TranscriptIsPaired`: while calls are dispatched, the transcript ends with the message
that made them and the results of those that are done, in order (`Awaits`, `Answered`);
`StreamedCalls`: a slot holds what was sent of its call, all of it and in order if no chunk was
skipped (`Slotted`), so that a call whose stream was cut short holds a beginning of its
arguments and gets none (`CutShort`), and a slot with a name that lost a part of them is not
the whole; and the k-th of the calls dispatched is the slot with k - 1 others before it
(`Rank`); `ContextInPrompt`: recall ends with facts, within the limit, if there are any;
`ToolsAnswerToNames`: by `RegistryInv` the registry has keys that differ and connectors that
keep their contract, so that the tools it lists differ in key or name, and no step of the fold
`_resolve_names` takes a name from a tool that has it. Its premise is `NamesApart`: without it
the fold overwrites (section 5). `DoneOnDemand`: what is running was confirmed if it acts. Its
premise is `ActingToolsConfirm`, that the tools that act are of class CONFIRM, asked of the
connectors that may be installed: it is a fact about them and not about the loop. Both premises
speak of the constants alone and hold of the server's connectors; TLC evaluates them in
`MC_ToolTurn`.

**`RefreshTokens_proofs`.** `TypeCorrect`; `OnlyLatestIsLive`; `OneIsLive`; `DeathIsFinal`.
Any step changes the table in one of a few ways (`TableStep`: none, some tokens revoked, one
issued), and the rest is about those. `OneIsLive` needs that in a family without a double
rotation the tokens form a chain (`Forest` and one leaf), so that the live one is its end.
Of `AccessTokens`, `SessionsEndInTime`: a family that is over stays over, since only a
rotation that has passed the checks could issue in it, and no token of it was minted after
the moment in `over`; so none verifies `AccessTTL` later. `AccessRefines`: a step of
the extension is a step of `RefreshTokens` or leaves its variables alone; `SoundWithAccess`:
what was proved of `RefreshTokens` is so with access tokens and sessions above it.

**`ReminderScheduler_proofs`.** `TypeCorrect`; `RingsOnce`, `DeliveredStaysSilent` and
`MarkedAfterAnswers`. `Clean` says that a push of a reminder that is undelivered and was
never broken off belongs to the delivery under way, to a device that has answered;
`Targeted`, that every device read for the delivery is still to be sent to or has answered.

**`ChatClient_proofs`.** `TypeCorrect`; `BubblesStayApart`: chunks of two turns, on the
screen or on their way, have a text of the user between them, since a turn is only left with
an end or an interruption that the app has sent a text for (`SaidApart`, `TurnApart`);
`InputComesBack`: outside a turn, whatever on the wire makes the app busy is followed by
what settles it, or was cut off.

**`ProviderAccounts_proofs`.** `TypeCorrect`, where the uniqueness of emails and accounts is
what needs the constraints; `SameUserAgain`, from the invariant that an identity that was
not displaced has the row of the user it signed in as; `GrantsAreSound` and
`ScopesAreCovered`, from an invariant on rows and on what requests carry: a grant carries
both tokens of one account, a refresh the scopes and the refresh token of the row it read,
and it stores into the same row unless that user is recorded as stale. The writes are reduced
to one relation, `Puts`: one row is replaced and no other changes.

**`VoicePipeline_proofs`.** `TypeCorrect`; `OwnReplyOnly` and `SilentAtOnce` from `SpeechInv`:
the buffer and the sentence being spoken are of the turn under way, and the frame that was
being sent when an interruption came is the last; `LaterInterrupts` and `OrderKept` from
`OrderInv`: frames on the wire, the utterance at the ASR and the turns that wait are in the
order of the inputs, nothing is lost between them, and a mark on the wire is of a later
input than all that was taken. `EndpointerCutsAudio` and `EndpointerReports` are about
`Endpointer`, for any audio, chunks and thresholds. `Follows` ties the state of the endpointer
to the audio it has heard: in the quiet, that it has been silent since the last utterance and
the pre-roll is its end; in speech, where it began, that it has not paused for long enough
since, and what the counters count. A frame keeps it (`HearFollows`); the end of an utterance
is where `CutsTheAudio` sees a pause (`PausesWhenEnds`). A call takes one frame after the
other (`AllTaken`), and a session one chunk after the other (`FedFollows`).

**`VoiceClient_proofs`.** `TypeCorrect`; `DroppedForGood`; `ScreenTellsMic`, from `MicInv`:
without a race no start goes on while a stop switches, one start at a time is past the look
at `micState`, and it found nothing captured; `LastTapWins`, from `LastInv`: after a stop
only stops are left, and one of them is still to give the voice channel up unless it is
gone; after a start, no other function is left to leave once it has left, and where there is
no channel it is the only one still to connect.

**Folds and induction.** The prover has no induction over data. Where a definition is a fold
(`_resolve_names`, `process`, the audio of the chunks) its value is given by equations, one
per element (`ExposeEquations`, `TakeEquations`, `ProcessEquations`, `FlattenEquations`), and
what holds after each element is a set of numbers that has 0 and with each number the next:
`UpToNat`, which follows from the least-number principle (`SmallestNat`), of which the library
knows that `<` is well-founded.

Only model-checked, since liveness under fairness is beyond the prover: `GateReleases`,
`TurnEnds` and `SessionEnds` of the session, `DueIsDelivered` of the reminders, `BusyEnds` of
the client, `BargeInEndsTurn`, `HangUpEndsSession` and `InputsAreHeard` of the voice pipeline.
Every invariant and every action property of a passing run is a theorem.

## 7. Not modelled

* The energy of a frame, framing, resampling and the conversion of samples: sequential
  arithmetic on the audio, of which `Endpointer` takes the outcome of each frame and
  `VoicePipeline` the outcome of each chunk, in every order.
* Inside a tool: the requests that a handler makes one after the other (IMAP, the list and
  the messages of the Gmail API) are one request that may fail, and the formatting of its
  answer is left out.
* The token store of the app: no part of the app reads it (section 2).
* The usage record of a session and the choice of the transport for a voice-mode session.
* Encryption, signatures and OIDC verification: calls of libraries; `ProviderAccounts` takes
  what a verified token says as input.
* Screens, platform channels, routes and middleware, the values of settings, logging,
  migrations.
