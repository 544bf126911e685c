------------------------------ MODULE ToolTurn ------------------------------
(***************************************************************************)
(* What a turn of EDITH says and does with tools, and what it leaves       *)
(* behind: the start of the server with its registry of connectors and its *)
(* database, the start of a session, and then turn by turn the prompt, the *)
(* stream of the provider with its fragments of tool calls, the handlers,  *)
(* the results fed back to the model, the messages and the action log.     *)
(*                                                                         *)
(* TextSession models how the tasks of a session interleave; here is one   *)
(* task, the agent, and the rest of the world is what may fail or          *)
(* interrupt it.  An action is what lies between two awaits.  Calls have a *)
(* serial number n that the code does not have.                            *)
(***************************************************************************)
EXTENDS ToolCatalog

CONSTANTS
    Modules,      \* the connector modules that are imported, in their order
    Communities,  \* connectors of contributors, one of which may be installed
    Provisions,   \* what a session may find connected or configured
    Meant,        \* the calls the model may mean: [name, parts], of 0 or ArgParts parts
    ArgParts,     \* fragments that arguments are streamed in, none of them blank
    RecallLimit,  \* limit of recall, 6 in the code
    MaxToolRounds,\* _MAX_TOOL_ROUNDS
    MaxTurns,     \* bound: turns of the session
    MaxCalls,     \* bound: tool calls the model means in the session
    MaxFaults     \* bound: requests, statements and chunks that fail

ASSUME BoundsAssumption ==
    /\ ArgParts \in Nat \ {0} /\ RecallLimit \in Nat \ {0}
    /\ MaxToolRounds \in Nat \ {0}
    /\ \A call \in Meant : call.parts \in {0, ArgParts}
    /\ MaxTurns \in Nat /\ MaxCalls \in Nat /\ MaxFaults \in Nat

\* The connectors that may come to be registered.
Installable == Range(Modules) \cup Communities

ASSUME ConnectorsAssumption ==
    /\ Modules \in Seq(Range(Modules))
    /\ \A connector \in Installable : connector.tools \in Seq(Range(connector.tools))

\* No tool has the name of another with a prefix.  That a key has no dot in it, which the
\* registry checks, keeps prefixed names apart; that a tool's name has none it does not.
NamesApart ==
    \A c, d \in Installable : \A i \in DOMAIN c.tools, j \in DOMAIN d.tools :
       LET prefixed == Namespaced(c.key, c.tools[i].name)
       IN  /\ prefixed # d.tools[j].name
           /\ prefixed = Namespaced(d.key, d.tools[j].name) =>
                c.key = d.key /\ c.tools[i].name = d.tools[j].name

\* A tool that acts outside is of class CONFIRM.
ActingToolsConfirm ==
    \A c \in Installable : \A i \in DOMAIN c.tools :
       c.tools[i].deed = "acts" => c.tools[i].cls = "confirm"

VARIABLES
    server,       \* "starting", "up" or "failed"
    queue,        \* connector modules still to import
    registry,     \* ConnectorRegistry._connectors, in order
    names,        \* what _resolve_names makes of it, the same all session long
    pool,         \* app.state.db_pool is not None
    provided,     \* what the session can use: grants resolved and settings set
    provider,     \* "ilmu" or "stub"
    pc,           \* where the session is suspended
    turn,         \* turns taken
    interrupted,  \* the turn is cancelled
    rounds,       \* rounds of the turn that are over
    said,         \* the reply has text
    meant,        \* the tool calls the model means with the reply being streamed
    sent,         \* per call, the fragments that have been sent of it
    partial,      \* the slots of IlmuLLM.stream: index -> [named, parts]
    calls,        \* assembled calls, the one being dispatched first
    messages,     \* the transcript the provider is given
    memory,       \* facts remembered, named by their calls, whose numbers grow
    conversation, \* "none", "open" or "ended"
    rows,         \* the tables: [messages, actions]
    actionLog,    \* AgentLoop.action_log
    count,        \* calls assembled so far
    acted,        \* history: calls whose deed is done
    approved,     \* history: calls the user has confirmed
    lost,         \* history: calls whose record or answer was lost in a fault
    faults        \* history: the faults so far

serverVars  == <<server, queue, registry, names, pool>>
sessionVars == <<provided, provider, conversation, turn>>
streamVars  == <<meant, sent, partial>>
turnVars    == <<interrupted, rounds, said>>
storeVars   == <<memory, rows, actionLog>>
history     == <<acted, approved, lost>>
turnLocals  == <<turnVars, streamVars, calls, messages>>
vars == <<serverVars, sessionVars, pc, turnVars, streamVars, calls, messages, storeVars,
          count, history, faults>>

----------------------------------------------------------------------------
(* Data *)

System(facts)       == [role |-> "system", facts |-> facts]
User(k)             == [role |-> "user", turn |-> k]
Assistant(batch)    == [role |-> "assistant", calls |-> batch]
Result(n, outcome)  == [role |-> "tool", call |-> n, outcome |-> outcome]

Current == Head(calls)

CurrentTool == names[Current.name].tool

\* What a user grants with OAuth, which is kept in the database.
Grants == {"calendar grant", "contacts grant"}

\* A handler does nothing but say so without what it needs.
Equipped(tool) ==
    \/ tool.needs = "nothing"
    \/ tool.needs = "database" /\ pool
    \/ tool.needs \in provided

Fault == faults < MaxFaults /\ faults' = faults + 1

NoFault == UNCHANGED faults

\* What a turn and its stream hold goes with them.
NoTurn ==
    /\ interrupted' = FALSE /\ rounds' = 0 /\ said' = FALSE
    /\ meant' = <<>> /\ sent' = <<>> /\ partial' = [i \in {} |-> {}]
    /\ calls' = <<>> /\ messages' = <<>>

Init ==
    /\ server = "starting"
    /\ queue \in {Modules} \cup {Append(Modules, c) : c \in Communities}
    /\ registry = <<>> /\ names = [n \in {} |-> {}]
    /\ pool = FALSE /\ provided = {} /\ provider = "ilmu"
    /\ pc = "none" /\ turn = 0
    /\ interrupted = FALSE /\ rounds = 0 /\ said = FALSE
    /\ meant = <<>> /\ sent = <<>> /\ partial = [i \in {} |-> {}]
    /\ calls = <<>> /\ messages = <<>>
    /\ memory = {} /\ conversation = "none"
    /\ rows = [messages |-> <<>>, actions |-> {}] /\ actionLog = {}
    /\ count = 0
    /\ acted = {} /\ approved = {} /\ lost = {} /\ faults = 0

----------------------------------------------------------------------------
(* The start of the server: create_app and lifespan *)

\* The import of a module registers its connector, or raises and the server does not
\* start.
RegisterNext ==
    /\ server = "starting" /\ queue # <<>>
    /\ queue' = Tail(queue)
    /\ IF MayRegister(registry, Head(queue))
         THEN registry' = Append(registry, Head(queue)) /\ UNCHANGED server
         ELSE server' = "failed" /\ UNCHANGED registry
    /\ UNCHANGED <<names, pool, sessionVars, pc, turnVars, streamVars, calls, messages,
                   storeVars, count, history, faults>>

\* _startup_db: the migrations run and the pool opens; or any of it raises, and the
\* server is up without a database, or not at all with EDITH_REQUIRE_DB.
StartDatabase ==
    /\ server = "starting" /\ queue = <<>>
    /\ \/ server' = "up" /\ pool' = TRUE
       \/ server' = "up" /\ pool' = FALSE
       \/ server' = "failed" /\ pool' = FALSE
    /\ names' = ResolveNames(registry)
    /\ UNCHANGED <<queue, registry, sessionVars, pc, turnVars, streamVars, calls,
                   messages, storeVars, count, history, faults>>

----------------------------------------------------------------------------
(* The start and the end of the session: Session.run *)

Session(from, to) == server = "up" /\ pc = from /\ pc' = to

\* A session with a database records a conversation, or its start raises.
OpenConversation ==
    /\ IF pool
         THEN \/ Session("none", "opened") /\ conversation' = "open" /\ NoFault
              \/ Session("none", "closed") /\ Fault /\ UNCHANGED conversation
         ELSE Session("none", "opened") /\ NoFault /\ UNCHANGED conversation
    /\ UNCHANGED <<serverVars, provided, provider, turn, turnVars, streamVars, calls,
                   messages, storeVars, count, history>>

\* build_credentials yields some grants, or none if it fails or there is no database; the
\* settings are the server's.  The provider is the stub where no key is set.
BuildAgent(found) ==
    /\ Session("opened", "waiting")
    /\ pool \/ found \cap Grants = {}
    /\ provided' = found
    /\ provider' \in {"ilmu", "stub"}
    /\ UNCHANGED <<serverVars, turn, conversation, turnVars, streamVars, calls, messages,
                   storeVars, count, history, faults>>

\* The socket is gone when the agent next waits for it, or sends on it: the turn is
\* over, and the tasks with it.
SocketGone ==
    /\ pc \in {"waiting", "preparing", "streaming", "dispatching", "asking", "done"}
    /\ pc' = "closing"
    /\ NoTurn
    /\ UNCHANGED <<serverVars, sessionVars, storeVars, count, history, faults>>

CloseConversation ==
    /\ Session("closing", "closed")
    /\ \/ conversation' = (IF conversation = "open" THEN "ended" ELSE conversation)
          /\ NoFault
       \/ conversation = "open" /\ Fault /\ UNCHANGED conversation
    /\ UNCHANGED <<serverVars, provided, provider, turn, turnVars, streamVars, calls,
                   messages, storeVars, count, history>>

----------------------------------------------------------------------------
(* The turn up to the model: AgentLoop._run_turn *)

sessionFrame == <<serverVars, provided, provider, conversation>>

TakeTurn ==
    /\ Session("waiting", "preparing")
    /\ turn < MaxTurns
    /\ turn' = turn + 1
    /\ UNCHANGED <<sessionFrame, turnLocals, storeVars, count, history, faults>>

\* The user interrupts, by speech, text or a hint.
Interrupt ==
    /\ pc \in {"preparing", "recalling", "requesting", "streaming", "dispatching",
               "asking", "running", "acted", "logging", "done"}
    /\ ~interrupted
    /\ interrupted' = TRUE
    /\ UNCHANGED <<serverVars, sessionVars, pc, rounds, said, streamVars, calls, messages,
                   storeVars, count, history, faults>>

\* The turn is over without a reply: TurnCancelled or any other exception, in run.
AbandonTurn ==
    /\ pc' = "waiting"
    /\ NoTurn
    /\ UNCHANGED <<serverVars, sessionVars, storeVars, count, history>>

\* A message is recorded, or its statement raises, which is logged.
Record(message) ==
    IF pool
      THEN \/ rows' = [rows EXCEPT !.messages = Append(@, message)] /\ NoFault
           \/ UNCHANGED rows /\ Fault
      ELSE UNCHANGED rows /\ NoFault

\* THINKING and the transcript are sent, and the user's message is recorded.
RecordUserMessage ==
    /\ Session("preparing", "recalling")
    /\ Record([turn |-> turn, role |-> "user", empty |-> FALSE])
    /\ UNCHANGED <<sessionFrame, turn, turnVars, streamVars, calls, messages, memory,
                   actionLog, count, history>>

Latest(facts) ==
    {n \in facts : Cardinality({m \in facts : m > n}) < RecallLimit}

\* Mutant: no fallback to the most recent facts.
RecallMatchesOnly(matched) == {Latest(matched)}

\* What recall answers when `matched' are the facts the query finds: the latest of
\* them, in the database the best of them, and the latest of all if there are none.
Recall(matched) ==
    IF matched = {} THEN {Latest(memory)}
    ELSE IF pool
      THEN {best \in SUBSET matched :
              Cardinality(best) = Cardinality(Latest(matched))}
      ELSE {Latest(matched)}

RecallMemories ==
    /\ Session("recalling", "requesting")
    /\ \E matched \in SUBSET memory, facts \in SUBSET memory :
          /\ facts \in Recall(matched)
          /\ messages' = << System(facts), User(turn) >>
    /\ UNCHANGED <<sessionFrame, turn, turnVars, streamVars, calls, storeVars, count,
                   history, faults>>

\* The recall, the request, or the stream raises.
TurnRaises ==
    /\ \/ pc = "recalling" /\ pool
       \/ pc \in {"requesting", "streaming"} /\ provider = "ilmu"
    /\ Fault
    /\ AbandonTurn

----------------------------------------------------------------------------
(* The stream of the provider: IlmuLLM.stream *)

OpenStream(batch) ==
    /\ Session("requesting", "streaming")
    /\ provider = "ilmu"
    /\ rounds < MaxToolRounds
    /\ count + Len(batch) <= MaxCalls
    /\ meant' = batch
    /\ sent' = [i \in DOMAIN batch |-> [pieces |-> 0, missing |-> FALSE]]
    /\ partial' = [i \in {} |-> {}]
    /\ UNCHANGED <<sessionFrame, turn, turnVars, calls, messages, storeVars, count,
                   history, faults>>

\* The loop sees the interruption at the next delta, whatever it is.
StreamCancelled ==
    /\ pc = "streaming" \/ (pc = "requesting" /\ provider = "stub")
    /\ interrupted
    /\ NoFault
    /\ AbandonTurn

StreamText ==
    /\ Session("streaming", "streaming")
    /\ ~interrupted /\ ~said
    /\ said' = TRUE
    /\ UNCHANGED <<sessionFrame, turn, interrupted, rounds, streamVars, calls, messages,
                   storeVars, count, history, faults>>

Slot(i) == IF i \in DOMAIN partial THEN partial[i] ELSE [named |-> FALSE, parts |-> <<>>]

WithSlot(i, slot) ==
    [j \in DOMAIN partial \cup {i} |-> IF j = i THEN slot ELSE partial[j]]

\* Mutant: a fragment of arguments replaces the ones before it.
AccumulateLast(i, piece) ==
    WithSlot(i, IF piece = 0 THEN [Slot(i) EXCEPT !.named = TRUE]
                             ELSE [Slot(i) EXCEPT !.parts = <<piece>>])

\* _accumulate_tool_call: the first fragment of a call names it, the others carry parts
\* of its arguments.
Accumulate(i, piece) ==
    WithSlot(i, IF piece = 0 THEN [Slot(i) EXCEPT !.named = TRUE]
                             ELSE [Slot(i) EXCEPT !.parts = Append(@, piece)])

\* A fragment of the call at index i, or a chunk that is no JSON and is skipped.
Fragment(i) ==
    /\ Session("streaming", "streaming")
    /\ ~interrupted
    /\ sent[i].pieces <= meant[i].parts
    /\ \/ /\ sent' = [sent EXCEPT ![i].pieces = @ + 1]
          /\ partial' = Accumulate(i, sent[i].pieces)
          /\ NoFault
       \/ /\ sent' = [sent EXCEPT ![i] = [pieces |-> @.pieces + 1, missing |-> TRUE]]
          /\ UNCHANGED partial
          /\ Fault
    /\ UNCHANGED <<sessionFrame, turn, turnVars, meant, calls, messages, storeVars, count,
                   history>>

Complete(i) == sent[i].pieces > meant[i].parts /\ ~sent[i].missing

\* What json.loads may make of the concatenated parts, {} where they do not parse.  An
\* object cut short, or without its start, never does.  Parts that lie around a gap, or
\* within the object, may be an object by chance, but another one.
ParsedArguments(parts) ==
    LET whole == [k \in 1..ArgParts |-> k]
    IN  IF parts = whole THEN {"whole"}
        ELSE IF IsPrefix(parts, whole) \/ IsSuffix(parts, whole) THEN {"none"}
        ELSE {"mangled", "none"}

\* How the arguments of all slots may be read.
Readings ==
    {args \in [DOMAIN partial -> {"whole", "mangled", "none"}] :
       \A i \in DOMAIN partial : args[i] \in ParsedArguments(partial[i].parts)}

\* _finalise_tool_calls: the slots that have a name, by their index.
Finalise(args) ==
    LET named == {i \in DOMAIN partial : partial[i].named}
        Nth(k) == CHOOSE i \in named : Cardinality({j \in named : j < i}) = k - 1
    IN  [k \in 1..Cardinality(named) |->
           [n |-> count + k, name |-> meant[Nth(k)].name, args |-> args[Nth(k)]]]

Numbers(batch) == [k \in DOMAIN batch |-> batch[k].n]

\* Mutant: the message of the assistant that asks for the results is left out.
AnnounceWithoutMessage(batch) ==
    /\ pc' = IF batch = <<>> THEN "done" ELSE "dispatching"
    /\ calls' = batch
    /\ count' = count + Len(batch)
    /\ UNCHANGED messages

\* The loop has the calls of the reply: none ends the turn, and some are put into the
\* transcript, before their results.
Announce(batch) ==
    /\ pc' = IF batch = <<>> THEN "done" ELSE "dispatching"
    /\ calls' = batch
    /\ count' = count + Len(batch)
    /\ messages' = IF batch = <<>> THEN messages
                                   ELSE Append(messages, Assistant(Numbers(batch)))

\* The stream ends: with [DONE], or with the fragments of some calls still to come.
StreamEnds ==
    /\ server = "up" /\ pc = "streaming"
    /\ ~interrupted
    /\ IF \A i \in DOMAIN meant : sent[i].pieces > meant[i].parts THEN NoFault ELSE Fault
    /\ \E args \in Readings : Announce(Finalise(args))
    /\ meant' = <<>> /\ sent' = <<>> /\ partial' = [i \in {} |-> {}]
    /\ UNCHANGED <<sessionFrame, turn, turnVars, storeVars, history>>

\* StubLLM: an answer to a tool's result, one call for a trigger in the user's text, or
\* a greeting.
StubTools == {"self_destruct", "remember", "current_time", "echo"} \cap DOMAIN names

StubCall(name) ==
    [n |-> count + 1, name |-> name,
     args |-> IF name \in {"remember", "echo"} THEN "whole" ELSE "none"]

StubReplies ==
    /\ server = "up" /\ pc = "requesting"
    /\ provider = "stub" /\ rounds < MaxToolRounds
    /\ ~interrupted
    /\ \/ Announce(<<>>) /\ said' = TRUE
       \/ /\ Last(messages).role = "user"
          /\ count < MaxCalls
          /\ \E name \in StubTools : Announce(<< StubCall(name) >>)
          /\ UNCHANGED said
    /\ UNCHANGED <<sessionFrame, turn, interrupted, rounds, streamVars, storeVars, history,
                   faults>>

----------------------------------------------------------------------------
(* The calls: AgentLoop._dispatch and the handlers *)

callFrame == <<sessionFrame, turn, turnVars, streamVars, count>>

\* The result of the call is fed back, and the next call is up.
Respond(outcome) ==
    /\ pc' = "dispatching"
    /\ messages' = Append(messages, Result(Current.n, outcome))
    /\ calls' = Tail(calls)

UnknownTool ==
    /\ server = "up" /\ pc = "dispatching"
    /\ calls # <<>> /\ Current.name \notin DOMAIN names
    /\ Respond("error")
    /\ UNCHANGED <<callFrame, storeVars, history, faults>>

\* An AUTO tool runs at once, a CONFIRM tool is put to the user.
Dispatch ==
    /\ calls # <<>> /\ Current.name \in DOMAIN names
    /\ Session("dispatching", IF CurrentTool.cls = "confirm" THEN "asking" ELSE "running")
    /\ UNCHANGED <<callFrame, calls, messages, storeVars, history, faults>>

Approve ==
    /\ Session("asking", "running")
    /\ approved' = approved \cup {Current.n}
    /\ UNCHANGED <<callFrame, calls, messages, storeVars, acted, lost, faults>>

\* Mutant: any reply lets the call run.
DeclineRuns ==
    /\ Session("asking", "running")
    /\ UNCHANGED <<callFrame, calls, messages, storeVars, history, faults>>

Decline ==
    /\ server = "up" /\ pc = "asking"
    /\ Respond("skipped")
    /\ UNCHANGED <<callFrame, storeVars, history, faults>>

\* The gate raises TurnCancelled; a reply that has come as well wins (Approve, Decline).
CancelAtGate ==
    /\ server = "up" /\ pc = "asking"
    /\ interrupted
    /\ NoFault
    /\ AbandonTurn

\* The handler lacks an argument, or is given one that it does not have: TypeError.
RefuseArguments ==
    /\ server = "up" /\ pc = "running"
    /\ \/ Current.args = "none" /\ CurrentTool.required
       \/ Current.args = "mangled"
    /\ Respond("error")
    /\ UNCHANGED <<callFrame, storeVars, history, faults>>

Callable == Current.args # "none" \/ ~CurrentTool.required

\* Statements fail only where there is a database.
MayFail(tool) ==
    /\ tool.deed # "computes"
    /\ tool.name \in {"remember", "recall"} => pool

\* The handler returns: what it did is put into the action log, and is to be stored.
Returns ==
    /\ pc' = "logging"
    /\ actionLog' = actionLog \cup {Current.n}
    /\ UNCHANGED <<callFrame, calls, messages, memory, rows, history, faults>>

\* "Not connected", a value computed or read, or nothing to store: a blank fact, a time
\* that is none.
HandlerReturns ==
    /\ server = "up" /\ pc = "running" /\ Callable
    /\ Equipped(CurrentTool) => CurrentTool.deed # "acts"
    /\ Returns

HandlerRaises ==
    /\ server = "up" /\ pc = "running" /\ Callable
    /\ Equipped(CurrentTool) /\ MayFail(CurrentTool)
    /\ Fault
    /\ Respond("error")
    /\ UNCHANGED <<callFrame, storeVars, history>>

\* The deed is done: a fact or a reminder stored, a device switched, a message sent.
HandlerActs ==
    /\ Session("running", "acted")
    /\ Callable /\ Equipped(CurrentTool)
    /\ CurrentTool.deed \in {"stores", "acts"}
    /\ acted' = acted \cup {Current.n}
    /\ memory' = IF CurrentTool.name = "remember" THEN memory \cup {Current.n} ELSE memory
    /\ UNCHANGED <<callFrame, calls, messages, rows, actionLog, approved, lost, faults>>

AnswerArrives ==
    /\ server = "up" /\ pc = "acted"
    /\ Returns

\* The deed is done, and its answer raises or does not arrive.
AnswerLost ==
    /\ server = "up" /\ pc = "acted"
    /\ MayFail(CurrentTool)
    /\ Fault
    /\ lost' = lost \cup {Current.n}
    /\ Respond("error")
    /\ UNCHANGED <<callFrame, storeVars, acted, approved>>

\* Mutant: the row of the log is written by a task of its own, which may not get to it.
RecordActionDetached ==
    /\ server = "up" /\ pc = "logging"
    /\ rows' \in {rows, [rows EXCEPT !.actions = @ \cup {Current.n}]}
    /\ Respond(IF Equipped(CurrentTool) THEN "value" ELSE "inert")
    /\ UNCHANGED <<callFrame, memory, actionLog, history, faults>>

\* record_action stores the entry, or raises, which is logged.
RecordAction ==
    /\ server = "up" /\ pc = "logging"
    /\ \/ /\ rows' = IF pool THEN [rows EXCEPT !.actions = @ \cup {Current.n}] ELSE rows
          /\ UNCHANGED lost /\ NoFault
       \/ pool /\ UNCHANGED rows /\ lost' = lost \cup {Current.n} /\ Fault
    /\ Respond(IF Equipped(CurrentTool) THEN "value" ELSE "inert")
    /\ UNCHANGED <<callFrame, memory, actionLog, acted, approved>>

NextRound ==
    /\ Session("dispatching", "requesting")
    /\ calls = <<>>
    /\ rounds' = rounds + 1
    /\ UNCHANGED <<sessionFrame, turn, interrupted, said, streamVars, calls, messages,
                   storeVars, count, history, faults>>

\* The model is not asked again: the loop falls through to the end of the turn.
RoundsExhausted ==
    /\ Session("requesting", "done")
    /\ rounds = MaxToolRounds
    /\ UNCHANGED <<sessionFrame, turn, turnVars, streamVars, calls, messages, storeVars,
                   count, history, faults>>

Reply == [turn |-> turn, role |-> "edith", empty |-> ~said]

\* Mutant: the reply is recorded whether or not there is one.
EndTurnRecordingAll ==
    /\ Session("done", "waiting")
    /\ Record(Reply)
    /\ NoTurn
    /\ UNCHANGED <<sessionFrame, turn, memory, actionLog, count, history>>

\* The reply is recorded if there is one; TurnComplete and IDLE are sent.  What
\* extract_after_turn does in the background is nothing yet.
EndTurn ==
    /\ Session("done", "waiting")
    /\ IF said THEN Record(Reply) ELSE UNCHANGED rows /\ NoFault
    /\ NoTurn
    /\ UNCHANGED <<sessionFrame, turn, memory, actionLog, count, history>>

----------------------------------------------------------------------------

Batches == UNION {[1..k -> Meant] : k \in 0..MaxCalls}

ServerNext == RegisterNext \/ StartDatabase

SessionNext ==
    \/ OpenConversation \/ CloseConversation \/ SocketGone
    \/ \E found \in SUBSET Provisions : BuildAgent(found)

TurnNext ==
    \/ TakeTurn \/ RecordUserMessage \/ RecallMemories \/ TurnRaises \/ EndTurn
    \/ Interrupt \/ StreamCancelled \/ StreamText \/ StreamEnds \/ StubReplies
    \/ \E batch \in Batches : OpenStream(batch)
    \/ \E i \in DOMAIN meant : Fragment(i)
    \/ NextRound \/ RoundsExhausted

CallNext ==
    \/ UnknownTool \/ Dispatch \/ Approve \/ Decline \/ CancelAtGate
    \/ RefuseArguments \/ HandlerReturns \/ HandlerRaises \/ HandlerActs
    \/ AnswerArrives \/ AnswerLost \/ RecordAction

Next == ServerNext \/ SessionNext \/ TurnNext \/ CallNext

Spec == Init /\ [][Next]_vars

----------------------------------------------------------------------------

Positions == {"none", "opened", "waiting", "preparing", "recalling", "requesting",
              "streaming", "dispatching", "asking", "running", "acted", "logging",
              "done", "closing", "closed"}

\* The types of the session, and that a call is at hand wherever one is dispatched.
TypeOK ==
    /\ server \in {"starting", "up", "failed"} /\ pool \in BOOLEAN
    /\ provided \subseteq Provisions /\ provider \in {"ilmu", "stub"}
    /\ pc \in Positions
    /\ pc \in {"asking", "running", "acted", "logging"} =>
          calls # <<>> /\ Current.name \in DOMAIN names
    /\ turn \in 0..MaxTurns /\ rounds \in 0..MaxToolRounds
    /\ interrupted \in BOOLEAN /\ said \in BOOLEAN
    /\ DOMAIN sent = DOMAIN meant /\ DOMAIN partial \subseteq DOMAIN meant
    /\ \A k \in DOMAIN calls : calls[k].n \in 1..count
    /\ conversation \in {"none", "open", "ended"}
    /\ memory \subseteq acted /\ acted \subseteq 1..count
    /\ approved \subseteq 1..count /\ lost \subseteq 1..count
    /\ faults \in 0..MaxFaults

\* Whatever connectors of contributors are installed, as long as NamesApart holds of them,
\* every registered tool answers to one name, and a name that is taken stays with the tool
\* that had it first (docstring of _resolve_names).
NamesResolve ==
    server = "up" /\ pc = "none" =>
      LET tools == AllTools(registry)
      IN  /\ \A k \in DOMAIN tools :
                Cardinality({n \in DOMAIN names : names[n] = tools[k]}) = 1
          /\ \A j, k \in DOMAIN tools :
                j < k => names[tools[j].tool.name] # tools[k]

\* Fragments of several calls may come in any order, get lost, or stop short: what is
\* dispatched are calls the model means, in its order, each once, and all that lost
\* nothing.  A call has the arguments it is meant to have if and only if they all came.
\* It has other ones only if a chunk of it was skipped: what is cut short has none.
CallsAsStreamed ==
    [][pc = "streaming" /\ pc' \in {"dispatching", "done"} =>
         LET whole == {i \in DOMAIN meant : Complete(i)}
             Means(call, i) ==
                /\ call.name = meant[i].name
                /\ call.args = "whole" <=> i \in whole /\ meant[i].parts > 0
                /\ call.args = "mangled" => sent[i].missing
         IN  \E of \in [DOMAIN calls' -> DOMAIN meant] :
               /\ \A j, k \in DOMAIN calls' : j < k => of[j] < of[k]
               /\ \A k \in DOMAIN calls' : Means(calls'[k], of[k])
               /\ \A i \in whole : \E k \in DOMAIN calls' : of[k] = i]_vars

\* The model is asked again only when each call it asked for has its result, right after
\* its message and in its order, whatever became of the calls: unknown, declined,
\* failed or done (comment at loop.py:160).
TranscriptPaired ==
    \A i \in DOMAIN messages :
      /\ messages[i].role = "assistant" =>
            LET batch == messages[i].calls
            IN  /\ \A k \in DOMAIN batch :
                     i + k \in DOMAIN messages =>
                        messages[i + k].role = "tool" /\ messages[i + k].call = batch[k]
                /\ pc \in {"requesting", "streaming"} => i + Len(batch) <= Len(messages)
      /\ messages[i].role = "tool" =>
            \E j \in 1..i - 1 :
               /\ messages[j].role = "assistant"
               /\ i - j \in DOMAIN messages[j].calls
               /\ messages[j].calls[i - j] = messages[i].call

\* At any moment, and so at any crash, a deed that the action log does not show is that
\* of the call under way, or of one whose answer or log entry was lost in a failure.
ActionsAccounted ==
    LET underWay(position) == IF pc = position THEN {Current.n} ELSE {}
    IN  /\ acted \subseteq actionLog \cup lost \cup underWay("acted")
        /\ pool => actionLog \subseteq rows.actions \cup lost \cup underWay("logging")

\* Nothing is done outside that the user has not confirmed, and a turn once interrupted
\* calls for nothing more, though what it has called for may still be done, since no
\* check comes between the calls of a batch.
ActsOnDemand ==
    [][/\ \A n \in acted' \ acted : CurrentTool.deed = "acts" => n \in approved
       /\ interrupted => count' = count]_vars

\* The stored messages tell the turns in their order: of each the user's message, then
\* at most one reply, which is not empty; some may be missing, none is out of place.
MessagesTellTheTurns ==
    LET stored == rows.messages
    IN  /\ \A j, k \in DOMAIN stored :
              j < k => \/ stored[j].turn < stored[k].turn
                       \/ /\ stored[j].turn = stored[k].turn
                          /\ stored[j].role = "user" /\ stored[k].role = "edith"
        /\ \A k \in DOMAIN stored : ~stored[k].empty
        /\ stored # <<>> => conversation # "none"

\* A turn is never without context once something has been remembered, by a tool in the
\* same memory (memory.py:115: "so EDITH still has some context").
PromptHasContext ==
    [][pc = "recalling" /\ pc' = "requesting" =>
         /\ memory # {} => Head(messages').facts # {}
         /\ Cardinality(Head(messages').facts) <= RecallLimit]_vars
=============================================================================
