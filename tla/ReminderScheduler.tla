------------------------- MODULE ReminderScheduler -------------------------
(***************************************************************************)
(* The reminders of EDITH and the scheduler that pushes them: the tables   *)
(* reminders and device_tokens, the connector and the endpoint that fill   *)
(* them, and ProactiveScheduler with FcmPushSender (LogPushSender is the   *)
(* case in which every send is accepted).                                  *)
(*                                                                         *)
(* The scheduler is one task.  An action is one of its statements on the   *)
(* database or one request to the push service; the rest of the system,    *)
(* the clock, and a crash of the process come in between.                  *)
(***************************************************************************)
EXTENDS Integers, Sequences, FiniteSets

CONSTANTS
    Users,
    NoUser,
    Devices,        \* FCM push tokens; those of other platforms are never sent to
    Flaky,          \* devices to which requests may raise for ever
    Limit,          \* LIMIT of due_reminders, 100 in the code
    MaxReminders,   \* bound: rows of the reminders table
    MaxTime,        \* bound: the clock
    MaxFaults       \* bound: crashes, database errors and requests to the other
                    \* devices that raise

ASSUME DevicesAssumption == Flaky \subseteq Devices /\ NoUser \notin Users
ASSUME LimitAssumption == Limit \in Nat \ {0}
ASSUME BoundsAssumption == MaxReminders \in Nat /\ MaxTime \in Nat /\ MaxFaults \in Nat

VARIABLES
    now,          \* the clock
    reminders,    \* the rows, by id: [user, at, delivered]
    owner,        \* device_tokens: the user each device is registered to
    pc,           \* the task: "sleeping", "delivering" or "sending"
    due,          \* ids of the reminders this tick has still to deliver
    targets,      \* the devices read for the first of them
    todo,         \* those not sent to yet
    pushed,       \* history: <<reminder, device>> accepted once, or more than once
    answered,     \* history: the devices whose requests of this delivery were answered
    interrupted,  \* history: reminders whose delivery was broken off
    faults        \* history: the faults so far

tables  == <<reminders, owner>>
tick    == <<pc, due, targets, todo>>
history == <<pushed, answered, interrupted, faults>>
vars == <<now, tables, tick, history>>

Ids == DOMAIN reminders

Current == Head(due)

Init ==
    /\ now = 0
    /\ reminders = <<>>
    /\ owner = [d \in Devices |-> NoUser]
    /\ pc = "sleeping" /\ due = <<>> /\ targets = {} /\ todo = {}
    /\ pushed = [once |-> {}, again |-> {}] /\ answered = {} /\ interrupted = {}
    /\ faults = 0

----------------------------------------------------------------------------
(* The users, their devices and the clock *)

\* set_reminder: the time comes from the model and may have passed.
SetReminder(user, at) ==
    /\ Len(reminders) < MaxReminders
    /\ reminders' = Append(reminders, [user |-> user, at |-> at, delivered |-> FALSE])
    /\ UNCHANGED <<now, owner, tick, history>>

\* POST /devices/register: a token registers for a user or is re-pointed to one.
RegisterDevice(user, d) ==
    /\ owner' = [owner EXCEPT ![d] = user]
    /\ UNCHANGED <<now, reminders, tick, history>>

ClockTicks ==
    /\ now < MaxTime
    /\ now' = now + 1
    /\ UNCHANGED <<tables, tick, history>>

----------------------------------------------------------------------------
(* run_once *)

\* Mutant: delivered reminders are not left out.
IsDueOrDelivered(r) == reminders[r].at <= now

IsDue(r) == ~reminders[r].delivered /\ reminders[r].at <= now

\* What the query may answer: the Limit earliest due reminders, in their order.
DueBatches ==
    LET dueNow == {r \in Ids : IsDue(r)}
        size   == IF Cardinality(dueNow) < Limit THEN Cardinality(dueNow) ELSE Limit
        Earlier(q, r) == reminders[q].at <= reminders[r].at
    IN  {s \in [1..size -> dueNow] :
           /\ \A i, j \in 1..size : i < j => s[i] # s[j] /\ Earlier(s[i], s[j])
           /\ \A i \in 1..size, r \in dueNow :
                (\A j \in 1..size : s[j] # r) => Earlier(s[i], r)}

Poll ==
    /\ pc = "sleeping"
    /\ pc' = "delivering"
    /\ due' \in DueBatches
    /\ UNCHANGED <<now, tables, targets, todo, history>>

ReadTargets ==
    /\ pc = "delivering"
    /\ due # <<>>
    /\ pc' = "sending"
    /\ targets' = {d \in Devices : owner[d] = reminders[Current].user}
    /\ todo' = targets'
    /\ UNCHANGED <<now, tables, due, history>>

TickEnds ==
    /\ pc = "delivering"
    /\ due = <<>>
    /\ pc' = "sleeping"
    /\ UNCHANGED <<now, tables, due, targets, todo, history>>

Arrives(r, d) ==
    pushed' = IF <<r, d>> \in pushed.once
                THEN [pushed EXCEPT !.again = @ \cup {<<r, d>>}]
                ELSE [pushed EXCEPT !.once = @ \cup {<<r, d>>}]

\* The push service answers 200.
SendAccepted(d) ==
    /\ pc = "sending"
    /\ d \in todo
    /\ todo' = todo \ {d}
    /\ answered' = answered \cup {d}
    /\ Arrives(Current, d)
    /\ UNCHANGED <<now, tables, pc, due, targets, interrupted, faults>>

\* It answers anything else, which is logged.
SendRefused(d) ==
    /\ pc = "sending"
    /\ d \in todo
    /\ todo' = todo \ {d}
    /\ answered' = answered \cup {d}
    /\ UNCHANGED <<now, tables, pc, due, targets, pushed, interrupted, faults>>

\* Mutant: a request that raises is taken for one that is refused.
SendRaisesIgnored(d) ==
    /\ pc = "sending"
    /\ d \in todo
    /\ todo' = todo \ {d}
    /\ IF d \in Flaky THEN UNCHANGED faults
                      ELSE faults < MaxFaults /\ faults' = faults + 1
    /\ interrupted' = interrupted \cup {Current}
    /\ UNCHANGED <<now, tables, pc, due, targets, pushed, answered>>

\* The request raises, before or after the service has taken the notification: the
\* other devices are skipped and the reminder is left for the next tick.
SendRaises(d) ==
    /\ pc = "sending"
    /\ d \in todo
    /\ IF d \in Flaky THEN UNCHANGED faults
                      ELSE faults < MaxFaults /\ faults' = faults + 1
    /\ Arrives(Current, d) \/ UNCHANGED pushed
    /\ interrupted' = interrupted \cup {Current}
    /\ pc' = "delivering"
    /\ due' = Tail(due) /\ targets' = {} /\ todo' = {} /\ answered' = {}
    /\ UNCHANGED <<now, tables>>

\* Mutant: the reminder that has been marked is delivered once more.
MarkWithoutAdvancing ==
    /\ pc = "sending"
    /\ todo = {}
    /\ reminders' = [reminders EXCEPT ![Current].delivered = TRUE]
    /\ pc' = "delivering"
    /\ targets' = {} /\ answered' = {}
    /\ UNCHANGED <<now, owner, due, todo, pushed, interrupted, faults>>

\* mark_reminder_delivered, however many of the sends were accepted.
Mark ==
    /\ pc = "sending"
    /\ todo = {}
    /\ reminders' = [reminders EXCEPT ![Current].delivered = TRUE]
    /\ pc' = "delivering"
    /\ due' = Tail(due) /\ targets' = {} /\ answered' = {}
    /\ UNCHANGED <<now, owner, todo, pushed, interrupted, faults>>

\* The tick is over at once; a reminder whose delivery had begun stays unmarked.
BreakOff ==
    /\ interrupted' = IF pc = "sending" THEN interrupted \cup {Current} ELSE interrupted
    /\ due' = <<>> /\ targets' = {} /\ todo' = {} /\ answered' = {}
    /\ faults < MaxFaults /\ faults' = faults + 1

\* Mutant: a failed tick ends the loop.
TickFailsForGood ==
    /\ pc = "delivering" \/ (pc = "sending" /\ todo = {})
    /\ pc' = "stopped"
    /\ BreakOff
    /\ UNCHANGED <<now, tables, pushed>>

\* A statement on the database raises: _loop logs it and sleeps until the next tick.
TickFails ==
    /\ pc = "delivering" \/ (pc = "sending" /\ todo = {})
    /\ pc' = "sleeping"
    /\ BreakOff
    /\ UNCHANGED <<now, tables, pushed>>

\* The process dies, or is shut down (stop), and starts again; a request under way may
\* have reached the push service.
Restart ==
    /\ pc # "sleeping"
    /\ pc' = "sleeping"
    /\ BreakOff
    /\ UNCHANGED pushed \/ (pc = "sending" /\ \E d \in todo : Arrives(Current, d))
    /\ UNCHANGED <<now, tables>>

----------------------------------------------------------------------------

WorldNext ==
    \/ \E user \in Users, at \in 0..MaxTime : SetReminder(user, at)
    \/ \E user \in Users, d \in Devices : RegisterDevice(user, d)
    \/ ClockTicks

SchedulerNext ==
    \/ Poll \/ ReadTargets \/ TickEnds \/ Mark
    \/ \E d \in Devices : SendAccepted(d) \/ SendRefused(d) \/ SendRaises(d)

Next == WorldNext \/ SchedulerNext \/ TickFails \/ Restart

Spec == Init /\ [][Next]_vars

\* The task runs: the sleep ends and every statement and request returns or raises
\* (FcmPushSender sets a timeout).
FairSpec == Spec /\ WF_vars(SchedulerNext)

----------------------------------------------------------------------------

Sends == Ids \X Devices

\* The types of the tables and of the tick; a tick delivers each reminder at most once,
\* all of them undelivered when they are reached.
TypeOK ==
    /\ now \in 0..MaxTime
    /\ reminders \in Seq([user : Users, at : 0..MaxTime, delivered : BOOLEAN])
    /\ owner \in [Devices -> Users \cup {NoUser}]
    /\ pc \in {"sleeping", "delivering", "sending"}
    /\ due \in Seq(Ids)
    /\ \A i, j \in DOMAIN due : i # j => due[i] # due[j]
    /\ \A i \in DOMAIN due : ~reminders[due[i]].delivered
    /\ pc = "sending" => due # <<>>
    /\ pc = "sleeping" => due = <<>>
    /\ targets \subseteq Devices /\ todo \subseteq targets
    /\ pushed.again \subseteq pushed.once /\ pushed.once \subseteq Sends
    /\ answered \subseteq targets
    /\ interrupted \subseteq Ids
    /\ faults \in 0..MaxFaults

\* A reminder rings twice on a device only if a delivery of it was broken off, by a
\* request that raised, a database error or a crash: ticks never repeat one another
\* (migration 0002: "one-shot scheduled nudges").
OneShotUnlessInterrupted == \A s \in pushed.again : s[1] \in interrupted

\* What is marked delivered is never sent again, though the tick that sends works on a
\* list it read long before.
DeliveredIsFinal ==
    [][\A s \in Sends :
         reminders[s[1]].delivered =>
           /\ s \in pushed'.once => s \in pushed.once
           /\ s \in pushed'.again => s \in pushed.again]_vars

\* A reminder is marked only when every device read for it has answered: no device is
\* forgotten because the request to another one raised.
MarkedWhenAllAnswered ==
    [][\A r \in Ids :
         reminders'[r].delivered /\ ~reminders[r].delivered =>
           targets \subseteq answered]_vars

HasFlakyDevice(user) == \E d \in Flaky : owner[d] = user

\* At least Limit reminders that are due no later than r have a device whose requests may
\* raise for ever, and may stay at the head of the query.
Crowded(r) ==
    Cardinality({q \in Ids : /\ ~reminders[q].delivered
                             /\ reminders[q].at <= reminders[r].at
                             /\ HasFlakyDevice(reminders[q].user)}) >= Limit

\* A due reminder is delivered in the end, whatever ticks fail and however long the
\* devices of other users make theirs raise, also when more reminders are due than the
\* query takes; but if as many as it takes fail for ever, those due after them are never
\* reached (_deliver and _loop carry on after an exception).
DueIsDelivered ==
    \A r \in 1..MaxReminders :
        (r \in Ids /\ reminders[r].at <= now)
            ~> (r \in Ids /\ (\/ reminders[r].delivered
                              \/ HasFlakyDevice(reminders[r].user)
                              \/ Crowded(r)))
============================================================================
