---------------------- MODULE ReminderScheduler_proofs ----------------------
(***************************************************************************)
(* Theorems about ReminderScheduler, for any users, devices, batch limit   *)
(* and numbers of reminders and faults.                                    *)
(*                                                                         *)
(*   TypeCorrect           the types; a tick has each reminder once        *)
(*   RingsOnce             a reminder rings twice only after a delivery of *)
(*                         it was broken off                               *)
(*   DeliveredStaysSilent  a delivered reminder is never sent again        *)
(*   MarkedAfterAnswers    a reminder is marked after all its devices have *)
(*                         answered                                        *)
(***************************************************************************)
EXTENDS ReminderScheduler, FiniteSetTheorems, SequenceTheorems, TLAPS

Reminders == [user : Users, at : 0..MaxTime, delivered : BOOLEAN]

----------------------------------------------------------------------------
(* The tables and the tick *)

\* The rows of the reminders table.
LEMMA TableRows ==
    ASSUME TypeOK
    PROVE  /\ Len(reminders) \in Nat /\ Ids = 1..Len(reminders)
           /\ \A r \in Ids : reminders[r] \in Reminders
<1>1. reminders \in Seq(Reminders)
  BY DEF TypeOK, Reminders
<1> QED
  BY <1>1 DEF Ids

\* The reminders of the tick that are still to be delivered.
LEMMA DueShape ==
    ASSUME TypeOK, due # <<>>
    PROVE  /\ Len(due) \in Nat \ {0} /\ DOMAIN due = 1..Len(due)
           /\ Current = due[1] /\ Current \in Ids /\ ~reminders[Current].delivered
           /\ Tail(due) \in Seq(Ids) /\ DOMAIN Tail(due) = 1..Len(due) - 1
           /\ \A i \in DOMAIN Tail(due) : i + 1 \in DOMAIN due /\ Tail(due)[i] = due[i + 1]
           /\ \A i \in DOMAIN Tail(due) : Tail(due)[i] # Current
<1>1. /\ Len(due) \in Nat \ {0} /\ DOMAIN due = 1..Len(due)
      /\ Head(due) = due[1] /\ due[1] \in Ids
      /\ Tail(due) \in Seq(Ids) /\ Len(Tail(due)) = Len(due) - 1
      /\ \A i \in 1..Len(due) - 1 : Tail(due)[i] = due[i + 1]
  BY DEF TypeOK
<1>2. DOMAIN Tail(due) = 1..Len(due) - 1
  BY <1>1
<1>3. \A i \in DOMAIN Tail(due) : i + 1 \in DOMAIN due /\ i + 1 # 1 /\ 1 \in DOMAIN due
  BY <1>1, <1>2
<1>4. /\ \A i \in DOMAIN due : ~reminders[due[i]].delivered
      /\ \A i, j \in DOMAIN due : i # j => due[i] # due[j]
  BY DEF TypeOK
<1> QED
  BY <1>1, <1>2, <1>3, <1>4 DEF Current

\* What a tick is given to deliver.
LEMMA BatchShape ==
    ASSUME TypeOK, NEW batch \in DueBatches
    PROVE  /\ batch \in Seq(Ids)
           /\ \A i, j \in DOMAIN batch : i # j => batch[i] # batch[j]
           /\ \A i \in DOMAIN batch : ~reminders[batch[i]].delivered
<1> DEFINE dueNow == {r \in Ids : IsDue(r)}
           size == IF Cardinality(dueNow) < Limit THEN Cardinality(dueNow) ELSE Limit
<1>1. IsFiniteSet(Ids)
  BY TableRows, FS_Interval
<1>2. size \in Nat
  BY <1>1, FS_Subset, FS_CardinalityType, LimitAssumption
<1>3. batch \in [1..size -> dueNow] /\ \A i, j \in 1..size : i < j => batch[i] # batch[j]
  BY DEF DueBatches
<1> HIDE DEF size
<1>4. batch \in Seq(Ids)
  BY <1>2, <1>3
<1>5. \A i, j \in 1..size : i # j => i < j \/ j < i
  BY <1>2
<1> QED
  BY <1>3, <1>4, <1>5 DEF IsDue

\* Whatever arrives is a reminder and a device that is sent to.
LEMMA ArrivesType ==
    ASSUME pushed.again \subseteq pushed.once, pushed.once \subseteq Sends,
           pushed = [once |-> pushed.once, again |-> pushed.again],
           NEW r \in Ids, NEW d \in Devices, Arrives(r, d)
    PROVE  /\ pushed' = [once |-> pushed'.once, again |-> pushed'.again]
           /\ pushed'.once = pushed.once \cup {<<r, d>>}
           /\ pushed'.again \in {pushed.again, pushed.again \cup {<<r, d>>}}
           /\ <<r, d>> \notin pushed.once => pushed'.again = pushed.again
           /\ pushed'.again \subseteq pushed'.once
           /\ <<r, d>> \in Sends
<1>1. CASE <<r, d>> \in pushed.once
  <2>1. pushed' = [once |-> pushed.once, again |-> pushed.again \cup {<<r, d>>}]
    BY <1>1 DEF Arrives
  <2> QED
    BY <1>1, <2>1 DEF Sends
<1>2. CASE <<r, d>> \notin pushed.once
  <2>1. pushed' = [once |-> pushed.once \cup {<<r, d>>}, again |-> pushed.again]
    BY <1>2 DEF Arrives
  <2> QED
    BY <1>2, <2>1 DEF Sends
<1> QED
  BY <1>1, <1>2

----------------------------------------------------------------------------
(* Type correctness *)

\* The history of pushes is the record it is initialised to, and that of the answers is
\* cleared after every delivery.
Inv ==
    /\ TypeOK
    /\ pushed = [once |-> pushed.once, again |-> pushed.again]
    /\ pc # "sending" => answered = {}

\* What the users, their devices and the clock keep to.
WorldTypes ==
    /\ now \in 0..MaxTime
    /\ reminders \in Seq(Reminders)
    /\ owner \in [Devices -> Users \cup {NoUser}]

\* What the tick keeps to.
TickTypes ==
    /\ pc \in {"sleeping", "delivering", "sending"}
    /\ due \in Seq(Ids)
    /\ \A i, j \in DOMAIN due : i # j => due[i] # due[j]
    /\ \A i \in DOMAIN due : ~reminders[due[i]].delivered
    /\ pc = "sending" => due # <<>>
    /\ pc = "sleeping" => due = <<>>
    /\ targets \subseteq Devices /\ todo \subseteq targets /\ answered \subseteq targets
    /\ pc # "sending" => answered = {}

\* What the history keeps to.
HistoryTypes ==
    /\ pushed = [once |-> pushed.once, again |-> pushed.again]
    /\ pushed.again \subseteq pushed.once /\ pushed.once \subseteq Sends
    /\ interrupted \subseteq Ids
    /\ faults \in 0..MaxFaults

LEMMA InvParts == Inv <=> WorldTypes /\ TickTypes /\ HistoryTypes
BY DEF Inv, TypeOK, WorldTypes, TickTypes, HistoryTypes, Reminders

\* A step that leaves the tables alone leaves the reminders.
LEMMA TablesKept ==
    ASSUME WorldTypes, UNCHANGED <<now, tables>>
    PROVE  WorldTypes' /\ Ids' = Ids
BY DEF WorldTypes, tables, Ids

\* The users and the clock.
LEMMA WorldStep ==
    ASSUME Inv, WorldNext
    PROVE  Inv'
<1>0. WorldTypes /\ TickTypes /\ HistoryTypes
  BY InvParts
<1>1. UNCHANGED <<tick, history>>
  BY DEF WorldNext, SetReminder, RegisterDevice, ClockTicks
<1>2. ASSUME NEW user \in Users, NEW at \in 0..MaxTime, SetReminder(user, at)
      PROVE  Inv'
  <2> DEFINE row == [user |-> user, at |-> at, delivered |-> FALSE]
  <2>1. row \in Reminders
    BY DEF Reminders
  <2>2. reminders \in Seq(Reminders) /\ reminders' = Append(reminders, row)
    BY <1>0, <1>2 DEF WorldTypes, SetReminder
  <2> HIDE DEF row
  <2>3. /\ reminders' \in Seq(Reminders) /\ Ids \subseteq Ids'
        /\ \A r \in Ids : reminders'[r] = reminders[r]
    BY <2>1, <2>2 DEF Ids
  <2>4. WorldTypes'
    BY <1>0, <1>2, <2>3 DEF WorldTypes, SetReminder
  <2>5. due \in Seq(Ids') /\ \A i \in DOMAIN due : due[i] \in Ids
    BY <1>0, <2>3 DEF TickTypes
  <2>6. TickTypes'
    BY <1>0, <1>1, <2>3, <2>5 DEF TickTypes, tick, history
  <2>7. HistoryTypes'
    BY <1>0, <1>1, <2>3 DEF HistoryTypes, history, Sends
  <2> QED
    BY <2>4, <2>6, <2>7, InvParts DEF Inv, TypeOK, WorldTypes, TickTypes, HistoryTypes, Reminders
<1>3. ASSUME reminders' = reminders, WorldTypes'
      PROVE  Inv'
  <2>1. Ids' = Ids
    BY <1>3 DEF Ids
  <2>2. TickTypes' /\ HistoryTypes'
    BY <1>0, <1>1, <1>3, <2>1 DEF TickTypes, HistoryTypes, tick, history, Sends
  <2> QED
    BY <1>3, <2>2 DEF Inv, TypeOK, WorldTypes, TickTypes, HistoryTypes, Reminders
<1>4. ASSUME NEW user \in Users, NEW d \in Devices, RegisterDevice(user, d)
      PROVE  Inv'
  <2>1. WorldTypes'
    BY <1>0, <1>4 DEF WorldTypes, RegisterDevice
  <2> QED
    BY <1>3, <1>4, <2>1 DEF RegisterDevice
<1>5. CASE ClockTicks
  <2>1. now' = now + 1 /\ now < MaxTime /\ MaxTime \in Nat /\ now \in 0..MaxTime
    BY <1>0, <1>5, BoundsAssumption DEF ClockTicks, WorldTypes
  <2>2. now' \in 0..MaxTime
    BY <2>1
  <2>3. WorldTypes'
    BY <1>0, <1>5, <2>2 DEF WorldTypes, ClockTicks, tables
  <2> QED
    BY <1>3, <1>5, <2>3 DEF ClockTicks, tables
<1> QED
  BY <1>2, <1>4, <1>5 DEF WorldNext

\* A delivery is broken off, by a failure of its own or with the whole tick.
BrokenOff == TickFails \/ Restart \/ \E d \in Devices : SendRaises(d)

\* A request that raises or that the service has taken is one to a device of the tick.
LEMMA SentTo ==
    ASSUME Inv, pc = "sending"
    PROVE  Current \in Ids /\ ~reminders[Current].delivered /\ todo \subseteq Devices
BY DueShape DEF Inv, TypeOK

\* What of the history a step may change: pushes to devices that were still to be sent
\* to, and the reminder under way, if it was broken off.
LEMMA HistoryStep ==
    ASSUME Inv, SchedulerNext \/ TickFails \/ Restart
    PROVE  /\ \/ pushed' = pushed
              \/ \E d \in todo : pc = "sending" /\ d \in Devices /\ Arrives(Current, d)
           /\ \/ interrupted' = interrupted
              \/ pc = "sending" /\ interrupted' = interrupted \cup {Current}
           /\ faults' \in 0..MaxFaults
           /\ now' = now /\ owner' = owner
<1>0. /\ faults \in 0..MaxFaults /\ MaxFaults \in Nat
      /\ pc = "sending" => todo \subseteq Devices
  BY SentTo, BoundsAssumption DEF Inv, TypeOK
<1>1. CASE Poll \/ ReadTargets \/ TickEnds \/ Mark \/ \E d \in Devices : SendRefused(d)
  BY <1>0, <1>1 DEF Poll, ReadTargets, TickEnds, Mark, SendRefused, history, tables
<1>2. ASSUME NEW d \in Devices, SendAccepted(d)
      PROVE  /\ d \in todo /\ pc = "sending" /\ Arrives(Current, d)
             /\ UNCHANGED <<interrupted, faults, now, owner>>
  BY <1>2 DEF SendAccepted, tables
<1>3. ASSUME faults' = faults \/ (faults < MaxFaults /\ faults' = faults + 1)
      PROVE  faults' \in 0..MaxFaults
  BY <1>0, <1>3
<1>4. ASSUME NEW d \in Devices, SendRaises(d)
      PROVE  /\ d \in todo /\ pc = "sending" /\ (Arrives(Current, d) \/ pushed' = pushed)
             /\ interrupted' = interrupted \cup {Current}
             /\ faults' \in 0..MaxFaults
             /\ UNCHANGED <<now, owner>>
  BY <1>3, <1>4 DEF SendRaises, tables
<1>5. CASE TickFails \/ Restart
  BY <1>0, <1>3, <1>5 DEF TickFails, Restart, BreakOff, tables
<1> QED
  BY <1>0, <1>1, <1>2, <1>4, <1>5 DEF SchedulerNext

\* A statement of the tick, a request, or their failure.
LEMMA TickStep ==
    ASSUME Inv, SchedulerNext \/ TickFails \/ Restart
    PROVE  Inv'
<1>0. WorldTypes /\ TickTypes /\ HistoryTypes /\ TypeOK
  BY InvParts DEF Inv
<1>1. ASSUME NEW r, r \in Ids, reminders' = [reminders EXCEPT ![r].delivered = TRUE]
      PROVE  /\ reminders' \in Seq(Reminders) /\ Ids' = Ids
             /\ \A q \in Ids : q # r => reminders'[q] = reminders[q]
  <2>1. reminders \in [1..Len(reminders) -> Reminders] /\ Len(reminders) \in Nat
    BY <1>0 DEF WorldTypes
  <2>2. [reminders[r] EXCEPT !.delivered = TRUE] \in Reminders
    BY <1>0, <1>1, TableRows DEF Reminders
  <2>3. reminders' \in [1..Len(reminders) -> Reminders]
    BY <1>1, <2>1, <2>2
  <2> QED
    BY <1>1, <2>1, <2>3 DEF Ids
<1>2. reminders' = reminders \/ Mark
  BY DEF SchedulerNext, Poll, ReadTargets, TickEnds, SendAccepted, SendRefused, SendRaises,
         TickFails, Restart, tables
<1>3. Mark => /\ pc = "sending" /\ Current \in Ids /\ due # <<>>
              /\ reminders' = [reminders EXCEPT ![Current].delivered = TRUE]
  BY <1>0, SentTo DEF Mark, TickTypes
<1>4. WorldTypes' /\ Ids' = Ids
  <2>1. CASE reminders' = reminders
    BY <1>0, <2>1, HistoryStep DEF WorldTypes, Ids
  <2>2. CASE Mark
    BY <1>0, <1>1, <1>3, <2>2, HistoryStep DEF WorldTypes
  <2> QED
    BY <1>2, <2>1, <2>2
<1>5. HistoryTypes'
  <2>1. pushed' = pushed \/ \E d \in Devices : Arrives(Current, d) /\ Current \in Ids
    BY SentTo, HistoryStep
  <2>2. /\ pushed' = [once |-> pushed'.once, again |-> pushed'.again]
        /\ pushed'.again \subseteq pushed'.once /\ pushed'.once \subseteq Sends
    BY <1>0, <2>1, ArrivesType DEF HistoryTypes
  <2>3. interrupted' \subseteq Ids
    BY <1>0, SentTo, HistoryStep DEF HistoryTypes
  <2> QED
    BY <1>4, <2>2, <2>3, HistoryStep DEF HistoryTypes, Sends
<1>6. TickTypes'
  <2> USE DEF TickTypes
  <2>1. CASE Poll
    <3>1. due' \in DueBatches /\ reminders' = reminders
      BY <2>1 DEF Poll, tables
    <3> QED
      BY <1>0, <1>4, <2>1, <3>1, BatchShape DEF Poll, history
  <2>2. CASE ReadTargets
    BY <1>0, <1>4, <2>2 DEF ReadTargets, tables, history
  <2>3. CASE TickEnds
    BY <1>0, <1>4, <2>3 DEF TickEnds, tables, history
  <2>4. CASE Mark
    <3>1. /\ due' = Tail(due) /\ pc' = "delivering" /\ targets' = {} /\ answered' = {}
          /\ todo' = {}
      BY <2>4 DEF Mark
    <3>2. /\ Tail(due) \in Seq(Ids)
          /\ \A i, j \in DOMAIN Tail(due) : i # j => Tail(due)[i] # Tail(due)[j]
      <4>1. \A i \in DOMAIN Tail(due) : i \in Nat
        BY <1>0, <1>3, <2>4, DueShape
      <4>2. \A i, j \in DOMAIN Tail(due) : i # j => i + 1 # j + 1
        BY <4>1
      <4> QED
        BY <1>0, <1>3, <2>4, <4>2, DueShape
    <3>3. ASSUME NEW i \in DOMAIN Tail(due)
          PROVE  ~reminders'[Tail(due)[i]].delivered
      <4>1. Tail(due)[i] = due[i + 1] /\ i + 1 \in DOMAIN due /\ Tail(due)[i] # Current
        BY <1>0, <1>3, <2>4, DueShape
      <4>2. Tail(due)[i] \in Ids /\ ~reminders[Tail(due)[i]].delivered
        BY <1>0, <4>1
      <4> QED
        BY <1>1, <1>3, <2>4, <4>1, <4>2
    <3> QED
      BY <1>4, <3>1, <3>2, <3>3
  <2>5. ASSUME NEW d \in Devices, SendAccepted(d) \/ SendRefused(d)
        PROVE  TickTypes'
    BY <1>0, <1>4, <2>5 DEF SendAccepted, SendRefused, tables
  <2>6. ASSUME NEW d \in Devices, SendRaises(d)
        PROVE  TickTypes'
    <3>1. /\ due' = Tail(due) /\ pc' = "delivering" /\ targets' = {} /\ answered' = {}
          /\ todo' = {} /\ reminders' = reminders /\ due # <<>>
      BY <1>0, <2>6 DEF SendRaises, tables
    <3>2. \A i \in DOMAIN Tail(due) : i \in Nat
      BY <1>0, <3>1, DueShape
    <3>3. \A i, j \in DOMAIN Tail(due) : i # j => i + 1 # j + 1
      BY <3>2
    <3> QED
      BY <1>0, <1>4, <3>1, <3>3, DueShape
  <2>7. CASE TickFails \/ Restart
    <3>1. due' = <<>> /\ DOMAIN due' = {}
      BY <2>7 DEF TickFails, Restart, BreakOff
    <3> QED
      BY <1>0, <2>7, <3>1 DEF TickFails, Restart, BreakOff
  <2> QED
    BY <2>1, <2>2, <2>3, <2>4, <2>5, <2>6, <2>7 DEF SchedulerNext
<1> QED
  BY <1>4, <1>5, <1>6 DEF Inv, TypeOK, WorldTypes, TickTypes, HistoryTypes, Reminders

LEMMA InvHolds == Spec => []Inv
<1>1. Init => Inv
  <2> SUFFICES ASSUME Init
               PROVE  Inv
    OBVIOUS
  <2>1. 0 \in 0..MaxTime /\ 0 \in 0..MaxFaults
    BY BoundsAssumption
  <2>2. WorldTypes /\ HistoryTypes
    BY <2>1 DEF Init, WorldTypes, HistoryTypes, Sends
  <2>3. TickTypes
    BY DEF Init, TickTypes
  <2> QED
    BY <2>2, <2>3, InvParts
<1>2. Inv /\ [Next]_vars => Inv'
  <2>1. Inv /\ UNCHANGED vars => Inv'
    BY DEF Inv, TypeOK, vars, tables, tick, history, Ids, Sends
  <2> QED
    BY <2>1, WorldStep, TickStep DEF Next
<1> QED
  BY <1>1, <1>2, PTL DEF Spec

\* The types of the tables and of the tick: a tick has each reminder once, undelivered
\* when it is reached (run_once).
THEOREM TypeCorrect == Spec => []TypeOK
BY InvHolds, PTL DEF Inv

----------------------------------------------------------------------------
(* One-shot *)

\* The strengthening: a push of a reminder that is undelivered and was never broken off
\* can only be one of the delivery under way, to a device that has answered.
Clean ==
    \A r \in Ids, d \in Devices :
        <<r, d>> \in pushed.once /\ r \notin interrupted =>
            \/ reminders[r].delivered
            \/ pc = "sending" /\ r = Current /\ d \notin todo

LEMMA CleanStep ==
    ASSUME Inv, Clean, OneShotUnlessInterrupted, [Next]_vars
    PROVE  Clean' /\ OneShotUnlessInterrupted'
<1>0. TypeOK
  BY DEF Inv
<1>1. ASSUME UNCHANGED <<tick, history>>,
             Ids \subseteq Ids', \A r \in Ids : reminders'[r] = reminders[r]
      PROVE  Clean' /\ OneShotUnlessInterrupted'
  <2>1. \A r, d : <<r, d>> \in pushed.once => r \in Ids
    BY <1>0 DEF TypeOK, Sends
  <2> QED
    BY <1>1, <2>1 DEF Clean, OneShotUnlessInterrupted, Current, tick, history
<1>2. CASE WorldNext \/ UNCHANGED vars
  <2>1. CASE reminders' = reminders
    BY <1>1, <1>2, <2>1
    DEF WorldNext, SetReminder, RegisterDevice, ClockTicks, vars, tables, Ids
  <2>2. ASSUME NEW user \in Users, NEW at \in 0..MaxTime, SetReminder(user, at)
        PROVE  Clean' /\ OneShotUnlessInterrupted'
    <3> DEFINE row == [user |-> user, at |-> at, delivered |-> FALSE]
    <3>1. row \in Reminders /\ reminders \in Seq(Reminders)
      BY <1>0 DEF Reminders, TypeOK
    <3>2. reminders' = Append(reminders, row)
      BY <2>2 DEF SetReminder
    <3> HIDE DEF row
    <3>3. Ids \subseteq Ids' /\ \A r \in Ids : reminders'[r] = reminders[r]
      BY <3>1, <3>2 DEF Ids
    <3> QED
      BY <1>1, <2>2, <3>3 DEF SetReminder
  <2>3. CASE (\E user \in Users, d \in Devices : RegisterDevice(user, d)) \/ ClockTicks
             \/ UNCHANGED vars
    <3>1. reminders' = reminders
      BY <2>3 DEF RegisterDevice, ClockTicks, vars, tables
    <3> QED
      BY <2>1, <3>1
  <2> QED
    BY <1>2, <2>2, <2>3 DEF WorldNext
<1>3. ASSUME SchedulerNext \/ TickFails \/ Restart
      PROVE  Ids' = Ids /\ \A r \in Ids : reminders[r].delivered => reminders'[r].delivered
  <2>1. CASE Mark
    <3>1. Current \in Ids /\ reminders' = [reminders EXCEPT ![Current].delivered = TRUE]
      BY <2>1, SentTo DEF Mark
    <3>2. \A r \in Ids : reminders[r] \in Reminders
      BY <1>0, TableRows
    <3> QED
      BY <3>1, <3>2 DEF Ids, Reminders
  <2>2. CASE reminders' = reminders
    BY <2>2 DEF Ids
  <2> QED
    BY <1>3, <2>1, <2>2
    DEF SchedulerNext, Poll, ReadTargets, TickEnds, SendAccepted, SendRefused, SendRaises,
        TickFails, Restart, tables
<1>4. CASE Poll \/ ReadTargets \/ TickEnds \/ \E d \in Devices : SendRefused(d)
  <2>1. pushed' = pushed /\ interrupted' = interrupted
    BY <1>4 DEF Poll, ReadTargets, TickEnds, SendRefused, history
  <2>2. pc = "sending" => pc' = "sending" /\ Current' = Current /\ todo' \subseteq todo
    BY <1>4 DEF Poll, ReadTargets, TickEnds, SendRefused, Current
  <2>3. SchedulerNext
    BY <1>4 DEF SchedulerNext
  <2> QED
    BY <1>3, <2>1, <2>2, <2>3 DEF Clean, OneShotUnlessInterrupted
<1>5. ASSUME NEW d \in Devices, SendAccepted(d)
      PROVE  Clean' /\ OneShotUnlessInterrupted'
  <2>1. /\ pc = "sending" /\ pc' = "sending" /\ Current' = Current
        /\ d \in todo /\ todo' = todo \ {d}
        /\ Arrives(Current, d) /\ interrupted' = interrupted /\ SchedulerNext
    BY <1>5 DEF SendAccepted, Current, SchedulerNext
  <2>2. Current \in Ids /\ ~reminders[Current].delivered
    BY <2>1, SentTo
  <2>3. /\ pushed'.once = pushed.once \cup {<<Current, d>>}
        /\ pushed'.again \in {pushed.again, pushed.again \cup {<<Current, d>>}}
        /\ <<Current, d>> \notin pushed.once => pushed'.again = pushed.again
    BY <1>0, <2>1, <2>2, ArrivesType DEF Inv, TypeOK
  <2>4. <<Current, d>> \in pushed.once => Current \in interrupted
    BY <2>1, <2>2 DEF Clean
  <2>5. OneShotUnlessInterrupted'
    BY <2>1, <2>3, <2>4 DEF OneShotUnlessInterrupted
  <2>6. Clean'
    BY <1>3, <2>1, <2>3 DEF Clean
  <2> QED
    BY <2>5, <2>6
<1>6. CASE Mark
  <2>1. /\ pc = "sending" /\ pushed' = pushed /\ interrupted' = interrupted
        /\ reminders' = [reminders EXCEPT ![Current].delivered = TRUE] /\ SchedulerNext
    BY <1>6 DEF Mark, SchedulerNext
  <2>2. reminders'[Current].delivered
    <3>1. Current \in Ids /\ reminders[Current] \in Reminders
      BY <1>0, <2>1, SentTo, TableRows
    <3> QED
      BY <2>1, <3>1 DEF Ids, Reminders
  <2> QED
    BY <1>3, <2>1, <2>2 DEF Clean, OneShotUnlessInterrupted
<1>7. CASE BrokenOff
  <2>1. pc = "sending" => interrupted' = interrupted \cup {Current}
    BY <1>7 DEF BrokenOff, SendRaises, TickFails, Restart, BreakOff
  <2>2. interrupted \subseteq interrupted' /\ (SchedulerNext \/ TickFails \/ Restart)
    BY <1>7
    DEF BrokenOff, SendRaises, TickFails, Restart, BreakOff, SchedulerNext
  <2>3. CASE pushed' = pushed
    BY <1>3, <2>1, <2>2, <2>3 DEF Clean, OneShotUnlessInterrupted
  <2>4. ASSUME NEW d \in Devices, pc = "sending", Arrives(Current, d)
        PROVE  Clean' /\ OneShotUnlessInterrupted'
    <3>1. Current \in Ids
      BY <2>4, SentTo
    <3>2. /\ pushed'.once = pushed.once \cup {<<Current, d>>}
          /\ pushed'.again \in {pushed.again, pushed.again \cup {<<Current, d>>}}
      BY <1>0, <2>4, <3>1, ArrivesType DEF Inv, TypeOK
    <3> QED
      BY <1>3, <2>1, <2>2, <2>4, <3>2 DEF Clean, OneShotUnlessInterrupted
  <2> QED
    BY <2>2, <2>3, <2>4, HistoryStep
<1> QED
  BY <1>2, <1>4, <1>5, <1>6, <1>7 DEF Next, SchedulerNext, BrokenOff

\* A reminder rings twice on a device only if a delivery of it was broken off (run_once,
\* _deliver).
THEOREM RingsOnce == Spec => []OneShotUnlessInterrupted
<1>1. Init => Clean /\ OneShotUnlessInterrupted
  BY DEF Init, Clean, OneShotUnlessInterrupted
<1>2. Inv /\ Clean /\ OneShotUnlessInterrupted /\ [Next]_vars
        => Clean' /\ OneShotUnlessInterrupted'
  BY CleanStep
<1> QED
  BY <1>1, <1>2, InvHolds, PTL DEF Spec

----------------------------------------------------------------------------
(* Delivered reminders and their devices *)

\* A delivered reminder is never sent again, though the tick works on a list it read long
\* before (due_reminders, mark_reminder_delivered).
THEOREM DeliveredStaysSilent == Spec => DeliveredIsFinal
<1>1. Inv /\ [Next]_vars =>
        [\A s \in Sends :
           reminders[s[1]].delivered =>
             /\ s \in pushed'.once => s \in pushed.once
             /\ s \in pushed'.again => s \in pushed.again]_vars
  <2> SUFFICES ASSUME Inv, Next, NEW s \in Sends, reminders[s[1]].delivered
               PROVE  /\ s \in pushed'.once => s \in pushed.once
                      /\ s \in pushed'.again => s \in pushed.again
    BY DEF vars, history
  <2>1. CASE WorldNext
    BY <2>1 DEF WorldNext, SetReminder, RegisterDevice, ClockTicks, history
  <2>2. CASE SchedulerNext \/ TickFails \/ Restart
    <3>1. CASE pushed' = pushed
      BY <3>1
    <3>2. ASSUME NEW d \in Devices, pc = "sending", Arrives(Current, d)
          PROVE  /\ s \in pushed'.once => s \in pushed.once
                 /\ s \in pushed'.again => s \in pushed.again
      <4>1. Current \in Ids /\ ~reminders[Current].delivered
        BY <3>2, SentTo
      <4>2. s # <<Current, d>>
        BY <4>1
      <4>3. /\ pushed'.once = pushed.once \cup {<<Current, d>>}
            /\ pushed'.again \in {pushed.again, pushed.again \cup {<<Current, d>>}}
        BY <3>2, <4>1, ArrivesType DEF Inv, TypeOK
      <4> QED
        BY <4>2, <4>3
    <3> QED
      BY <2>2, <3>1, <3>2, HistoryStep
  <2> QED
    BY <2>1, <2>2 DEF Next
<1> QED
  BY <1>1, InvHolds, PTL DEF Spec, DeliveredIsFinal

\* Every device read for the delivery is still to be sent to, or has answered.
Targeted == pc = "sending" => targets \subseteq todo \cup answered

\* A reminder is marked only when every device that was read for it has answered (_deliver
\* leaves it for the next tick when a request raises).
THEOREM MarkedAfterAnswers == Spec => MarkedWhenAllAnswered
<1>1. Init => Targeted
  BY DEF Init, Targeted
<1>2. Targeted /\ [Next]_vars => Targeted'
  BY DEF Targeted, Next, WorldNext, SchedulerNext, SetReminder, RegisterDevice, ClockTicks,
         Poll, ReadTargets, TickEnds, Mark, SendAccepted, SendRefused, SendRaises, TickFails,
         Restart, BreakOff, vars, tick, history
<1>3. Inv /\ Targeted /\ [Next]_vars =>
        [\A r \in Ids : reminders'[r].delivered /\ ~reminders[r].delivered =>
           targets \subseteq answered]_vars
  <2> SUFFICES ASSUME Inv, Targeted, Next, NEW r \in Ids,
                      reminders'[r].delivered, ~reminders[r].delivered
               PROVE  targets \subseteq answered
    OBVIOUS
  <2>1. CASE Mark
    BY <2>1 DEF Mark, Targeted
  <2>2. ASSUME NEW user \in Users, NEW at \in 0..MaxTime, SetReminder(user, at)
        PROVE  FALSE
    <3> DEFINE row == [user |-> user, at |-> at, delivered |-> FALSE]
    <3>1. row \in Reminders /\ reminders \in Seq(Reminders)
      BY DEF Reminders, Inv, TypeOK
    <3>2. reminders' = Append(reminders, row)
      BY <2>2 DEF SetReminder
    <3> HIDE DEF row
    <3> QED
      BY <3>1, <3>2 DEF Ids
  <2>3. CASE reminders' = reminders
    BY <2>3
  <2> QED
    BY <2>1, <2>2, <2>3
    DEF Next, WorldNext, SchedulerNext, RegisterDevice, ClockTicks, Poll, ReadTargets, TickEnds,
        SendAccepted, SendRefused, SendRaises, TickFails, Restart, tables
<1> QED
  BY <1>1, <1>2, <1>3, InvHolds, PTL DEF Spec, MarkedWhenAllAnswered
============================================================================
