CONSTANTS
    Users = {u1, u2}
    NoUser = NoUser
    Devices = {d1, d2}
    Flaky = {d1}
    Limit = 2
    MaxReminders = 2
    MaxTime = 1
    MaxFaults = 1
SPECIFICATION FairSpec
INVARIANTS
    OneShotUnlessInterrupted
PROPERTIES
    DeliveredIsFinal
    MarkedWhenAllAnswered
    DueIsDelivered
