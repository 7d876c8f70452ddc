SPECIFICATION Spec
CONSTANTS
    Msg = {m1, m2}
    NoMsg = NoMsg
    QUEUE_SIZE = 2
    QUEUE_OVERLOAD = 1
    MaxLen = 4
INVARIANTS
    ScheduledOnce
    NoStranded
    FreedIsUnreachable
PROPERTIES
    MailboxSpec
CHECK_DEADLOCK FALSE
