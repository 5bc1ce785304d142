\* A ring of three slots of capacity: the cursors wrap at different times, and the ring is
\* full, empty and everything between at every position.  A list of two (3 in the code)
\* between the email thread and the SNMP agent: the units are reused within MaxPush pushes,
\* and the producer may die twice.  Alarms of three keys for two slots, so that they are
\* refused; send_times of two bits wraps.
SPECIFICATION Spec
CONSTANTS
    Data = {d1, d2, d3}
    NoData = NoData
    n = 3
    Producers = {email}
    Consumers = {agent}
    max_unit_num = 2
    MaxPush = 6
    MaxCrashes = 2
    Keys = {k1, k2, k3}
    MAX_QUEUE_NUMBER = 2
    SendTimes = {1, 2}
    Width = 2
INVARIANTS TypeOK PopsInOrder FreeUnitFound CrashCostsOne
INVARIANTS PendingIsLatest PoolMatchesQueue NothingUnsent SentAsAsked
PROPERTIES ImplementsFifo PushEnded AcceptedIsRead ImplementsAgentQueue EntryEnds ImplementsBook
