\* Liveness, full rings included, with main() raising the alarms and both notifiers
\* making records: a data ring smaller than the pool that feeds it, one alarm in an alarm
\* ring, and alarm blocks for one alarm at a time.
SPECIFICATION FairSpec
CONSTANTS
    poller = poller  Sms = sms  Email = email  Writer = writer  Main = main
    m1 = m1  m2 = m2  a1 = a1  a2 = a2  a3 = a3
    Pollers = {}
    Eager = {}
    StartOrder <- MCWithoutPollers
    MsgBlocks = {m1, m2}
    AlarmBlocks = {a1, a2}
    NoBlock = NoBlock
    DataRingSize = 1
    AlarmRingSize = 1
    MaxWork = 1
PROPERTIES RecordsDrain AlarmsDrain
