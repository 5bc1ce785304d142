\* Does a reboot complete, with a poller among the threads to be stopped?  Blocks for one
\* record and for one alarm at a time, rings of one.
SPECIFICATION FairSpec
CONSTANTS
    poller = poller  Sms = sms  Email = email  Writer = writer  Main = main
    m1 = m1  m2 = m2  a1 = a1  a2 = a2  a3 = a3
    Pollers = {poller}
    Eager = {}
    StartOrder <- MCStartOrder
    MsgBlocks = {m1}
    AlarmBlocks = {a1, a2}
    NoBlock = NoBlock
    DataRingSize = 1
    AlarmRingSize = 1
    MaxWork = 1
PROPERTY RebootCompletes
