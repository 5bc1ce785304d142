\* Does a notifier clear its own ring when it ends?
SPECIFICATION Spec
CONSTANTS
    poller = poller  Sms = sms  Email = email  Writer = writer  Main = main
    m1 = m1  m2 = m2  a1 = a1  a2 = a2  a3 = a3
    Pollers = {poller}
    Eager = {}
    StartOrder <- MCStartOrder
    MsgBlocks = {m1, m2}
    AlarmBlocks = {a1, a2}
    NoBlock = NoBlock
    DataRingSize = 2
    AlarmRingSize = 1
    MaxWork = 1
PROPERTY NotifierClearsOwnRing
