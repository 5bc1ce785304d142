\* Two msg blocks and a data ring of two, as 32 and 32 in main(); three alarm blocks and
\* rings of one, so that an alarm may find one ring full and the other empty.
SPECIFICATION Spec
CONSTANTS
    poller = poller  Sms = sms  Email = email  Writer = writer  Main = main
    m1 = m1  m2 = m2  a1 = a1  a2 = a2  a3 = a3
    Pollers = {poller}
    Eager = {poller}
    StartOrder <- MCStartOrder
    MsgBlocks = {m1, m2}
    AlarmBlocks = {a1, a2, a3}
    NoBlock = NoBlock
    DataRingSize = 2
    AlarmRingSize = 1
    MaxWork = 1
SYMMETRY BlockSymmetry
INVARIANTS TypeOK BlockOwnership NoBlockLost FreeNeverRefused DataRingHasRoom NoUseAfterDestroy
PROPERTY WriterLeavesNothing
