----------------------------- MODULE MCUartPoll -----------------------------
EXTENDS UartPoll, TLC

MCTypes == [io_860 |-> <<<<"enum">>, <<"enum">>>>,
            ups    |-> <<<<"analog", "enum">>>>,
            k25    |-> <<<<"analog">>>>]
MCReadings == [io_860 |-> {1}, ups |-> {0, 1, 2}, k25 |-> {0, 1, 2}]
MCLimits == [io_860 |-> {NoLimits, [up_limit |-> 1, up_free |-> 0]},
             ups    |-> {[up_limit |-> 1, up_free |-> 1, low_limit |-> 1]},
             k25    |-> {[up_limit |-> 1], [low_limit |-> 1, low_free |-> 1]}]
=============================================================================
