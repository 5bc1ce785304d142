\* One producer and two consumers.
SPECIFICATION LfSpec
CONSTANTS
    Producers = {email}
    Consumers = {agent, agent2}
    max_unit_num = 2
    MaxPush = 5
    MaxCrashes = 0
INVARIANT ReadOnce
CHECK_DEADLOCK FALSE
