\* Is an alarm sent at most send_times times?
SPECIFICATION SendSpec
CONSTANTS
    Keys = {k1, k2}
    MAX_QUEUE_NUMBER = 2
    SendTimes = {1, 2, 3}
    Width = 3
INVARIANT NeverMoreThanAsked
