\* Configuration file, shared memory and beeper, digital inputs, mail and short messages, each by itself.
SPECIFICATION Spec
CONSTANTS
    Requests = {"r1", "r2"}
    Rows = {1, 2}
    N = 2
    MAX_DI_NUMBER = 2
    Pages <- MCPages
    Queries = {"query"}
    Levels <- MCLevels
    Receivers = 2
    Offers <- MCOffers
    Contacts = 2
    MaxOwed = 2
CONSTRAINT BeforeOverlap
INVARIANTS TypeOK KeptWithoutOverlap WholeCopies DiAlarmsMatch MailAccepted SmsResult
PROPERTIES ChangeArrives BeepFollows MailEnds
\* A mail ends, and so may the requests.
CHECK_DEADLOCK FALSE
