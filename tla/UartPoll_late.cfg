SPECIFICATION Spec
CONSTANTS
    Devices = {"io_860"}
    Types <- MCTypes
    Readings <- MCReadings
    Limits <- MCLimits
INVARIANT AnswersItsRequest
