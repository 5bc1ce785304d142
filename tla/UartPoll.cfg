SPECIFICATION Spec
CONSTANTS
    Devices = {"io_860", "ups", "k25"}
    Types <- MCTypes
    Readings <- MCReadings
    Limits <- MCLimits
INVARIANTS TypeOK AlarmsMatchLatch PageShowsDevice LimitsAreCurrent
PROPERTY StatusFollowsReading
