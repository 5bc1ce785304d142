\* Does a setting that was reported as set stay in the file?
SPECIFICATION ConfigSpec
CONSTANTS
    Requests = {"r1", "r2"}
    Rows = {1, 2}
INVARIANT ReportedSettingStays
CHECK_DEADLOCK FALSE
