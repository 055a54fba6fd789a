SPECIFICATION FairSpec
CONSTANTS
    c1 = c1
    c2 = c2
    Calls = {c1, c2}
    MAX_ATTEMPTS = 5
    MaxSid = 11
    Earlier = 1
    Faults = {"transport", "server", "not_json", "rate_limit", "probe"}
    Others = Others
INVARIANTS
    ExecutionsAreAccountedFor
PROPERTIES
    ImplementsPlaceCall
CHECK_DEADLOCK FALSE
