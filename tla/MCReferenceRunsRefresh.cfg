SPECIFICATION RunsSpec
CONSTANTS
    p1 = p1
    p2 = p2
    Processes = {p1, p2}
    Requests <- MCRequests
    Versions <- MCVersions
    Barren = {"v2"}
    MaxRuns = 2
    Rows = 2
    Starts <- MCStarts
SYMMETRY Symmetry
CHECK_DEADLOCK FALSE
INVARIANT CandidatesAreNotOlder
