SPECIFICATION Spec
CONSTANTS
    a = a
    n1 = n1
    n2 = n2
    n3 = n3
    c1 = c1
    c2 = c2
    c3 = c3
    doc = doc
    le_nouveau = le_nouveau
    NULL = NULL
    sentinel = sentinel
    NoCell = NoCell
    NoDate = NoDate
    NoAddress = NoAddress
    Machines = {a}
    MaxDate = 1
    MaxFaults = 0
    InitDocument <- EmptyDocument
    Nodes = {doc, le_nouveau, n1, n2, n3}
    Cells = {c1, c2, c3}
    Names = {"ip", "os", "date"}
    Values = {"", "v"}
    Characters <- MCCharacters
    Letters <- MCLetters
    MaxText = 4
    MaxName = 6
    MaxConfigs = 2
    MaxUsers = 2
INVARIANTS ValuesReturn NamesAccepted SavedIsLoaded CutsAreBeginnings TreeLinked
PROPERTIES KeepsChildren AttributesKeepOrder
SYMMETRY MCPlaces
CHECK_DEADLOCK FALSE
