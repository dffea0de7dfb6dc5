SPECIFICATION Spec
CONSTANTS
    p = p
    q = q
    g = g
    h = h
    movie = movie
    archive = archive
    trailer = trailer
    NoName = NoName
    NoSession = NoSession
    HeaderCell = HeaderCell
    Names = {movie, archive, trailer}
    Sessions = {p, h}
    Putters = {p}
    Getters = {h}
    Unreadable = {}
    Impatient = {p, h}
    InitStored = {archive}
    Cell <- MCCell
    NameOf <- MCNameOfShared
    SourceOf <- MCSourceOf
    InitContent <- MCInitContent
    DataCells = 2
    MaxCells = 5
    WordMod = 3
    MaxClients = 2
    MaxBacklog = 3
    SendRoom = 4
    MaxBlock = 10
    Segmented = FALSE
    MayFault = FALSE
    DiskMayFail = TRUE
INVARIANTS SlotsServeConnections StoredIsPrefix GetFaithful OlderReceived
PROPERTY WriteOnce
