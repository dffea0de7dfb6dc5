SPECIFICATION FairSpec
CONSTANTS
    p = p
    q = q
    g = g
    h = h
    movie = movie
    archive = archive
    trailer = trailer
    NoName = NoName
    NoSession = NoSession
    HeaderCell = HeaderCell
    Names = {movie, archive, trailer}
    Sessions = {p, g}
    Putters = {p}
    Getters = {g}
    Unreadable = {p}
    Impatient = {p, g}
    InitStored = {archive}
    Cell <- MCCell
    NameOf <- MCNameOf
    SourceOf <- MCSourceOf
    InitContent <- MCInitContent
    DataCells = 2
    MaxCells = 5
    WordMod = 100
    MaxClients = 1
    MaxBacklog = 1
    SendRoom = 2
    MaxBlock = 4
    Segmented = TRUE
    MayFault = TRUE
    DiskMayFail = TRUE
INVARIANT TypeOK
PROPERTY PutEndsOnceServed
CHECK_DEADLOCK FALSE
