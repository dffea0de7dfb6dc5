SPECIFICATION Spec
CONSTANTS
    p = p
    q = q
    g = g
    h = h
    movie = movie
    archive = archive
    trailer = trailer
    NoName = NoName
    NoSession = NoSession
    HeaderCell = HeaderCell
    Names = {movie, archive, trailer}
    Sessions = {p}
    Putters = {p}
    Getters = {}
    Unreadable = {}
    Impatient = {}
    InitStored = {archive}
    Cell <- MCCell
    NameOf <- MCNameOf
    SourceOf <- MCSourceOf
    InitContent <- MCInitContent
    DataCells = 2
    MaxCells = 5
    WordMod = 100
    MaxClients = 1
    MaxBacklog = 3
    SendRoom = 4
    MaxBlock = 10
    Segmented = TRUE
    MayFault = FALSE
    DiskMayFail = FALSE
PROPERTY SuccessfullyTransferred
