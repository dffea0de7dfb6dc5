SPECIFICATION FairSpec
CONSTANTS
    p = p
    q = q
    g = g
    h = h
    movie = movie
    archive = archive
    trailer = trailer
    NoName = NoName
    NoSession = NoSession
    HeaderCell = HeaderCell
    Names = {movie, archive, trailer}
    Sessions = {p, q}
    Putters = {p, q}
    Getters = {}
    Unreadable = {q}
    Impatient = {}
    InitStored = {archive}
    Cell <- MCCell
    NameOf <- MCNameOf
    SourceOf <- MCSourceOf
    InitContent <- MCInitContent
    DataCells = 2
    MaxCells = 5
    WordMod = 100
    MaxClients = 2
    MaxBacklog = 3
    SendRoom = 4
    MaxBlock = 10
    Segmented = FALSE
    MayFault = FALSE
    DiskMayFail = FALSE
INVARIANTS LockStep OneWriter
PROPERTIES NoOverwrite SuccessfullyTransferred PutCompletes OnePutWins
