SPECIFICATION FairSpec
CONSTANTS
    pc1 = pc1
    pc2 = pc2
    pc3 = pc3
    film = film
    NoDate = NoDate
    NoAddress = NoAddress
    NoAnswer = NoAnswer
    NoChoice = NoChoice
    PresentList = PresentList
    Machines = {pc1, pc2, pc3}
    Asked = {pc1, pc3}
    Incomplete = {pc3}
    Videos = {film}
    InitDocument <- MCDocument
    MaxDate = 2
    MaxFaults = 1
    MaxQuestions = 4
    MaxAnswers = 2
    MaxFound = 2
    MaxRefused = 2
INVARIANTS TypeOK ListMatchesFile SavedAsFound UsableOnly SentToAgreed DiesOnlyDamaged SocketsSurvive
PROPERTIES KeepsBook SearchEndsIfOpen
