SPECIFICATION FairSpec
CONSTANTS
    pc1 = pc1
    pc2 = pc2
    pc3 = pc3
    film = film
    NoDate = NoDate
    NoAddress = NoAddress
    NoAnswer = NoAnswer
    NoChoice = NoChoice
    PresentList = PresentList
    Machines = {pc1, pc2, pc3}
    Asked = {pc1}
    Incomplete = {}
    Videos = {film}
    InitDocument <- MCDocument
    MaxDate = 2
    MaxFaults = 0
    MaxQuestions = 4
    MaxAnswers = 1
    MaxFound = 4
    MaxRefused = 2
PROPERTY SearchEnds
