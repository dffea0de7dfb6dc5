SPECIFICATION Spec
CONSTANTS
    pc1 = pc1
    pc2 = pc2
    pc3 = pc3
    film = film
    NoDate = NoDate
    NoAddress = NoAddress
    NoAnswer = NoAnswer
    NoChoice = NoChoice
    PresentList = PresentList
    Machines = {pc1, pc2, pc3}
    Asked = {pc1, pc2}
    Incomplete = {}
    Videos = {film}
    InitDocument <- MCPairDocument
    MaxDate = 2
    MaxFaults = 0
    MaxQuestions = 2
    MaxAnswers = 2
    MaxFound = 4
    MaxRefused = 1
INVARIANT DoneMeansSent
