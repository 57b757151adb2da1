SPECIFICATION FairProgramSpec
CONSTANTS
    Viewer = {v1}
    Program = v1
    Guid = {g1}
    EmptyGuid = EmptyGuid
    UpdatePeriod = 2
    MaxDelay = 2
    CaFileExists = {TRUE, FALSE}
    PatientUser = FALSE
    MaxCalls = 2
    MaxConnects = 2
    front = front
    back = back
    garden = garden
    Server <- Servers
    EndpointOf <- Endpoints
    NoServer = NoServer
    NoPipeline = NoPipeline
INVARIANTS TypeOK ProgramTypeOK TimerRunsWithSession SessionIsSeen
PROPERTIES PipelineIsNotReplaced ConstructionIsAnswered
