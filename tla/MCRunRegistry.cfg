CONSTANTS
    c1 = c1
    Clients <- MCClients
    HidingClients <- MCClients
    MaxBuffered = 2
    MaxRuns = 2
    MaxEvents <- MCMaxEvents
SPECIFICATION FairSpec
INVARIANTS
    TypeOK
    PageShowsItsCursor
    RunningIsRegistered
PROPERTIES
    PagesEnd
