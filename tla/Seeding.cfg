CONSTANTS
    NCustomers = 1
    NIncidents = 3
    NTickets = 1
    NPostmortems = 1
    NRunbooks = 2
    NDays = 2
    Services <- MCServices
    Topics <- MCTopics
    RootCauses = {"database", "network"}
    Reference = 1000000
    Seeds = {s1, s2}
    Drawn <- MCDrawn
    GoldSize = 6
    Cap = 1
    Calls <- MCCalls
SYMMETRY Symmetry
SPECIFICATION ServerSpec
INVARIANTS
    CorpusIsOfOneSeed
    TablesAreOneDataset
    OffersAreServed
    FiguresAgree
