\* Every configuration, every answer of the network, the agent and the server.
CONSTANTS
    Texts <- MCTexts
    Empty = ""
    Options <- MCOptions
    HostParams <- MCHostParams
    Agents <- MCAgents
    MaxAddresses = 2
    Algos <- MCAlgos
    Supported <- MCSupported
SPECIFICATION FairSpec
INVARIANTS TypeOK OkIsAuthenticated OffersInOrder DialsInRounds OptionsWin
PROPERTY DialingEnds
