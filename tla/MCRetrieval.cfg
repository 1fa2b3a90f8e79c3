SPECIFICATION SuiteSpec
CONSTANTS
    Requests <- MCRequests
    Proposals <- MCProposals
    KbHits <- MCKbHits
    WebHits <- MCWebHits
    MaxRankings = 2
    TopK = 2
    RerankTopK = 2
    MinHits = 1
    None = None
    Files = {f1, f2, f3}
    Histories <- MCHistories
    Found <- MCFound
    Queries = {1, 3, 30}
    SystemSizes = {2, 4}
    Total = 24
    RecentRounds = 2
    SummaryLines = 1
    Overhead = 1
    Wrap = 1
    Margin = 5
    ShortText = 12
    Growth = 4
    Off = Off
SYMMETRY Symmetry
CHECK_DEADLOCK FALSE
INVARIANTS
    EvidenceKept
    PromptFits
    
PROPERTIES
    DocumentKept
