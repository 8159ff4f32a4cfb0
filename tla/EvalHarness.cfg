\* Two processes, two naive runs, two gate runs and an n1 run over one document of
\* two pages.
SPECIFICATION Spec
CONSTANTS
    Procs = {p1, p2}
    Runs <- MCRuns
    Naive <- MCNaive
    Ablated <- MCAblated
    Records <- MCRecords
    Pages = {1, 2}
    Evidence = {2}
    DailyBudget = 1
    MaxCalls = 1
    MaxRetries = 1
    MaxDay = 1
    MaxMishaps = 1
    None = None
    nA = nA
    nB = nB
    gA = gA
    gB = gB
    g1 = g1
SYMMETRY Symmetry
CONSTRAINTS
    WholeOverMidnight
    OneKind
INVARIANTS
    TypeOK
    BudgetHolds
    AskedOnce
    AblatedStaysBlind
    AnsweredFromWhole
