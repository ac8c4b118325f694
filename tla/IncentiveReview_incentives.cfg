SPECIFICATION Spec
CONSTANTS
    p1 = p1
    p2 = p2
    page1 = page1
    page2 = page2
    c1 = c1
    c2 = c2
    c3 = c3
    Programs = {p1, p2}
    Known <- OnRecord
    Pages <- Scraped
    Rates = {"20%", "25%"}
    Changes = {c1, c2, c3}
    Legacy = {c3}
    Cases <- Asked
    EngineChoices = {"CORE_LOWER_OF", "ELIGIBLE_LOCAL_SPEND", "MULTI_BUCKET", "COMPETITIVE_GRANT"}
    Terms <- Conditions
    MaxRow = 2
    MaxTurns = 2
    MaxFaults = 1
    Unknown = Unknown
    Nobody = Nobody
SYMMETRY Fresh
INVARIANTS
    TypeOK
    WrittenIsApproved
    ApprovedIsWritten
    FiledByName
    AskedOnce
    OpenGateHasCause
    StatusMatchesChart
    SilenceGivesNoFigure
    AnswersKeepFigures
CHECK_DEADLOCK FALSE
