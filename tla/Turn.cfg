\* From the first message to a finalized draft, of a new document or an
\* existing one.
SPECIFICATION FairSpec
CONSTANTS
    assume = assume
    ask = ask
    h1 = h1
    h2 = h2
    t1 = t1
    t2 = t2
    c1 = c1
    c2 = c2
    Headings = {h1}
    NodeIds = {assume, ask}
    KindOf <- Kinds
    HeadingOf <- OneHeading
    Texts = {t1}
    WholeTexts = {t1}
    MarkedTexts = {}
    NoText = NoText
    Chunks = {c1, c2}
    Requests <- Main
    Strays = {"finalize"}
    Lives = {"in_progress", "stale"}
    MaxTurns = 3
    MaxRounds = 1
    MaxJudge = 0
    RepeatExit = 2
    SummaryEvery = 2
    MaxHumans = 3
    MaxChanges = 1
CHECK_DEADLOCK FALSE
INVARIANTS
    RunsLeaveOneOfEach
    ProposalsAreGated
PROPERTIES
    PhaseEdgesAreLegal
    NothingVanishes
    HeardOnce
    RunsStop
CONSTRAINT OneStart
