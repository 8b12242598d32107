\* Four messages of the human, two answers, a summary every second message.
SPECIFICATION Spec
CONSTANTS
    w1 = w1
    w2 = w2
    Words = {w1, w2}
    Answers <- SomeAnswers
    Priority <- Order
    Riders = {"note"}
    Talkers = {"ask_user", "respond"}
    Menu = {"ask_user", "write_draft", "respond", "note", "run_critique"}
    SummaryEvery = 2
    MaxHumans = 4
    MaxAnswers = 2
SYMMETRY Symmetry
CHECK_DEADLOCK FALSE
INVARIANTS
    CallsAnswered
    QuestionKept
    SignaturesKept
