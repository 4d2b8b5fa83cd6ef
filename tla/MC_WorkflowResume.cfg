SPECIFICATION Spec
CONSTANTS
    None = None
    x = x
    y = y
    noon = noon
    Scripts <- MCScripts
    Answers <- MCAnswers
    Times <- MCTimes
SYMMETRY AnswerSymmetry
INVARIANTS
    ResumeTypeOK
    AnswersEarned
    ConfirmedWorkStands
    EndedRunsResume
PROPERTIES
    StrictPrefix
CHECK_DEADLOCK FALSE
