\* Two versions and three instants: every order of approval, activation,
\* expiry, archive and the two cutoffs of two versions occurs.
CONSTANTS
    None = None
    LastInstant = 2
    LastNumber = 2
SPECIFICATION ReplaySpec
CHECK_DEADLOCK FALSE
INVARIANTS
    AnswerMeetsContract
PROPERTIES
    LaterFactsChangeNothing
    KnowledgeNeverRegresses
    ExpiryNeverResurrects
