SPECIFICATION PolicySpec
CONSTANTS
    None = None
    Answers <- MCAnswers
    RoundedIn <- MCRoundedIn
INVARIANTS
    UncertaintyNeverCheapens
PROPERTIES
    RaisingDemandNeverLowersModel
