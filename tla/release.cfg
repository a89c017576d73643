SPECIFICATION FairSpec
CONSTANTS
    Releases = {"v1"}
    Checks = {"k1", "k2"}
    Flows = {"pay", "faq", "app"}
    FlowsOf <- MCFlowsOf
    ModesOf <- MCModesOf
    AskedAbout = {"k1"}
    ProjectGiven = {TRUE}
    CritOf <- MCCritOf
    Outcomes <- MCOutcomes
    EvalOutcomes = {"pass"}
    AuthTrouble = {"expired_session"}
    StaleFlows = {"faq"}
    Settings <- MCSettings
    ContextRisks = {20}
    MaxEdits = 1
INVARIANTS ShipIsEarned BriefIsCoherent
PROPERTIES NobodyClobbers BriefComesTrue
CHECK_DEADLOCK FALSE
