SPECIFICATION FairHttpSpec
CONSTANTS
    Edges = {"sites", "request", "body"}
    Hosts <- KnownHosts
    Spellings = {"canonical", "slash", "path", "pattern"}
    Most = 3
    Table <- KnownSuffixes
    TrueSuffixes <- AllSuffixes
    Declared <- DeclaredLabels
    MaxLabels = 2
    Thrown = {"challenge_not_found", "unknown_credential", "credential_exists", "malformed_response", "counter_regression", "configuration_error"}
    Answers = {"ok", "crash", "empty"}
    Bodies = {"absent", "good", "oversized"}
    Cap = 4
    MostBytes = 9
INVARIANTS
    EveryConfiguredOriginWorks AdaptersAgree OutcomeIsTold BodiesAreWhole
PROPERTY OversizedIsAnswered
CHECK_DEADLOCK FALSE
