\* Seven decoders, keys, certificates, statements and traces.
SPECIFICATION MCSpec
CONSTANTS
    Parts = {"bytes", "any key", "keys", "certificates", "attestation", "trace"}
    c1 = c1  c2 = c2  c3 = c3
    Matters = {"certificates", "attestation", "keys", "trace"}
    Pool <- MCPool
    LongestChain = 3
    MostRoots = 1
    Statements <- MCStatements
    Shown <- MCShown
    MaxTime = 2
    KeyBase = 4
    ModulusBytes = 2
    CoordinateSize <- Coordinates
    Offered = {"NODE-ED25519"}
    KeyCallers <- MCKeyCallers
    KeyCalls <- MCKeyCalls
    Flaws <- MCFlaws
    Base = 16
    Size = 1
    Order = 13
    SEQUENCE = 3
    INTEGER = 2
    Headers <- AllHeaders
    Integers_ <- AllIntegers
    Trailers <- AllTrailers
    MaxTokens <- MCMaxTokens
    Items <- MCItems
    Numbers <- MCNumbers
    MaxDepth = 2
    DataHeaders <- MCDataHeaders
    Pieces <- MCPieces
    HashBytes = 1
    CounterBytes = 1
    AaguidBytes = 1
    MaxIdLength = 2
    Elements <- MCElements
    ArcBytes <- MCArcBytes
    LargestArc = 70000
    Characters = {"A", "Q", "-", "+", "=", "*"}
INVARIANTS
    OneSpellingOnly BoundariesAreExact NothingIsLost KeysServe
    TrustIsProven StatementsAreJudged TraceTellsTheTruth
CHECK_DEADLOCK FALSE
