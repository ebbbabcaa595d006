SPECIFICATION Spec
CONSTANTS
    Index <- MCIndex
    ArgsPath <- MCArgsPath
    Within <- MCWithin
    Rank <- MCRank
    Length <- MCLength
    Regexes <- MCRegexes
    JsonText <- MCJsonText
    Statements <- MCStatements
    Inputs <- MCInputs
    Resources <- MCResources
    MaxRetries = 2
    MaxChanges = 1
    MaxTries = 2
    MaxReceiptSize = 2
    ActionId = "id"
    SigningKey <- MCSigningKey
    Configs <- MCConfigs
    Escape <- MCEscape
    Ports = {5432, 6543}
    Server <- MCServer
    RedisPrefix = "app:"
    MaxEvidenceSize = 200
    Token = "t"
INVARIANTS
    VerdictTrue  LoadTruthful SecretsHidden RecordedOnce ReceiptAuthentic
    ConnectsAsWritten
PROPERTY ImplementsDelivery
CHECK_DEADLOCK FALSE
