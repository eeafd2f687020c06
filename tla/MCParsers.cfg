CONSTANTS
    Dash = Dash
    Comma = Comma
    Newline = Newline
    config = config
    config1 = config1
    letter = letter
    Members = {config, config1}
    Files <- MCFiles
    Leftovers <- MCLeftovers
    Chars <- MCAllChars
    NoText = NoText
    NoFile = NoFile
    Largest = 255
    MaxLen = 5
    MaxNumber = 20
    Codes <- MCCodes
    ExtSels = {0, 1}
    FieldKeys <- MCFieldKeys
    Fields <- MCFields
    Filters <- MCFilters
    Msrs <- MCMsrs
    ConfigCodes <- MCConfigCodes
    IdCodes <- MCIdCodes
    StdEvent <- MCStdEvent
    FixedEvent <- MCFixedEvent
    Missing = Missing
    Malformed = Malformed

SPECIFICATION EitherSpec

INVARIANT TakesWhatIsWellFormed
INVARIANT FirstLineParsed
INVARIANT RangesLiveOnSuccess
INVARIANT AssignmentsSurvive

CHECK_DEADLOCK FALSE
