SPECIFICATION Spec
CONSTANTS
    MaxNumber = 20
    Codes <- MCCodes
    ExtSels = {0, 1}
    FieldKeys <- MCFieldKeys
    Fields <- MCFields
    Filters <- MCFilters
    Msrs <- MCMsrs
    ConfigCodes <- MCConfigCodes
    IdCodes <- MCIdCodes
    StdEvent <- MCStdEvent
    FixedEvent <- MCFixedEvent
    Missing = Missing
    Malformed = Malformed
CHECK_DEADLOCK FALSE
INVARIANT EveryValueSurvives
