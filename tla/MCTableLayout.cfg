CONSTANTS
    Chars <- MCChars
    EventAttributes <- MCEventAttributes
    MetricAttributes <- MCMetricAttributes
    EnumAttributes = {"perpkg", "event_grouping"}
    DoubledAttributes = {"metric_expr"}
    Entries <- MCEntries
    MaxEntries = 4

SPECIFICATION Spec

INVARIANT OffsetsReadBack
INVARIANT FoldedIntoWritten
INVARIANT ArraysDefinedOnce
INVARIANT EntriesReadBack

CHECK_DEADLOCK FALSE
