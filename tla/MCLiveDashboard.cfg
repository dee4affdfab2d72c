SPECIFICATION FairDashboardSpec
CONSTANTS
    ToolCall = {1, 2}
    Tool <- OneTool
    Flagged = {1}
    MaxTorn = 1
INVARIANTS ReadModelTrue PairedAsReplayed
PROPERTIES QuietAfterStop EventuallyShown
\* The dashboard ends, and nothing is followed further.
CHECK_DEADLOCK FALSE
