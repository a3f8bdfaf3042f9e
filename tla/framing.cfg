SPECIFICATION Spec
CONSTANTS
    NameLens = {1, 3}
    Blocks = {5, 7}
    FrontendBytes = 4
    Slack = 1
    MaxRelays = 2
INVARIANTS TypeOK ProcessedWhole NeverStuck
PROPERTIES Delivered
CHECK_DEADLOCK FALSE
