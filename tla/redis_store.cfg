SPECIFICATION Spec
CONSTANTS
    Rulesets = {"a"}
    Documents <- MCDocuments
    RuleNames = {"", "r1", "2"}
    Rules <- MCRules
    Parts <- MCParts
    Lengths = {2}
    MaxCommands = 5
INVARIANTS ReadsBack RefsCover
PROPERTY RefusedIsUndone
CHECK_DEADLOCK FALSE
