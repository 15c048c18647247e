\* Numbers in every place of a payload.
SPECIFICATION WalkSpec
CONSTANTS
    Fragile <- MCFragile
    scrubbing_rules <- MCRules
    French <- MCFrench
    Payloads <- MCPayloads
    null = null
INVARIANTS LuhnCatchesErrors SinIsRemoved WalkIsThorough
CHECK_DEADLOCK FALSE
