\* A SIN as a key or as a number.
SPECIFICATION WalkSpec
CONSTANTS
    Fragile <- MCFragile
    scrubbing_rules <- MCRules
    French <- MCFrench
    Payloads <- MCPayloads
    null = null
INVARIANT KeysAreScrubbed
CHECK_DEADLOCK FALSE
