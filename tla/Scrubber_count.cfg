\* One SIN, several findings.
SPECIFICATION WalkSpec
CONSTANTS
    Fragile <- MCFragile
    scrubbing_rules <- MCRules
    French <- MCFrench
    Payloads <- MCPayloads
    null = null
INVARIANT CountedOnce
CHECK_DEADLOCK FALSE
