\* A number that fails the checksum.
SPECIFICATION WalkSpec
CONSTANTS
    Fragile <- MCFragile
    scrubbing_rules <- MCRules
    French <- MCFrench
    Payloads <- MCPayloads
    null = null
INVARIANT IgnoredUnlessValid
CHECK_DEADLOCK FALSE
