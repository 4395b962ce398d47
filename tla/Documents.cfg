SPECIFICATION Spec
CONSTANTS
    MaxNodeDepth = 3
    MaxExprNodes = 4
    MaxSkeletonRows = 3
    MaxEdits = 2
INVARIANTS CanonicalIsFixed SpellingsMeanTheSame RefusalsNameTheDamage NestingChangesNothing
CHECK_DEADLOCK FALSE
