\* An escape of a slash reaches the target.
SPECIFICATION Spec
CONSTANTS
    MaxPath = 3
    MaxPrefix = 1
INVARIANT
    TargetSplitsSigned
