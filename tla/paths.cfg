\* Every path of up to five and every prefix of up to three characters.
SPECIFICATION Spec
CONSTANTS
    MaxPath = 4
    MaxPrefix = 3
INVARIANTS
    DecisionFollowsSegments
    MatchedAsSigned
    TargetDecodesSigned
