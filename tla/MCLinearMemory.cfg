SPECIFICATION Spec
CONSTANTS
    MaxPages = 4
    DefaultTunables <- MCDefault
    TargetTunables <- MCTarget
    Importer = {m1, m2}
    Owner = owner
    None = None
INVARIANTS NoPanic AccessesContained WithinDeclaredLimits
PROPERTIES StaticBaseIsFixed GrowthKeepsContents
