CONSTANTS
    e1 = e1
    e2 = e2
    s1 = s1
    s2 = s2
    Enemies = {e1, e2}
    Seas = {s1, s2}
    Views <- TwoViews
    Exposed <- Covering
    Ammo = 2
    Grants <- SomeGrants
    None = None
    MaxInvocations = 2
    MaxPending = 2
SPECIFICATION Spec
SYMMETRY Alike
INVARIANT TypeOK
INVARIANT LeasesKept
INVARIANT ProofIsOfBattle
INVARIANT PreviewOnly
CHECK_DEADLOCK FALSE
