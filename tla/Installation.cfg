SPECIFICATION Spec
CONSTANTS
    t1 = t1
    t2 = t2
    previous = previous
    current = current
    Replica = {n1, n2}
    NoReplica = NoReplica
    Release = {previous, current}
    Registry <- MCRegistry
    NoRelease = NoRelease
    Digest = {1, 2, 3, 4, 5, 6, 20}
    NoDigest = NoDigest
    Tenant = {t1, t2}
    NoTenant = NoTenant
    Fresh <- MCFresh
    Legacy <- MCLegacy
    Request = {q1, q2}
    NoRequest = NoRequest
INVARIANTS TypeOK InstalledOnce RunnersSeeTheLedger ServingIsChecked GrantsFollowTheUpgrade
SYMMETRY Symmetry
