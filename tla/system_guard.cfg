SPECIFICATION Spec
CONSTANTS
    acc = acc
    cac = cac
    sys = sys
    t1 = t1
    t2 = t2
    t3 = t3
    n1 = n1
    n2 = n2
    User = {acc, cac, sys}
    Title = {t1, t2, t3}
    Account = {acc}
    SystemUser = {sys}
    CacheUser = {cac}
    Unmounted = {}
    AccountSystemSaves = TRUE
    Save <- MCSystemSave
    Rank <- MCRank
    Trees <- MCTrees
    AtFirst <- MCSystemAtFirst
    Name = {n1, n2}
    Partition = {bis}
    SdCard = SdCard
    MaxDepth = 2
    MaxPicks = 1
    MaxFaults = 0
PROPERTY SystemIsGuarded
