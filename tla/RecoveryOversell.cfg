SPECIFICATION MCSpec
CONSTANTS
    w1 = w1
    w2 = w2
    old = old
    new1 = new1
    new2 = new2
    edited = edited
    Servers = {old, new1, new2, edited}
    NoServer = NoServer
    Embedded <- MCEmbedded
    Deployments <- MCDeployments
    Fingerprints = {1, 3, 4}
    ReplaySafe = {2}
    Menu <- MCMenu
    MaxActions = 2
    Runs = {r1, r2}
    Baselines <- MCBaselines
    DaysElsewhere = 2
    Cost <- MCCost
    NoRun = NoRun
    Executions = {e1, e2}
    Users = {ann, bob}
    WorkOrders = {w1, w2}
    Need <- MCNeed
    Stock = 1
    MaxClock = 2
    Alternatives = {"second"}
    MaxMoves = 1
SYMMETRY Symmetry
INVARIANTS
    ReleasesAreCovered
\* Everything may be archived and decided.
CHECK_DEADLOCK FALSE
