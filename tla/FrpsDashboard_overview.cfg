SPECIFICATION Spec
CONSTANTS
    Null = Null
    NoLimit = NoLimit
    Reg <- MCReg
    NameOf <- MCNameOf
    TypeOf <- MCTypeOf
    Workloads <- MCWorkloads
    LateClosed = {}
    MaxRestarts = 1
    Conf <- MCConf
    Configs <- MCConfigs
    Totals <- MCTotals
    ChartDays = 7
    MaxReq = 2
INVARIANT OverviewShowsProxies
