CONSTANTS
    app = app
    srv = srv
    agent = agent
    idle = idle
    conS = conS
    staS = staS
    low = low
    lowS = lowS
    srvIrq = srvIrq
    mbxIrq = mbxIrq
    Partitions <- MCPartitions
    Agent <- agent
    Idle <- idle
    Prio <- MCPrio
    Services <- MCServices
    Owner <- MCOwner
    Stateless = {staS}
    Deps <- MCDeps
    Irqs = {srvIrq, mbxIrq}
    IrqOwner <- MCIrqOwner
    Flih = {srvIrq}
    NsClients = {n1}
    Conns = {c1, c2}
    NoConn = NoConn
    Freed = Freed
    ASYNC = ASYNC
    DOORBELL = DOORBELL
    DoorbellApi = TRUE
SYMMETRY ConnSymmetry
SPECIFICATION Spec
CONSTRAINT FewEvents
CHECK_DEADLOCK FALSE
INVARIANTS TypeOK ServiceSignalMatchesQueue ReplySignalMatchesList OnePlace NoLeak SyncCallBlocks HandlesUsable HighestPriorityRuns
PROPERTY ImplementsRotConnection
