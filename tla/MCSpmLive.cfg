CONSTANTS
    app = app
    srv = srv
    agent = agent
    idle = idle
    conS = conS
    staS = staS
    low = low
    lowS = lowS
    srvIrq = srvIrq
    mbxIrq = mbxIrq
    Partitions <- NestPartitions
    Agent <- agent
    Idle <- idle
    Prio <- NestPrio
    Services <- NestServices
    Owner <- NestOwner
    Stateless = {staS}
    Deps <- NestDeps
    Irqs = {}
    IrqOwner <- NoIrqOwner
    Flih = {}
    NsClients = {n1}
    Conns = {c1, c2, c3}
    NoConn = NoConn
    Freed = Freed
    ASYNC = ASYNC
    DOORBELL = DOORBELL
    DoorbellApi = FALSE
SPECIFICATION LiveSpec
CHECK_DEADLOCK FALSE
PROPERTY RequestsAnswered
