SPECIFICATION Spec
CONSTANTS
    CAP = 2
    NAME_CAP = 1
    MASK = 8
    LAST_ID = 12
    Name = {1, 2}
    Svc = {1, 2}
    LogSvc = 1
    Remote = 9
    Block = {11, 12, 13}
    MAX_BOX = 1
    DATA_SIZE = 4
    SERIAL_DEPTH = 2
    SerialArgs <- MCSerialArgs
    BYTE = 2
    QUEUESIZE = 2
    HASHSIZE = 1
    Fd = {1, 2}
    MAX_SENT = 3
    Contents <- MCContents
    Blocks <- MCBlocks
    Seps <- MCSeps
    MAX_BYTES = 5
    UINT = 16
    StrHash <- MCStrHash
    Confs <- MCConfs
    StmReader = {r1, r2}
    MAX_COPIES = 3
    Subscriber = {r1, r2}
    Package = {1, 2}
    SdClient = {c1, c2}
    MAX_TABLES = 3
    FF_MAX = 3
    BUFFERSIZE = 8
    MAXSIZE = 256
    PackInputs <- MCPackInputs
    BASE = 6
    DEEPLEVEL = 3
    SprotoCases <- MCSprotoCases
INVARIANTS
    HandleExact PayloadOwned SerialExact NetpackExact SocketBufferExact
    ShareTableExact StmExact MulticastExact ShareDataExact SprotoExact
CHECK_DEADLOCK FALSE
