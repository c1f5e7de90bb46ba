SPECIFICATION GrpcSpec
CONSTANTS
    Vus = {v1, v2}
    MaxVus = 4
    PerChannel = 2
    MinPool = 1
    MaxPool = 2
    PoolSizes = {0, 2}
    Files = {"f1", "f2"}
    Targets = {"t1", "t2"}
    Methods = {"m1", "m2"}
    MethodsOf <- MCMethodsOf
    MaxCalls = 3
    WordBits = 8
    GroupBits = 3
    MaxDepth = 8
    Schema <- MCSchema
    EnumNames <- MCEnumNames
    Requests <- MCRequests
INVARIANTS
    ConnectionsSound
    RequestsSound
    SchemaSound
    WireFaithful
    ScriptFaithful
    ClientTypeOK
PROPERTIES
    ConnectReturns
