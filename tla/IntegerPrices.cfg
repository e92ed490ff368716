SPECIFICATION Spec
CONSTANTS
    TcbBytes = 3
    TcbBase = 3
    PageSize = 4
    HeaderLen = 2
    ByteBase = 2
    EdSig <- MCEdSig
    MldsaSig <- MCMldsaSig
    SaltLen = 2
    NonceLen = 1
    TagLen = 2
    MasterLen = 2
    SizeMax = 65536
    Sizes <- MCSizes
    BandLists <- MCBandLists
    BuiltIntents <- MCBuiltIntents
    WireIntents <- MCWireIntents
    KeyHash <- MCKeyHash
    PartLists <- MCPartLists
    SigBlobs <- MCSigBlobs
    OpenCalls <- MCOpenCalls
    Accesses <- MCAccesses
    TcbPairs <- MCTcbPairs
INVARIANT UsageIntentsVerify
