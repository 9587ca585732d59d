CONSTANTS
    Garbage = Garbage
    NoValue = NoValue
    NULL = NULL
    Indeterminate = Indeterminate
    NoBody = NoBody
    Nothing = Nothing
    RootKeys = {"root1", "root2"}
    RootKeyLength = 384
    Manifests <- MCManifests
    Documents <- WithOneDifference
    MaxFiles = 4
    MaxHashes = 2
    DeviceProperties <- MCDeviceProperties
    ManifestContent <- MCManifestContent
    Files <- MCFiles
    SizeOf <- MCSizeOf
    HeaderRoom = 2
    DataBufferLength = 3
    MaxInt = 4
    Messages <- FewMessages
    Unescaped <- FewUnescaped
    MaxMessages = 1
    ChunkLengths = {0, 2}
SPECIFICATION Spec
INVARIANT HashesAreAsParsed
CHECK_DEADLOCK FALSE
