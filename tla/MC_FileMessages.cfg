CONSTANTS
    MAX_FD = 3
    Data <- MC_Data
    NULL = NULL
    InitFs <- MC_InitFs
    InitDirs <- MC_InitDirs
    InitCwd <- MC_InitCwd
    DirPaths <- MC_DirPaths
    DirSizes = {0, 1}
    CwdSizes = {5}
    MAX_DIRENTS = 32
    FULL_PATH = 256
    UserPaths <- MC_UserPaths
    CopyPairs <- MC_CopyPairs
    BindPairs <- MC_BindPairs
    UnbindPaths <- MC_UnbindPaths
    MaxBinds = 1
    ReadSizes = {1, 2}
    READ_BUF = 2
    COPY_BUF = 8
SPECIFICATION Spec
VIEW MC_View
CONSTRAINT MC_Bound
INVARIANT TypeOK
INVARIANT FdIntegrity
INVARIANT NoFdLeak
