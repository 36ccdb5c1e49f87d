CONSTANTS
    ECs <- MC_ECs
    Calls <- MC_Calls
    SendResults <- MC_SendResults
    UartChars <- MC_UartChars
    Programs <- MC_Programs
    BUF_SIZE <- MC_BUF_SIZE
    Commands <- MC_Commands
    TEXT <- MC_TEXT
    CHAR_SIGNED = FALSE
    NONE = NONE
SPECIFICATION Spec
PROPERTY GetcDeliversByte
INVARIANT DisplayMatchesBuffer
INVARIANT ShellDispatch
\* hello_c_simple halts at test_syscall and "any" may trap with a fault: the
\* system stops there.
CHECK_DEADLOCK FALSE
