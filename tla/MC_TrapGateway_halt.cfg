CONSTANTS
    ECs <- MC_ECs
    Calls <- MC_Calls
    SendResults <- MC_SendResults
    UartChars <- MC_UartChars
    CHAR_SIGNED = FALSE
    NONE = NONE
SPECIFICATION Spec
\* A trap whose word has bit 32 set halts the system: nothing runs after it.
CHECK_DEADLOCK FALSE
INVARIANT HaltOnlyOnFault
