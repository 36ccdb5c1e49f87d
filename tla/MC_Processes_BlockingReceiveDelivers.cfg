CONSTANTS
    Procs <- MC_Procs
    INIT_PROC <- MC_INIT_PROC
    MAX_MESSAGES <- MC_MAX_MESSAGES
    MaxCalls <- MC_MaxCalls
    Statuses <- MC_Statuses
    NoProc = NoProc
    NoMsg = NoMsg
    NoRet = NoRet
SPECIFICATION Spec
PROPERTY BlockingReceiveDelivers
\* Every process exited, or blocked with nobody left to wake it: schedule()
\* finds nothing to run and the system stops for good.
CHECK_DEADLOCK FALSE
