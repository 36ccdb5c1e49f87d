---------------------------- MODULE MC_Processes ----------------------------
(* Three table slots, so the boot process can fork a child and the child   *)
(* a grandchild, or the boot process two children; a ring of two slots,   *)
(* so queues wrap and refuse; programs of three calls, enough for a FORK   *)
(* followed by two WAITs, or a send, a receive and a WAIT.                *)
EXTENDS Processes

MC_Procs == {"p1", "p2", "p3"}
MC_INIT_PROC == "p1"
MC_MAX_MESSAGES == 2
MC_MaxCalls == 3
MC_Statuses == {0, 42}
=============================================================================
