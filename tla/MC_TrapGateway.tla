--------------------------- MODULE MC_TrapGateway ---------------------------
(* SVC and two fault classes (0x20 instruction abort, 0x24 data abort from *)
(* EL0); the four call numbers and 5, which hello_c_simple.c uses as       *)
(* SYS_TEST; dispatcher results -1, 0, a small count and INT_MAX; bytes    *)
(* 0, 'A' and 0xFF, the last being where a signed char would go negative.  *)
EXTENDS TrapGateway

MC_ECs == {21, 32, 36}
MC_Calls == {1, 2, 3, 4, 5}
MC_SendResults == {-1, 0, 3, 2147483647}
MC_UartChars == {0, 65, 255}
=============================================================================
