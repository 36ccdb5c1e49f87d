---------------------------- MODULE TrapGateway ----------------------------
(***************************************************************************)
(* handle_sync_exception, src/src/arch/exceptions.c lines 22-196: the     *)
(* synchronous-exception entry from EL0.  Each step is one trap: the      *)
(* exception class, the call number in x8 and what the dispatcher gives   *)
(* back are inputs; the step computes the 64-bit word the handler returns *)
(* and the exception return acts on it.                                    *)
(*                                                                         *)
(* The return word keeps its width.  TLC integers are 32-bit, so a word   *)
(* is two 32-bit halves [hi, lo], each the signed reading of its bit      *)
(* pattern; the casts of the code are modelled by what they do: a         *)
(* negative int converted to uint64_t is sign-extended, so its hi half is *)
(* all ones (-1).  The exception-return path (vectors, not in the source  *)
(* tree) halts when bit 32 is set, as spec.md 4.1 states.                 *)
(***************************************************************************)
EXTENDS Integers

CONSTANTS
    ECs,           \* exception classes of the traps (0x15 is SVC)
    Calls,         \* x8 values a user program puts in a supervisor call
    SendResults,   \* int results send_message may give SEND_MESSAGE
    UartChars,     \* bytes uart_getc may return
    CHAR_SIGNED,   \* whether plain char is signed in the build (AAPCS64: FALSE)
    NONE

EC_SVC == 21        \* 0x15
SYS_PUTC == 1
SYS_GETC == 2
SYS_PUTS == 3
SYS_SEND_MESSAGE == 4

\* The value of byte b read as the build's plain char.
AsChar(b) == IF CHAR_SIGNED /\ b >= 128 THEN b - 256 ELSE b

\* (uint64_t)x for a value x of a signed 32-bit C type: sign extension.
U64OfInt(x) == [hi |-> IF x < 0 THEN -1 ELSE 0, lo |-> x]

\* return 0x100000000ULL: bits 63:32 = 1.
HALT_WORD == [hi |-> 1, lo |-> 0]

\* Bit 32 of a word, the halt bit.
Bit32(w) == w.hi % 2 = 1

(***************************************************************************)
(* The SVC switch, lines 52-146.  r is what send_message returns for the  *)
(* forged or user message; c is the byte uart_getc returns for GETC.      *)
(***************************************************************************)
\* Mutant of syscall_word: GETC's byte is read as a signed char, so uart_getc's
\* 0x80..0xFF become negative ints and fail the result >= 0 test at line 92.
syscall_word_signed_getc(x8, r, c) ==
    CASE x8 = SYS_PUTC -> U64OfInt(0)
      [] x8 = SYS_GETC -> IF c < 128 THEN U64OfInt(c) ELSE U64OfInt(-1)
      [] x8 = SYS_PUTS -> U64OfInt(0)
      [] x8 = SYS_SEND_MESSAGE -> U64OfInt(r)
      [] OTHER -> U64OfInt(-1)

syscall_word(x8, r, c) ==
    CASE x8 = SYS_PUTC -> U64OfInt(0)
      \* send_message's MSG_GETC returns (int)c, line 92 tests it, line 93
      \* returns (uint64_t)msg.character, line 95 returns (uint64_t)-1.
      [] x8 = SYS_GETC -> IF AsChar(c) >= 0 THEN U64OfInt(AsChar(c)) ELSE U64OfInt(-1)
      [] x8 = SYS_PUTS -> U64OfInt(0)
      [] x8 = SYS_SEND_MESSAGE -> U64OfInt(r)
      [] OTHER -> U64OfInt(-1)

\* The whole handler: SVC goes through the switch, anything else halts.
handle_sync_exception(ec, x8, r, c) ==
    IF ec = EC_SVC THEN syscall_word(x8, r, c) ELSE HALT_WORD

VARIABLES
    halted,   \* the exception return saw the halt bit
    word,     \* the word the last trap returned
    trap      \* the last trap: [ec, x8, r, c]

vars == <<halted, word, trap>>

Traps == [ec : ECs, x8 : Calls, r : SendResults, c : UartChars]

TypeOK ==
    /\ halted \in BOOLEAN
    /\ word \in [hi : {-1, 0, 1}, lo : Int] \cup {NONE}
    /\ trap \in Traps \cup {NONE}

Init == halted = FALSE /\ word = NONE /\ trap = NONE

(* A user program traps; the handler runs and the exception return either *)
(* resumes it with x0 = the word or halts the system.                     *)
Trap(t) ==
    /\ ~halted
    /\ word' = handle_sync_exception(t.ec, t.x8, t.r, t.c)
    /\ halted' = Bit32(word')
    /\ trap' = t

Next == \E t \in Traps : Trap(t)

Spec == Init /\ [][Next]_vars

-----------------------------------------------------------------------------
(***************************************************************************)
(* Properties.                                                              *)
(***************************************************************************)

(* Only a fault halts the system (spec.md 4.1: bit 32 is "used only for   *)
(* faults").  A supervisor call that returns -1, from an unknown call    *)
(* number, a failed GETC or a failed SEND_MESSAGE, converts -1 to         *)
(* uint64_t, which sets bits 63:32 and so bit 32.                         *)
HaltOnlyOnFault ==
    halted => trap.ec # EC_SVC
=============================================================================
