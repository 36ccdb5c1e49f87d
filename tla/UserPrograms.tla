---------------------------- MODULE UserPrograms ----------------------------
(***************************************************************************)
(* The EL0 programs of src/src/user and the trap gateway they run on.     *)
(* kernel_main starts one user program (kernel.c lines 67-101: the user   *)
(* shell linked at 0x80000000); hello_c_simple.c is the other program of  *)
(* the tree.  A program reaches the kernel only by svc, so each system    *)
(* call of a program is one step of TrapGateway's Trap, and the value the *)
(* program gets back is what that step leaves in x0.  The third program,  *)
(* "any", traps with every exception class and call number: the user-    *)
(* mode ABI lets any EL0 code do so.                                       *)
(*                                                                         *)
(* The console is the user's terminal: printing bytes are written at the  *)
(* cursor, BS moves it left, LF starts a new line, NUL is ignored, and    *)
(* cmd_clear's "\033[2J\033[H" clears the screen and homes the cursor.    *)
(***************************************************************************)
EXTENDS Integers, Sequences, SequencesExt

CONSTANTS
    ECs, Calls, SendResults, UartChars, CHAR_SIGNED, NONE,  \* TrapGateway's
    Programs,   \* the programs the kernel may start: "shell", "hello", "any"
    BUF_SIZE,   \* sizeof(buffer) of _user_shell_start (64)
    Commands,   \* execute_command's chain, in order: <<[name, kind], ...>>
    TEXT        \* a printing byte standing for the text of a fixed message

VARIABLES
    halted, word, trap,   \* TrapGateway's
    prog,       \* the program running at EL0
    sh_pc,      \* where _user_shell_start is: "prompt", "getc", "handle", "exec"
    buffer,     \* buffer[0 .. pos-1] of _user_shell_start; pos = Len(buffer)
    ch,         \* c, the byte the last getc returned
    last_cmd,   \* ghost: the command execute_command ran on buffer, and its args
    h_calls,    \* the system calls hello_c_simple's _start has still to make
    term        \* the terminal: [line, col], the cursor line and column

TG == INSTANCE TrapGateway

vars == <<halted, word, trap, prog, sh_pc, buffer, ch, last_cmd, h_calls, term>>

NUL == 0
BS == 8
LF == 10
CR == 13
SP == 32
DEL == 127
\* The escape sequence "\033[2J\033[H" as one output item.
CLEAR == 256

PROMPT == <<36, SP>>   \* "$ "

(***************************************************************************)
(* The terminal.                                                           *)
(***************************************************************************)
Put(t, b) ==
    CASE b = LF    -> [line |-> <<>>, col |-> 0]
      [] b = CLEAR -> [line |-> <<>>, col |-> 0]
      [] b = BS    -> [t EXCEPT !.col = IF @ > 0 THEN @ - 1 ELSE 0]
      [] b = NUL   -> t
      [] OTHER     -> [line |-> IF t.col < Len(t.line)
                                   THEN [t.line EXCEPT ![t.col + 1] = b]
                                   ELSE Append(t.line, b),
                       col |-> t.col + 1]

PutStr(t, s) == FoldLeft(Put, t, s)

(* A call the program makes: an svc with x8 and, for GETC, the byte       *)
(* uart_getc returns.                                                      *)
Svc(x8, c) == [ec |-> TG!EC_SVC, x8 |-> x8, r |-> 0, c |-> c]

(* (char)result and the long a program reads from x0; a word with bit 32  *)
(* set halts the system before the program reads it, and every other      *)
(* word is a sign-extended int.                                            *)
CharOf(w) == w.lo % 256
LongOf(w) == w.lo

-----------------------------------------------------------------------------
(***************************************************************************)
(* execute_command, user_shell.c lines 92-117, with the loop of strncmp,  *)
(* lines 52-58: at most n bytes compared, stopping at a NUL or a mismatch. *)
(***************************************************************************)
At(s, i) == IF i <= Len(s) THEN s[i] ELSE NUL

RECURSIVE strncmp_eq(_, _, _)
strncmp_eq(a, b, n) ==
    IF n = 0 THEN TRUE
    ELSE IF At(a, 1) = NUL \/ At(a, 1) # At(b, 1) THEN At(a, 1) = At(b, 1)
    ELSE strncmp_eq(Tail(a), Tail(b), n - 1)

RECURSIVE SkipSpaces(_)
SkipSpaces(s) == IF s # <<>> /\ Head(s) = SP THEN SkipSpaces(Tail(s)) ELSE s

RECURSIVE TokenLen(_)
TokenLen(s) == IF s # <<>> /\ Head(s) # SP THEN 1 + TokenLen(Tail(s)) ELSE 0

\* Mutant of execute_command: the cmd_len test is missing, so a command
\* name that is a prefix of the first word matches.
execute_command_no_len(line) ==
    LET cmdline == SkipSpaces(line)
        len == TokenLen(cmdline)
        args == SkipSpaces(SubSeq(cmdline, len + 1, Len(cmdline)))
        i == SelectInSeq(Commands, LAMBDA c : strncmp_eq(cmdline, c.name, Len(c.name)))
    IN IF cmdline = <<>> THEN [cmd |-> "none", args |-> <<>>]
       ELSE [cmd |-> IF i = 0 THEN "unknown" ELSE Commands[i].kind, args |-> args]

execute_command(line) ==
    LET cmdline == SkipSpaces(line)
        len == TokenLen(cmdline)
        args == SkipSpaces(SubSeq(cmdline, len + 1, Len(cmdline)))
        i == SelectInSeq(Commands, LAMBDA c : strncmp_eq(cmdline, c.name, Len(c.name))
                                              /\ len = Len(c.name))
    IN IF cmdline = <<>> THEN [cmd |-> "none", args |-> <<>>]
       ELSE [cmd |-> IF i = 0 THEN "unknown" ELSE Commands[i].kind, args |-> args]

(* What each command prints, lines 66-90 and 115; the texts are TEXT.     *)
Line == <<TEXT, LF>>
CmdOutput(r) ==
    CASE r.cmd = "echo"    -> r.args \o <<LF>>
      [] r.cmd = "version" -> Line \o Line \o Line \o Line
      [] r.cmd = "clear"   -> <<CLEAR>>
      [] r.cmd = "help"    -> Line \o Line \o Line \o Line \o Line
      [] r.cmd = "unknown" -> Line
      [] OTHER             -> <<>>

(* The last call the command makes: cmd_echo ends with putc, the others   *)
(* with puts; an empty line makes none.                                    *)
CmdLastCall(r) ==
    CASE r.cmd = "echo" -> Svc(TG!SYS_PUTC, 0)
      [] r.cmd = "none" -> NONE
      [] OTHER          -> Svc(TG!SYS_PUTS, 0)

(***************************************************************************)
(* hello_c_simple.c _start, lines 33-48: four putc calls, test_syscall(42) *)
(* with x8 = SYS_TEST (5), then the result printed digit by digit.         *)
(***************************************************************************)
SYS_TEST == 5

HelloCalls ==
    << [x8 |-> TG!SYS_PUTC, x0 |-> 72], [x8 |-> TG!SYS_PUTC, x0 |-> 105],
       [x8 |-> TG!SYS_PUTC, x0 |-> 33], [x8 |-> TG!SYS_PUTC, x0 |-> LF],
       [x8 |-> SYS_TEST, x0 |-> 42] >>

\* C's % truncates toward zero.
CMod(a, b) == IF a < 0 THEN -((-a) % b) ELSE a % b

DigitCalls(result) ==
    (IF result >= 10 THEN << [x8 |-> TG!SYS_PUTC, x0 |-> 48 + result \div 10] >>
                     ELSE << >>)
    \o << [x8 |-> TG!SYS_PUTC, x0 |-> 48 + CMod(result, 10)],
          [x8 |-> TG!SYS_PUTC, x0 |-> LF] >>

-----------------------------------------------------------------------------
TGvars == <<halted, word, trap>>

Init ==
    /\ TG!Init
    /\ prog \in Programs
    /\ sh_pc = "prompt"
    /\ buffer = << >>
    /\ ch = NUL
    /\ last_cmd = NONE
    /\ h_calls = IF prog = "hello" THEN HelloCalls ELSE << >>
    \* kernel_main's last lines end with "\n".
    /\ term = [line |-> << >>, col |-> 0]

(***************************************************************************)
(* _user_shell_start, user_shell.c lines 119-154.  Every putc, puts and    *)
(* getc is an svc, and so a Trap of the gateway.                           *)
(***************************************************************************)
\* Lines 124-126: the prompt, then pos = 0.
ShellPrompt ==
    /\ prog = "shell" /\ sh_pc = "prompt"
    /\ TG!Trap(Svc(TG!SYS_PUTS, 0))
    /\ term' = PutStr(term, PROMPT)
    /\ buffer' = << >>
    /\ last_cmd' = NONE
    /\ sh_pc' = "getc"
    /\ UNCHANGED <<prog, ch, h_calls>>

\* Line 128: c = getc(), the low byte of x0.
ShellGetc ==
    /\ prog = "shell" /\ sh_pc = "getc"
    /\ \E c \in UartChars : TG!Trap(Svc(TG!SYS_GETC, c))
    /\ ch' = CharOf(word')
    /\ sh_pc' = "handle"
    /\ UNCHANGED <<prog, buffer, last_cmd, h_calls, term>>

\* Lines 130-134: end of line; putc('\n') and buffer[pos] = '\0'.
ShellNewline ==
    /\ prog = "shell" /\ sh_pc = "handle" /\ ch \in {CR, LF}
    /\ TG!Trap(Svc(TG!SYS_PUTC, 0))
    /\ term' = Put(term, LF)
    /\ sh_pc' = "exec"
    /\ UNCHANGED <<prog, buffer, ch, last_cmd, h_calls>>

\* Mutant of ShellBackspace: "\b \b" is echoed even when pos is 0.
ShellBackspace_no_guard ==
    /\ prog = "shell" /\ sh_pc = "handle" /\ ch \in {BS, DEL} /\ ~halted
    /\ TG!Trap(Svc(TG!SYS_PUTS, 0))
    /\ buffer' = IF buffer # << >> THEN Front(buffer) ELSE buffer
    /\ term' = PutStr(term, <<BS, SP, BS>>)
    /\ sh_pc' = "getc"
    /\ UNCHANGED <<prog, ch, last_cmd, h_calls>>

\* Lines 136-142: backspace or DEL; pos-- and "\b \b" only if pos > 0.
ShellBackspace ==
    /\ prog = "shell" /\ sh_pc = "handle" /\ ch \in {BS, DEL} /\ ~halted
    /\ IF buffer # << >>
          THEN /\ TG!Trap(Svc(TG!SYS_PUTS, 0))
               /\ buffer' = Front(buffer)
               /\ term' = PutStr(term, <<BS, SP, BS>>)
          ELSE UNCHANGED <<halted, word, trap, buffer, term>>
    /\ sh_pc' = "getc"
    /\ UNCHANGED <<prog, ch, last_cmd, h_calls>>

\* Lines 144-148: any other byte is stored and echoed while pos < 63.
ShellChar ==
    /\ prog = "shell" /\ sh_pc = "handle" /\ ch \notin {CR, LF, BS, DEL} /\ ~halted
    /\ IF Len(buffer) < BUF_SIZE - 1
          THEN /\ TG!Trap(Svc(TG!SYS_PUTC, 0))
               /\ buffer' = Append(buffer, ch)
               /\ term' = Put(term, ch)
          ELSE UNCHANGED <<halted, word, trap, buffer, term>>
    /\ sh_pc' = "getc"
    /\ UNCHANGED <<prog, ch, last_cmd, h_calls>>

\* Line 152: execute_command(buffer) and the command's output.
ShellExec ==
    /\ prog = "shell" /\ sh_pc = "exec" /\ ~halted
    /\ LET r == execute_command(buffer)
           c == CmdLastCall(r)
       IN /\ last_cmd' = r
          /\ term' = PutStr(term, CmdOutput(r))
          /\ IF c = NONE THEN UNCHANGED TGvars ELSE TG!Trap(c)
    /\ sh_pc' = "prompt"
    /\ UNCHANGED <<prog, buffer, ch, h_calls>>

\* One call of hello_c_simple's _start; after test_syscall the digits of
\* its result are the next calls.  After the last call it waits in wfi.
HelloStep ==
    /\ prog = "hello" /\ h_calls # << >>
    /\ LET k == Head(h_calls) IN
       /\ TG!Trap(Svc(k.x8, 0))
       /\ term' = IF k.x8 = TG!SYS_PUTC THEN Put(term, k.x0 % 256) ELSE term
       /\ h_calls' = Tail(h_calls) \o
                     (IF k.x8 = SYS_TEST THEN DigitCalls(LongOf(word')) ELSE << >>)
    /\ UNCHANGED <<prog, sh_pc, buffer, ch, last_cmd>>

\* Any EL0 code: one trap of any class and call number.
AnyTrap ==
    /\ prog = "any"
    /\ \E t \in TG!Traps : TG!Trap(t)
    /\ UNCHANGED <<prog, sh_pc, buffer, ch, last_cmd, h_calls, term>>

Next ==
    \/ ShellPrompt \/ ShellGetc \/ ShellNewline \/ ShellBackspace
    \/ ShellChar \/ ShellExec
    \/ HelloStep
    \/ AnyTrap

Spec == Init /\ [][Next]_vars

-----------------------------------------------------------------------------
(***************************************************************************)
(* Properties.                                                              *)
(***************************************************************************)

(* The shell's echo keeps the screen equal to its line buffer (comments   *)
(* at lines 139 and 147): while a line is read, the cursor line shows the *)
(* prompt followed by buffer[0 .. pos-1] up to the cursor and only the    *)
(* blanks "\b \b" left after it; each prompt starts a new line.  It rests *)
(* on the pos > 0 guard of a backspace, on echoing exactly the bytes      *)
(* stored, and on every command ending its output with a new line.        *)
DisplayMatchesBuffer ==
    prog = "shell" =>
        /\ sh_pc = "prompt" => term.col = 0
        /\ sh_pc \in {"getc", "handle"} =>
               /\ term.col = Len(PROMPT) + Len(buffer)
               /\ SubSeq(term.line, 1, term.col) = PROMPT \o buffer
               /\ \A i \in term.col + 1 .. Len(term.line) : term.line[i] = SP

(* The first word of the line, spaces skipped, picks the command, and the *)
(* rest of the line, leading spaces skipped, is its argument.             *)
RefCommand(line) ==
    LET nonsp == {i \in 1 .. Len(line) : line[i] # SP} IN
    IF nonsp = {} THEN [cmd |-> "none", args |-> << >>]
    ELSE LET s == Min(nonsp)
             e == Max({j \in s .. Len(line) : \A k \in s .. j : line[k] # SP})
             word1 == SubSeq(line, s, e)
             rest == {i \in e + 1 .. Len(line) : line[i] # SP}
             named == {c \in ToSet(Commands) : c.name = word1}
         IN [cmd |-> IF named = {} THEN "unknown" ELSE (CHOOSE c \in named : TRUE).kind,
             args |-> IF rest = {} THEN << >> ELSE SubSeq(line, Min(rest), Len(line))]

(* execute_command's pointer walk and its strncmp-and-length tests run    *)
(* exactly the command RefCommand names, with the same arguments, for     *)
(* every line the editor can hand it.                                     *)
ShellDispatch ==
    (prog = "shell" /\ sh_pc = "prompt" /\ last_cmd # NONE) =>
        last_cmd = RefCommand(buffer)

(* The byte the UART hands over is the byte the shell reads: uart_getc's *)
(* char goes through send_message's (int)c (message.c 366-368), the      *)
(* result >= 0 test and (uint64_t)msg.character (exceptions.c 91-95) and  *)
(* getc's (char)result (user_shell.c 30), and a GETC of any byte, 0xFF    *)
(* included, neither halts the system nor reaches the shell as another    *)
(* byte.  Where plain char is signed, 0xFF becomes -1 on this path, the   *)
(* error return, whose sign extension sets the halt bit.                  *)
GetcDeliversByte ==
    [][(prog = "shell" /\ sh_pc = "getc" /\ sh_pc' = "handle") =>
           ~halted' /\ ch' = trap'.c]_vars
=============================================================================
