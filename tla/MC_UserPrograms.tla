-------------------------- MODULE MC_UserPrograms --------------------------
(* The three programs over the gateway of MC_TrapGateway: its exception    *)
(* classes, call numbers and dispatcher results.  The UART bytes are two   *)
(* letters, space, the two erase bytes, the two line ends and 0xFF.  The   *)
(* shell's 64-byte buffer is scaled to 4 (3 bytes and the NUL), enough to  *)
(* reach the full-buffer branch.  The command names are spelt with the two *)
(* letters, "a" a prefix of "ab" as "help" is of a longer word: the four   *)
(* spellings stand for echo, version, clear and help in the order of the   *)
(* strncmp chain.                                                          *)
EXTENDS UserPrograms

MC_ECs == {21, 32, 36}
MC_Calls == {1, 2, 3, 4, 5}
MC_SendResults == {-1, 0, 3, 2147483647}
MC_UartChars == {97, 98, 32, 8, 127, 13, 10, 255}
MC_Programs == {"shell", "hello", "any"}
MC_BUF_SIZE == 4
MC_Commands ==
    << [name |-> <<97>>,     kind |-> "echo"],
       [name |-> <<97, 98>>, kind |-> "version"],
       [name |-> <<98, 97>>, kind |-> "clear"],
       [name |-> <<98, 98>>, kind |-> "help"] >>
MC_TEXT == 120
=============================================================================
