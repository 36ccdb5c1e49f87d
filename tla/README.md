# TLA+ models of ChthonOS

This directory holds TLA+ models of the ChthonOS AArch64 microkernel. Each model is
written from the C source under `src/` and checked with TLC. Where a
part the source calls is not in the tree (process.c, namespace.c and the ramfs and abyssfs
backends), it is modelled from `spec.md` and marked `spec_modelled` in
`PROJECT.json`.

## 1. The system

### Parts and how they interact

| Part | Source | State | Operations |
|---|---|---|---|
| Trap Gateway | `arch/exceptions.c` | saved x0..x8 (scratch) | `handle_sync_exception`: SVC switch on x8 (PUTC, GETC, PUTS, SEND_MESSAGE, default), fault path |
| Message Dispatcher | `kernel/message.c` `send_message` | none of its own | one case per message type: OPEN, READ, FORK, EXEC, WAIT, PIPE, READ_DIR, CREATE, MKDIR, GETCWD, CHDIR, COPY, REMOVE, MOVE, BIND, UNBIND, PUTC, GETC, PUTS; default -1 (WRITE, CLOSE, STAT, MOUNT fall here) |
| Message queue | `kernel/message.c` | per process: `messages[32]`, head, tail, count, `msg_blocked` | `queue_message`, `receive_message` |
| `handle_message` | `kernel/message.c` | none | routes 9 types to `send_message` |
| VFS | `fs/vfs.c` | mount table, global FD table `fd_table[MAX_FD]`, `next_fd` | `vfs_init`, `vfs_mount`, `find_mount`, `alloc_fd`, `vfs_open`, `vfs_create`, `vfs_read`, `vfs_write`, `vfs_close`, `vfs_unlink`, `vfs_mkdir`, `vfs_read_dir`, `vfs_remove_recursive`, `resolve_path`, `resolve_namespace_path`, `vfs_normalize_path`, `handle_read_dir_message` |
| Namespace | namespace.c (not in tree) | per-process ordered list of bindings | `bind`, `unbind` |
| Backends | ramfs, abyssfs (not in tree) | files keyed by path | create, open, read, write, unlink, read_dir, mkdir |
| Processes and scheduler | process.c (not in tree) | process list, current, state, parent, exit status, CWD | `create_process`, `schedule`, `exit_process` |
| virtio block | `drivers/virtio.c` | MMIO base, initialised flag, capacity | init handshake, sector read and write |
| Boot and self-tests | `kernel/kernel.c` | none | boot sequence, test calls |
| User programs | `user/user_shell.c`, `user/hello_c_simple.c` | shell line buffer `char[64]` and `pos` | syscall wrappers, line editing, `execute_command`; hello's fixed call sequence |

A user program traps with `svc`. The gateway turns x8 and x0 into a Message,
calls `send_message`, and returns a 64-bit word: bits 31..0 hold the result and
bit 32 means "halt". `send_message` runs each handler to completion. A handler
yields only where it calls `schedule()`, which happens in WAIT and in a blocking
`receive_message`. File handlers chain VFS calls, and each VFS call resolves its
path through the mount table (and for open and read_dir, the namespace) before
reaching a backend through the global FD table.

### Hard behaviours the code is exposed to
- Processes interleave at `schedule()`: a receiver blocks on an empty queue, and
  a sender fills the queue and clears `msg_blocked`. A parent's WAIT blocks
  until a child's exit makes it READY.
- The CWD is checked through the caller's bindings by CHDIR but joined without
  them by CREATE, REMOVE and MKDIR.
- Multi-step handlers (COPY, MOVE) can fail half way, on a write error or a full
  FD table, and must roll back.
- Two path-resolution rules (`resolve_path` and `resolve_namespace_path`) and two
  backend-selection rules (vfs_open's `"/tmp/"` test and `find_mount`) must agree.
- The FD table only grows (`alloc_fd` never reuses a slot), so after `MAX_FD`
  allocations every open fails.
- Fixed buffers: READ's `buf[256]`, CHDIR's `full_path[256]`, the shell's 64-byte line.
- Integer width: `(uint64_t)` of a negative `int` fills bits 63:32, and bit 32 is the halt flag.

## 2. Modules

| Module | Models | State ↔ code |
|---|---|---|
| `MsgFifo` | abstract bounded FIFO per process (spec.md 3) | `queue[p]`: the messages, oldest first |
| `Processes` | `queue_message`, every path of `receive_message`, the FORK, WAIT and PIPE cases of `send_message`, and from spec.md 4.5 `create_process`, `exit_process` and `schedule()` | `messages`, `head`, `tail`, `count`, `msg_blocked`: the queue's fields. `state`, `parent`, `exit_status`, `current`: the process table. `pc[p]` is `"user"`, or `"recv_sched"`/`"wait_sched"` while p is suspended inside `schedule()` in receive or WAIT. `calls`, `ret`, `reports` are ghosts. |
| `Vfs` | mount table, `find_mount`, FD table, `vfs_open/create/read/write/close/unlink/mkdir/read_dir`, both resolve functions; operators from a state `[fs, dirs, fdt, next]` to its outcome | `fs[b]`: backend b's files, key to contents. `dirs[b]`: its directory keys. `fdt`, `next`: `fd_table`, `next_fd`. |
| `FileMessages` | the `send_message` cases OPEN, READ, READ_DIR (with `handle_read_dir_message`), CREATE, MKDIR, GETCWD, CHDIR, REMOVE, COPY, MOVE, BIND, UNBIND and the default case (WRITE, CLOSE); each handler is one atomic action that chains the Vfs operators | adds `ns` (the caller's bindings), `cwd` (`current->cwd`), `held` (the fds OPEN handed out, for the properties) and `reply` (a record of the message's reply fields) |
| `PathNormalize` | `vfs_normalize_path`, a RECURSIVE operator with one case per branch of the loop, plus spec.md 4.4's canonical algorithm as the reference; `FileMessages` instantiates it for CHDIR | `path`: the input; `result`: the output |
| `TrapGateway` | `handle_sync_exception` with the return word at full width | `word`: `[hi, lo]` halves of the uint64 return value; `halted`: the exception return saw bit 32 |
| `UserPrograms` | the EL0 programs kernel_main can start, composed with `TrapGateway` (INSTANCE): `_user_shell_start` and `execute_command` of user_shell.c, `_start` of hello_c_simple.c, and "any" EL0 code trapping freely | `buffer` is `buffer[0 .. pos-1]` (so `pos = Len(buffer)`), `ch` is `c`, `sh_pc` the point in the two loops. `h_calls` are hello's remaining calls. `term` is the terminal's cursor line and column. `last_cmd` is a ghost of the command run. Each putc, puts and getc is one `Trap` of the gateway, whose `word` gives getc its byte. |
| `Virtio` | `virtio_init` (probe, version check, status handshake with the FEATURES_OK read-back, capacity) and `virtio_block_read/write` | `dev[s]`: window s's fixed registers; `dev_status[s]`, `accepted[s]`: its STATUS register and whether it took the features; `base`, `initialized`, `capacity`: `vblk` |

Abstractions:
- A path is a sequence of one-character strings (`<<"/","t","m","p">>`).
- File contents are sequences of 128-byte units, and `Data` gives the values of a unit.
- `READ_BUF = 2` units stands for `buf[256]`, and `COPY_BUF = 8` for `buffer[1024]`.
  READ_DIR sizes count `struct dirent`s.
- A backend is an exact-key store with a set of directory keys. Create touches
  the file (keeping an existing one) and fails on a directory key. Write may
  fail (-1, nothing written), and unlink removes the key. mkdir adds a key
  unless it exists. read_dir counts the keys one segment below a directory and
  fails on any other key. Backend allocation failures are not modelled.
- A message in a queue is named by its sender and the sender's call number.
- User programs: a command name is a short word over two letters and a fixed
  output line is one printing byte `TEXT` and LF, since the properties only
  tell apart which command ran and where the cursor is. The terminal writes a
  printing byte at the cursor, moves left on BS, starts a line on LF, ignores
  NUL, and homes on clear's escape sequence.
- A virtio window holds one of a few register contents, fixed at boot; the
  device keeps the last STATUS written, except that it may refuse FEATURES_OK.

## 3. Runs

| Run | Expect | Checks | Shows |
|---|---|---|---|
| `proc_pass` | pass | TypeOK, NoLostWakeup, StopsOnlyAtWaits, QueueRefinement | The ring refines `MsgFifo` (INSTANCE ... WITH `queue <- Contents`). No wakeup is lost at either suspension point. The kernel stops (nothing READY) only when every process has exited or waits in a blocking receive on an empty queue or in a WAIT with no zombie child: the only deadlocks are the waits spec.md allows (message.c:86). |
| `proc_blocking_recv` | violation | BlockingReceiveDelivers | A woken blocking receive returns -1 and leaves the message queued (message.c:390). |
| `proc_wait_once` | violation | WaitReportsOnce | WAIT never reaps the zombie, so a second WAIT reports the same exit status (message.c:79). |
| `fm_pass` | pass | TypeOK, FdIntegrity, NoFdLeak | Every fd OPEN returned still names the file it was opened on. No handler (COPY and MOVE on every failure path included) leaves an FD slot nobody holds. |
| `fm_paths` | violation | PathOpsResolved | OPEN and MKDIR do not act at the resolved path. OPEN fails on existing files: "b" is not joined to the CWD, "/tmpb" made on ramfs is looked for on abyssfs, and a binding is substituted backwards (TLC's trace). MKDIR ignores the bindings: after BIND("/tmp" at "/p"), MKDIR("/p") returns 0 having made "/p" on abyssfs (vfs.c:510; shown by the MKDIR conjunct alone). |
| `fm_read_overflow` | violation | UserBufferPolicy | READ_DIR("/tmp") with a too-small buffer returns 1 with 0 entries copied (vfs.c:386; spec.md says -1). READ copies past `msg->size`. |
| `fm_multistep` | violation | MultiStepAllOrNothing | MOVE("/b","b") with CWD "/" returns 0 and deletes the file. A COPY whose write fails leaves its destination. |
| `pn_pass` | pass | NormalFormWellFormed, NormalizeIdempotent | Over all absolute paths up to 6 characters, the output has no empty, "." or ".." segment and normalising again changes nothing. |
| `pn_canonical` | violation | NormalizeCanonical | "/a." becomes "/a" (and "/ab.." becomes "/"): dots are tested without looking at the segment start. |
| `tg_pass` | pass | GetcDeliversByte, DisplayMatchesBuffer, ShellDispatch | Over the shell, hello_c_simple and free EL0 traps: every byte the UART returns (0xFF included) passes `(int)c`, the `result >= 0` test and getc's `(char)result` unchanged, reaches the shell as that byte and never halts the system; with a signed `char` 0xFF would come back as -1 and set the halt bit. Through any typing, erasing (at pos 0 too) and overflow of the line, the terminal shows the prompt and exactly the buffer up to the cursor, and each prompt starts a line. `execute_command` runs the command that a reference first-word split of the line names, with the same argument. |
| `tg_halt` | violation | HaltOnlyOnFault | Any call returning -1 (unknown x8 such as hello_c_simple's 5, a failed SEND_MESSAGE) sets bit 32, which the spec reserves for faults. |
| `vio_pass` | pass | HandshakeBeforeUse | Over every assignment of devices to three windows, both feature answers, repeated inits and I/O: the driver is usable only after the full handshake with an accepting block device. |

Every property of a passing run has a mutant in `PROJECT.json`, a plausible bug
in the mapped code that TLC catches:
- a missing wakeup, a missing full-queue test, a head that is not advanced,
  and a `schedule()` that does not make the
  yielding caller READY (Processes);
- `next_fd` not advanced and an off-by-one bound (alloc_fd);
- a COPY whose failure path does not close the source (CopyOutcomes);
- two loop variants of `vfs_normalize_path`;
- a GETC that reads the UART byte as a signed `char`;
- a shell erase without its `pos > 0` guard, and a command match without the
  `cmd_len` test;
- a virtio init that sets `initialized` before the version check.

### Bounds and why they are enough
- `MC_Processes`:
  - 3 process slots, `MAX_MESSAGES = 2`, at most 3 calls per program, exit statuses 0 and 42.
  - A queue fills, wraps its ring and refuses. A FORK finds the table full. A
    parent waits before and after its child exits, and both suspension points
    are woken.
  - 2 slots make the same modular arithmetic as 32.
- `MC_FileMessages`:
  - `MAX_FD = 3`, so the table fills within one COPY plus an OPEN.
  - File paths: "/tmp/a", "/tmp/b", "/tmpb", "/b", the relative "b" and "/p/a"
    for OPEN, CREATE and REMOVE.
  - COPY and MOVE: from "/tmp/a", "/b" and "b" to those and the absent "/tmp/b"
    (12 pairs, including "/b" to "b", the same file). "/tmpb" and "/p/a" meet
    the same open and create rules through OPEN and CREATE.
  - Directory paths: "/tmp", the relative "..", and the bind target "/p". MKDIR("..")
    joins the CWD without normalising and makes the key "/.." or "/tmp/..".
  - One binding (/tmp at /p), `MaxBinds = 1`. UNBIND of "/p" and of the unbound "/b".
  - Reads of 1 and 2 units against a 2-unit buffer. READ_DIR buffers of 0 and 1 entries.
  - The paths are chosen so that each backend rule, the missing component
    boundary, the CWD join and the binding each decide some outcome.
  - The constraint `MC_Bound` allows one new directory. Once the directories or
    the CWD ("/", "/tmp" or "/p") have left their boot value, it also allows at
    most one FD allocation. The FD-table-full cases are explored from the boot
    CWD. A relative CREATE, COPY, MOVE or MKDIR in every reachable CWD is still
    explored.
  - `VIEW` leaves the `reply` record (a ghost) out of the fingerprint. Properties
    about replies are action properties.
  - `FULL_PATH = 256` and `MAX_DIRENTS = 32` keep the code's values; no reachable
    path comes near them.
- `MC_PathNormalize`: every absolute path of up to 6 characters over `/ . a` (364 inputs).
- `MC_TrapGateway` (the `tg_halt` run) and `MC_UserPrograms` (`tg_pass`):
  - Exception classes: SVC and two fault classes.
  - x8 in 1..5.
  - Dispatcher results: -1, 0, 3 and INT_MAX.
  - Bytes: 0, 'A' and 0xFF for `tg_halt`. For `tg_pass` the UART bytes are
    'a', 'b', space, BS, DEL, CR, LF and 0xFF: every branch of the shell's
    loop, and 0xFF where a signed char would turn negative.
  - The shell's buffer is 4 bytes (3 and the NUL) instead of 64: the
    full-buffer branch is reached after three bytes, and the 3-byte lines
    include every word split over the two letters and space.
  - Commands "a", "ab", "ba", "bb" stand for echo, version, clear and help in
    the chain's order; "a" being a prefix of "ab" exercises the `cmd_len` test.
- `MC_Virtio`:
  - 3 windows (the code probes 32).
  - Each window holds one of four register contents: empty, a network device,
    a version-2 block device, or a block device of the unsupported version 3.
  - These contents cover "first block device after a non-block one", "no
    block device" and the version failure.

### Fairness and deadlock
No module assumes fairness, and every property checked is a safety property
(an invariant or a box action formula). The kernel is cooperative (spec.md 5;
`timer_handler` is not in the tree) and `schedule()` picks the next READY
process by a round-robin scan, but nothing in process.c promises that a READY
process is eventually picked once user programs run arbitrary code, so a
liveness property such as "a woken process eventually returns to its program"
would rest on an assumption the code does not give. What the model does check
about progress is `StopsOnlyAtWaits`: the kernel can stop only in the waits
spec.md allows, and `NoLostWakeup`: a receiver whose queue holds a message is
no longer `msg_blocked`, and a waiter with a zombie child is no longer BLOCKED.

Deadlock checking is off in two places, each where the system really stops:
- `proc`: every process has exited, or is blocked with nobody left to wake it
  (spec.md 4.2 lets a childless WAIT block). `StopsOnlyAtWaits` checks that
  these are the only states where it stops.
- `tg`: after the halt bit nothing runs, and hello_c_simple ends in its `wfi`
  loop (in fact it halts first: its SYS_TEST returns -1).

`pn` models a finished computation by a stuttering `Done` step.

## 4. Not modelled, and why
- Console output beyond the terminal line: the texts of the fixed messages.
- `handle_message`: a router with no state, not on the trap path.
- EXEC: `handle_exec_message` is not in the tree and loads an image.
- kernel.c beyond creating the first process: hardware bring-up whose code is
  not in the tree, and self-tests that only print.
- The kernel heap. The leaked `kalloc` of `resolve_namespace_path` is listed as a hazard.
- Overflow of CHDIR's `full_path` by `strcat` is undefined behaviour that the
  model does not represent. The size of `current->cwd` is in process.h, which
  is not in the tree.
- `vfs_remove_recursive` and `get_fs_file`: no message calls them.
- Control bytes other than the four the shell handles (NUL, ESC, ...): the
  shell stores and echoes them, and what the terminal does with them is
  outside the source. Listed as a hazard.
- `strcmp` and `strlen` of user_shell.c: never called.
- A virtio device that changes its capacity during init (torn 64-bit read,
  listed as a hazard).
- A per-process CWD and namespace across FORK: `FileMessages` models the
  running process only.

## 5. Further work
1. Compose `Processes` with the per-process CWD and bindings that FORK copies.
2. Larger bounds for `MC_Processes` (4 slots) if the run time allows.
