---------------------------- MODULE FileMessages ----------------------------
(***************************************************************************)
(* The file and namespace handlers of send_message (src/src/kernel/        *)
(* message.c) on top of the VFS of src/src/fs/vfs.c.  One action per      *)
(* message type; each runs the whole handler, every vfs_* call included,   *)
(* as one step: handlers never yield (spec.md 5).                          *)
(*                                                                         *)
(* The caller is the running process; cwd is its current_process->cwd.  *)
(* bind() and unbind() live in namespace.c, not in the source tree, and    *)
(* are modelled from spec.md 4.2/4.3.                                      *)
(***************************************************************************)
EXTENDS Vfs

CONSTANTS
    InitFs,      \* [Backends -> contents by key]: the files present at boot
    InitDirs,    \* [Backends -> directory keys]: the directories at boot
    InitCwd,     \* the caller's CWD when it starts (set by process.c)
    UserPaths,   \* paths a user message may carry
    CopyPairs,   \* <<src, dst>> pairs of UserPaths a COPY or MOVE may carry
    BindPairs,   \* <<source, target>> pairs a MSG_BIND may carry
    UnbindPaths, \* paths a MSG_UNBIND may carry
    MaxBinds,    \* bound on the namespace list (kernel heap)
    ReadSizes,   \* msg->size of a MSG_READ, in units
    READ_BUF,    \* MSG_READ's char buf[256], in units
    COPY_BUF,    \* MSG_COPY/MSG_MOVE's char buffer[1024], in units
    DirPaths,    \* paths a MKDIR, READ_DIR or CHDIR may carry
    DirSizes,    \* msg->size of a READ_DIR, in struct dirent units
    CwdSizes,    \* msg->size of a GETCWD, in characters
    MAX_DIRENTS, \* handle_read_dir_message's dirents[32]
    FULL_PATH    \* MSG_CHDIR's char full_path[256]

VARIABLES
    fs,          \* backend stores: fs[b][key] is the file's contents
    dirs,        \* dirs[b]: backend b's directory keys
    fd_table,    \* vfs.c fd_table
    next_fd,     \* vfs.c next_fd
    ns,          \* current_process->ns.mounts: <<[new, old], ...>>
    cwd,         \* current_process->cwd
    reply,       \* the last message's type, arguments and reply fields
    held         \* fds handed out by MSG_OPEN: fd -> [fs, key] it names

vars == <<fs, dirs, fd_table, next_fd, ns, cwd, reply, held>>

fsvars == <<fs, dirs, fd_table, next_fd>>

St == [fs |-> fs, dirs |-> dirs, fdt |-> fd_table, next |-> next_fd]

SetSt(V) == fs' = V.fs /\ dirs' = V.dirs /\ fd_table' = V.fdt /\ next_fd' = V.next

Reply(t, p, d, r) ==
    [type |-> t, path |-> p, dst |-> d, ret |-> r, copied |-> 0, size |-> 0, count |-> 0]

Types == {"NONE", "OPEN", "READ", "WRITE", "CLOSE", "CREATE", "REMOVE",
          "COPY", "MOVE", "BIND", "UNBIND", "MKDIR", "READ_DIR", "GETCWD", "CHDIR"}

TypeOK ==
    /\ fd_table \in [FdRange -> [fs : Backends, key : Seq(STRING), pos : Nat]
                                \cup {NULL}]
    /\ next_fd \in 0 .. MAX_FD
    /\ ns \in Seq([new : Seq(STRING), old : Seq(STRING)])
    /\ Len(ns) <= MaxBinds
    /\ reply.type \in Types
    /\ DOMAIN held \subseteq FdRange
    /\ dirs \in [Backends -> SUBSET Seq(STRING)]
    /\ cwd \in Seq(STRING)

Init ==
    /\ fs = InitFs
    /\ dirs = InitDirs
    /\ cwd = InitCwd
    /\ fd_table = [i \in FdRange |-> NULL]
    /\ next_fd = 0
    /\ ns = <<>>
    /\ reply = Reply("NONE", <<>>, <<>>, 0)
    /\ held = <<>>

(* MSG_OPEN, lines 30-34. *)
MSG_OPEN(p) ==
    LET r == vfs_open(St, ns, p) IN
    /\ SetSt(r.v)
    /\ reply' = Reply("OPEN", p, <<>>, r.ret)
    /\ held' = IF r.ret >= 0
                  THEN held @@ (r.ret :> [fs |-> r.v.fdt[r.ret].fs,
                                          key |-> r.v.fdt[r.ret].key])
                  ELSE held
    /\ UNCHANGED <<ns, cwd>>

(* MSG_READ, lines 35-47: vfs_read into a 256-byte kernel buffer, then    *)
(* memcpy of all bytes read into msg->data, whatever msg->size is.        *)
MSG_READ(fd, size) ==
    LET r == vfs_read(St, fd, READ_BUF) IN
    /\ SetSt(r.v)
    /\ reply' = [Reply("READ", <<>>, <<>>, r.ret) EXCEPT
                    !.copied = IF r.ret > 0 THEN r.ret ELSE 0,
                    !.size = size]
    /\ UNCHANGED <<ns, cwd, held>>

(* MSG_WRITE, MSG_CLOSE: send_message has no case for them; the default   *)
(* case (lines 374-375) returns -1.                                        *)
MSG_UNHANDLED(t) ==
    /\ reply' = Reply(t, <<>>, <<>>, -1)
    /\ UNCHANGED <<fsvars, ns, cwd, held>>

(* MSG_CREATE, lines 112-123: create, then close the new fd at once.      *)
MSG_CREATE(p) ==
    LET c == vfs_create(St, cwd, p) IN
    /\ IF c.ret >= 0
          THEN /\ SetSt(vfs_close(c.v, c.ret).v)
               /\ reply' = Reply("CREATE", p, <<>>, 0)
          ELSE /\ SetSt(c.v)
               /\ reply' = Reply("CREATE", p, <<>>, -1)
    /\ UNCHANGED <<ns, cwd, held>>

(* MSG_REMOVE, lines 245-264. *)
MSG_REMOVE(p) ==
    LET u == vfs_unlink(St, cwd, p) IN
    /\ SetSt(u.v)
    /\ reply' = Reply("REMOVE", p, <<>>, IF u.ret < 0 THEN -1 ELSE 0)
    /\ UNCHANGED <<ns, cwd, held>>

(***************************************************************************)
(* The copy loop of MSG_COPY (lines 225-234) and MSG_MOVE (303-313):       *)
(* read up to COPY_BUF units from s, write them to d, until a read returns *)
(* <= 0 (done) or a write returns a count other than the one read          *)
(* (failed).  The set of outcomes [v, ok].                                 *)
(***************************************************************************)
RECURSIVE CopyLoop(_, _, _)
CopyLoop(V, s, d) ==
    LET r == vfs_read(V, s, COPY_BUF) IN
    IF r.ret <= 0 THEN {[v |-> r.v, ok |-> TRUE]}
    ELSE UNION {IF w.ret # r.ret THEN {[v |-> w.v, ok |-> FALSE]}
                ELSE CopyLoop(w.v, s, d) : w \in vfs_write(r.v, d, r.data)}

(* MSG_COPY, lines 188-244: open src, create dst, copy, close both.  The  *)
(* set of outcomes [v, ret].                                              *)
\* Mutant of CopyOutcomes: src_fd is not closed when vfs_create fails.
CopyOutcomes_keep_src(s, d) ==
    LET o == vfs_open(St, ns, s)
        c == vfs_create(o.v, cwd, d)
    IN IF o.ret < 0 THEN {[v |-> o.v, ret |-> -1]}
       ELSE IF c.ret < 0 THEN {[v |-> c.v, ret |-> -1]}
       ELSE {[v |-> vfs_close(vfs_close(l.v, o.ret).v, c.ret).v,
              ret |-> IF l.ok THEN 0 ELSE -1] : l \in CopyLoop(c.v, o.ret, c.ret)}

CopyOutcomes(s, d) ==
    LET o == vfs_open(St, ns, s)
        c == vfs_create(o.v, cwd, d)
    IN IF o.ret < 0 THEN {[v |-> o.v, ret |-> -1]}
       ELSE IF c.ret < 0 THEN {[v |-> vfs_close(c.v, o.ret).v, ret |-> -1]}
       ELSE {[v |-> vfs_close(vfs_close(l.v, o.ret).v, c.ret).v,
              ret |-> IF l.ok THEN 0 ELSE -1] : l \in CopyLoop(c.v, o.ret, c.ret)}

MSG_COPY(s, d) ==
    \E o \in CopyOutcomes(s, d) :
        /\ SetSt(o.v)
        /\ reply' = Reply("COPY", s, d, o.ret)
        /\ UNCHANGED <<ns, cwd, held>>

(* MSG_MOVE, lines 265-331: as MSG_COPY; a failed write also unlinks dst, *)
(* and after the copy src is unlinked, dst being unlinked if that fails.  *)
MoveOutcomes(s, d) ==
    LET o == vfs_open(St, ns, s)
        c == vfs_create(o.v, cwd, d)
        Finish(l) ==
            LET v2 == vfs_close(vfs_close(l.v, o.ret).v, c.ret).v
                u == vfs_unlink(v2, cwd, s)
            IN IF ~l.ok THEN [v |-> vfs_unlink(v2, cwd, d).v, ret |-> -1]
               ELSE IF u.ret < 0 THEN [v |-> vfs_unlink(u.v, cwd, d).v, ret |-> -1]
               ELSE [v |-> u.v, ret |-> 0]
    IN IF o.ret < 0 THEN {[v |-> o.v, ret |-> -1]}
       ELSE IF c.ret < 0 THEN {[v |-> vfs_close(c.v, o.ret).v, ret |-> -1]}
       ELSE {Finish(l) : l \in CopyLoop(c.v, o.ret, c.ret)}

MSG_MOVE(s, d) ==
    \E o \in MoveOutcomes(s, d) :
        /\ SetSt(o.v)
        /\ reply' = Reply("MOVE", s, d, o.ret)
        /\ UNCHANGED <<ns, cwd, held>>

(***************************************************************************)
(* MSG_BIND, lines 332-358: bind(target, source, MREPL) records the        *)
(* binding new_path = target, old_path = source (namespace.c, modelled     *)
(* from spec.md 4.2: "making target show source's contents"); it fails     *)
(* when the binding node cannot be allocated.                              *)
(***************************************************************************)
bind(new, old) ==
    IF Len(ns) >= MaxBinds THEN [ns |-> ns, ret |-> -1]
    ELSE [ns |-> Append(ns, [new |-> new, old |-> old]), ret |-> 0]

MSG_BIND(source, target) ==
    LET b == bind(target, source) IN
    /\ ns' = b.ns
    /\ reply' = Reply("BIND", source, target, IF b.ret < 0 THEN -1 ELSE 0)
    /\ UNCHANGED <<fsvars, cwd, held>>

(* MSG_UNBIND, lines 359-360: unbind(path) drops the bindings whose        *)
(* new_path is the path (namespace.c, from spec.md 4.2), -1 if none.       *)
unbind(path) ==
    LET keep == SelectSeq(ns, LAMBDA n : n.new # path) IN
    [ns |-> keep, ret |-> IF Len(keep) = Len(ns) THEN -1 ELSE 0]

MSG_UNBIND(p) ==
    LET u == unbind(p) IN
    /\ ns' = u.ns
    /\ reply' = Reply("UNBIND", p, <<>>, u.ret)
    /\ UNCHANGED <<fsvars, cwd, held>>

(* vfs_normalize_path, from PathNormalize. *)
PN == INSTANCE PathNormalize WITH Chars <- {}, MaxLen <- 0, NONE <- NULL,
                                  path <- <<>>, result <- <<>>

(* MSG_MKDIR, lines 125-131: vfs_mkdir's result. *)
MSG_MKDIR(p) ==
    LET m == vfs_mkdir(St, cwd, p) IN
    /\ SetSt(m.v)
    /\ reply' = Reply("MKDIR", p, <<>>, m.ret)
    /\ UNCHANGED <<ns, cwd, held>>

(* handle_read_dir_message, vfs.c lines 344-391: up to MAX_DIRENTS       *)
(* entries; they are copied and dirent_count set only if msg->size holds  *)
(* them all, else dirent_count = 0; the count is returned either way.     *)
handle_read_dir_message(p, size) ==
    LET n == vfs_read_dir(St, ns, p, MAX_DIRENTS) IN
    [ret |-> n, count |-> IF n >= 0 /\ size >= n THEN n ELSE 0]

(* MSG_READ_DIR, lines 109-111. *)
MSG_READ_DIR(p, size) ==
    LET h == handle_read_dir_message(p, size) IN
    /\ reply' = [Reply("READ_DIR", p, <<>>, h.ret) EXCEPT
                    !.size = size, !.count = h.count]
    /\ UNCHANGED <<fsvars, ns, cwd, held>>

(* MSG_GETCWD, lines 132-148: the CWD and its length if it fits with its   *)
(* terminator, else -1.                                                    *)
MSG_GETCWD(size) ==
    /\ reply' = IF size > 0 /\ Len(cwd) < size
                   THEN [Reply("GETCWD", cwd, <<>>, 0) EXCEPT !.size = Len(cwd)]
                   ELSE [Reply("GETCWD", <<>>, <<>>, -1) EXCEPT !.size = size]
    /\ UNCHANGED <<fsvars, ns, cwd, held>>

(***************************************************************************)
(* MSG_CHDIR, lines 149-187: the target is the path (strncpy'd) or cwd,    *)
(* '/' and the path, cut to FULL_PATH - 1 characters; it is normalised and *)
(* becomes the CWD if vfs_read_dir reads it as a directory.                *)
(***************************************************************************)
ChdirTarget(p) ==
    LET full == FullPath(cwd, p) IN
    PN!vfs_normalize_path(IF Len(full) >= FULL_PATH THEN SubSeq(full, 1, FULL_PATH - 1)
                                                    ELSE full)

MSG_CHDIR(p) ==
    LET t == ChdirTarget(p)
        n == vfs_read_dir(St, ns, t, 1)
    IN /\ cwd' = IF n >= 0 THEN t ELSE cwd
       /\ reply' = Reply("CHDIR", p, t, IF n >= 0 THEN 0 ELSE -1)
       /\ UNCHANGED <<fsvars, ns, held>>

Next ==
    \/ \E p \in UserPaths : MSG_OPEN(p) \/ MSG_CREATE(p) \/ MSG_REMOVE(p)
    \/ \E p \in UnbindPaths : MSG_UNBIND(p)
    \/ \E fd \in FdRange, n \in ReadSizes : MSG_READ(fd, n)
    \/ \E t \in {"WRITE", "CLOSE"} : MSG_UNHANDLED(t)
    \/ \E sd \in CopyPairs : MSG_COPY(sd[1], sd[2]) \/ MSG_MOVE(sd[1], sd[2])
    \/ \E bp \in BindPairs : MSG_BIND(bp[1], bp[2])
    \/ \E p \in DirPaths : MSG_MKDIR(p) \/ MSG_CHDIR(p)
    \/ \E p \in DirPaths, n \in DirSizes : MSG_READ_DIR(p, n)
    \/ \E n \in CwdSizes : MSG_GETCWD(n)

Spec == Init /\ [][Next]_vars

-----------------------------------------------------------------------------
(***************************************************************************)
(* Properties.                                                              *)
(***************************************************************************)

(* An fd returned by MSG_OPEN keeps naming the file it was opened on: the *)
(* FD-table slot is still in use and holds that file (spec.md 8: READ and *)
(* WRITE on a returned fd never see "invalid fd").  It can break if        *)
(* alloc_fd hands a slot out twice or a handler closes the wrong fd.       *)
FdIntegrity ==
    \A fd \in DOMAIN held :
        /\ fd_table[fd] # NULL
        /\ fd_table[fd].fs = held[fd].fs
        /\ fd_table[fd].key = held[fd].key

(* Handlers other than MSG_OPEN leave no fd open behind them: the slots in *)
(* use are exactly those handed to the user.  MSG_CREATE, MSG_COPY and     *)
(* MSG_MOVE open up to two fds each and must close them on every path.     *)
NoFdLeak == \A fd \in FdRange : fd_table[fd] # NULL <=> fd \in DOMAIN held
(* Where spec.md says a file named by path p lives: a relative p is      *)
(* joined to the CWD (4.3), the caller's bindings map a new_prefix back   *)
(* to its old_prefix (4.3), and the mount table picks the backend (4.4).  *)
(* This is where vfs_create puts the file of an absolute path.            *)
SpecTarget(nsp, p) ==
    LET r == resolve_namespace_path(nsp, FullPath(cwd, p)) IN
    [fs |-> mount_points[find_mount(r)].fs, key |-> r]

(* Path-bearing messages act at the path spec.md resolves (4.2, 4.3):    *)
(* MSG_OPEN fails only when the FD table is full or no file exists there  *)
(* (8: CREATE(p) then OPEN(p) succeeds; 9.2: OPEN through a binding       *)
(* succeeds), and a MKDIR that returns 0 created its directory there      *)
(* ("Create directory at the resolved path").  vfs_open picks the backend *)
(* by the "/tmp/" prefix test instead of the mount table, resolves        *)
(* bindings in the opposite direction (resolve_path) and never joins the  *)
(* CWD; vfs_mkdir does not resolve bindings at all.                       *)
PathOpsResolved ==
    [][LET t == SpecTarget(ns, reply'.path) IN
       /\ reply'.type = "OPEN" /\ reply'.ret = -1 /\ next_fd < MAX_FD
             => t.key \notin DOMAIN fs[t.fs]
       /\ reply'.type = "MKDIR" /\ reply'.ret = 0
             => t.key \in dirs'[t.fs] \ dirs[t.fs]]_vars

(* The data-buffer policy of spec.md 4.2: MSG_READ copies no more than    *)
(* msg->size units into msg->data ("Read up to size bytes"), and a        *)
(* READ_DIR whose buffer is too small for the entries sets dirent_count   *)
(* to 0 and returns -1 "rather than truncating silently": a count it     *)
(* returns is the number of entries it wrote.                             *)
UserBufferPolicy ==
    [][/\ reply'.type = "READ" => reply'.copied <= reply'.size
       /\ reply'.type = "READ_DIR" /\ reply'.ret >= 0 => reply'.count = reply'.ret]_vars

(* COPY and MOVE are all or nothing (spec.md 4.2, 7, 8).  A MSG_COPY     *)
(* that returns -1 leaves no new file ("on any error clean up dst if     *)
(* created").  A MSG_MOVE that returns -1 leaves no new file and the      *)
(* source as it was; one that returns 0 leaves OPEN(src) failing and      *)
(* OPEN(dst) finding src's former contents.  The outcomes come from the   *)
(* copy loop, the rollback unlink of dst_path and the final unlink of     *)
(* src_path, which may all name one file.                                 *)
MultiStepAllOrNothing ==
    [][/\ reply'.type = "COPY" /\ reply'.ret = -1 =>
            \A b \in Backends : DOMAIN fs'[b] \subseteq DOMAIN fs[b]
       /\ reply'.type = "MOVE" =>
            LET s == OpenTarget(ns, reply'.path)
                d == OpenTarget(ns, reply'.dst)
            IN \/ /\ reply'.ret = -1
                  /\ \A b \in Backends : DOMAIN fs'[b] \subseteq DOMAIN fs[b]
                  /\ s.key \in DOMAIN fs[s.fs] =>
                        s.key \in DOMAIN fs'[s.fs] /\ fs'[s.fs][s.key] = fs[s.fs][s.key]
               \/ /\ reply'.ret = 0
                  /\ s.key \notin DOMAIN fs'[s.fs]
                  /\ d.key \in DOMAIN fs'[d.fs]
                  /\ fs'[d.fs][d.key] = fs[s.fs][s.key]]_vars
=============================================================================
