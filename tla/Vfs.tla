-------------------------------- MODULE Vfs --------------------------------
(***************************************************************************)
(* The virtual filesystem of src/src/fs/vfs.c: mount table, FD table,      *)
(* namespace substitution and the vfs_* entry points.                      *)
(*                                                                         *)
(* The VFS functions run to completion inside one message handler, so      *)
(* each is an operator from a VFS state V = [fs, dirs, fdt, next] to its   *)
(* outcome [v |-> new state, ret |-> return value, ...] (a set of outcomes *)
(* where a backend may fail).  FileMessages chains them into the handlers  *)
(* of send_message.                                                        *)
(*                                                                         *)
(* Data abstraction.  A path is a sequence of one-character strings, so    *)
(* the code's strncmp/strcpy/strcat become IsPrefix, SubSeq and \o.  File  *)
(* contents are sequences of 128-byte units, each a value of Data.        *)
(*                                                                         *)
(* The backends (ramfs, abyssfs) are not part of the source tree; they are *)
(* modelled from the contract of spec.md section 6 as stores from the      *)
(* exact path string they are handed to the file's contents, plus the set  *)
(* of directory keys (V.dirs).                                             *)
(***************************************************************************)
EXTENDS Integers, Sequences, SequencesExt, FiniteSets

CONSTANTS
    MAX_FD,      \* vfs.c: MAX_FD, size of the global FD table
    Data,        \* values of one 128-byte unit of file contents
    NULL         \* an empty FD-table slot, a NULL pointer

ASSUME MAX_FD \in Nat \ {0}

Backends == {"abyssfs", "ramfs"}

SLASH == <<"/">>
TMP == <<"/", "t", "m", "p">>           \* "/tmp"
TMP_SLASH == TMP \o SLASH               \* "/tmp/"

(* vfs_init (lines 95-105) mounts abyssfs on "/" and ramfs on "/tmp" through *)
(* vfs_mount (lines 117-133); nothing mounts afterwards.                     *)
mount_points ==
    << [path |-> SLASH, fs |-> "abyssfs"], [path |-> TMP, fs |-> "ramfs"] >>

FdRange == 0 .. MAX_FD - 1

(* An open file: its backend, the key it was opened with, its position.   *)
File(b, key) == [fs |-> b, key |-> key, pos |-> 0]

(***************************************************************************)
(* find_mount, lines 136-163: "" and "/" give the first mount; otherwise   *)
(* the longest mount path that is a strncmp-prefix of the path (no         *)
(* component boundary is required).  0 stands for NULL.                    *)
(***************************************************************************)
find_mount(path) ==
    IF path = <<>> \/ path = SLASH
       THEN IF Len(mount_points) > 0 THEN 1 ELSE 0
       ELSE LET M == {i \in 1 .. Len(mount_points) :
                        Len(mount_points[i].path) > 0
                        /\ IsPrefix(mount_points[i].path, path)}
            IN IF M = {} THEN 0
               ELSE CHOOSE i \in M : \A j \in M :
                        Len(mount_points[j].path) < Len(mount_points[i].path)
                        \/ (Len(mount_points[j].path) = Len(mount_points[i].path)
                            /\ i <= j)

(***************************************************************************)
(* The relative-path join of vfs_create, vfs_unlink and vfs_mkdir: cwd,    *)
(* a '/' unless cwd ends in one, then the path.                            *)
(***************************************************************************)
FullPath(cwd, path) ==
    IF path # <<>> /\ path[1] = "/" THEN path
    ELSE cwd \o (IF Last(cwd) # "/" THEN SLASH ELSE <<>>) \o path

(***************************************************************************)
(* resolve_path, lines 393-409, used by vfs_open: the first binding whose  *)
(* old_path is a prefix of the path has that prefix replaced by its        *)
(* new_path.  A binding is [new |-> new_path, old |-> old_path].           *)
(***************************************************************************)
resolve_path(ns, path) ==
    LET i == SelectInSeq(ns, LAMBDA n : IsPrefix(n.old, path)) IN
    IF i = 0 THEN path
    ELSE ns[i].new \o SubSeq(path, Len(ns[i].old) + 1, Len(path))

(***************************************************************************)
(* resolve_namespace_path, lines 208-249, used by vfs_read_dir: the first  *)
(* binding whose new_path is a prefix of the path has that prefix replaced *)
(* by its old_path, with a '/' put in at the join unless the tail starts   *)
(* with one or old_path ends with one (spec.md 4.3).  The kalloc'd result  *)
(* is never freed; a failed kalloc returns the path unresolved.            *)
(***************************************************************************)
resolve_namespace_path(ns, path) ==
    LET i == SelectInSeq(ns, LAMBDA n : IsPrefix(n.new, path)) IN
    IF i = 0 THEN path
    ELSE LET rest == SubSeq(path, Len(ns[i].new) + 1, Len(path))
             sep == IF rest # <<>> /\ rest[1] # "/" /\ Last(ns[i].old) # "/"
                       THEN SLASH ELSE <<>>
         IN ns[i].old \o sep \o rest

(* The backend and key vfs_open hands a path to (lines 255-266): the       *)
(* "/tmp/" prefix test, not the mount table, picks the backend.            *)
OpenTarget(ns, path) ==
    LET r == resolve_path(ns, path) IN
    [fs |-> IF IsPrefix(TMP_SLASH, r) THEN "ramfs" ELSE "abyssfs", key |-> r]

(***************************************************************************)
(* alloc_fd, lines 166-175: next_fd only grows; a slot is never reused.    *)
(***************************************************************************)
\* Mutant of alloc_fd: next_fd is not advanced, so a slot is handed out twice.
alloc_fd_no_bump(V, file) ==
    IF V.next >= MAX_FD THEN [v |-> V, ret |-> -1]
    ELSE [v |-> [V EXCEPT !.fdt[V.next] = file], ret |-> V.next]

\* Mutant of alloc_fd: the bound test is off by one (> instead of >=).
alloc_fd_off_by_one(V, file) ==
    IF V.next > MAX_FD THEN [v |-> V, ret |-> -1]
    ELSE [v |-> [V EXCEPT !.fdt[V.next] = file, !.next = @ + 1], ret |-> V.next]

alloc_fd(V, file) ==
    IF V.next >= MAX_FD THEN [v |-> V, ret |-> -1]
    ELSE [v |-> [V EXCEPT !.fdt[V.next] = file, !.next = @ + 1], ret |-> V.next]

\* The slot check of vfs_read, vfs_close (fd < 0 || fd >= MAX_FD || !fd_table[fd])
\* and of get_file (lines 178-183) as used by vfs_write.
ValidFd(V, fd) == fd \in FdRange /\ V.fdt[fd] # NULL

(***************************************************************************)
(* vfs_open, lines 252-280.  The backend's open finds the exact key.  When *)
(* alloc_fd fails the backend file is dropped without being closed.        *)
(***************************************************************************)
vfs_open(V, ns, path) ==
    LET t == OpenTarget(ns, path) IN
    IF t.key \notin DOMAIN V.fs[t.fs] THEN [v |-> V, ret |-> -1]
    ELSE alloc_fd(V, File(t.fs, t.key))

(***************************************************************************)
(* vfs_create, lines 411-446: joins the CWD (no namespace), sends "/tmp"   *)
(* and "/tmp/..." to ramfs and anything else to find_mount's backend.  The *)
(* backend create touches the file (keeps an existing one, spec.md 4.2     *)
(* "touch semantics"; it fails on a directory) before alloc_fd, so the    *)
(* file stays created even when alloc_fd then fails.                       *)
(***************************************************************************)
CreateBackend(full) ==
    IF IsPrefix(TMP_SLASH, full) \/ full = TMP THEN "ramfs"
    ELSE IF find_mount(full) = 0 THEN NULL
    ELSE mount_points[find_mount(full)].fs

vfs_create(V, cwd, path) ==
    LET full == FullPath(cwd, path)
        b == CreateBackend(full)
    IN IF b = NULL \/ full \in V.dirs[b] THEN [v |-> V, ret |-> -1]
       ELSE alloc_fd([V EXCEPT !.fs[b] = @ @@ (full :> <<>>)], File(b, full))

(***************************************************************************)
(* vfs_read, lines 283-304, with the backend read: up to n units from the  *)
(* file position, which advances.  A file whose key has been unlinked      *)
(* reads as an error.                                                      *)
(***************************************************************************)
vfs_read(V, fd, n) ==
    IF ~ValidFd(V, fd) THEN [v |-> V, ret |-> -1, data |-> <<>>]
    ELSE LET f == V.fdt[fd] IN
         IF f.key \notin DOMAIN V.fs[f.fs] THEN [v |-> V, ret |-> -1, data |-> <<>>]
         ELSE LET c == V.fs[f.fs][f.key]
                  k == IF Len(c) - f.pos < n THEN Len(c) - f.pos ELSE n
              IN [v |-> [V EXCEPT !.fdt[fd].pos = @ + k],
                  ret |-> k,
                  data |-> SubSeq(c, f.pos + 1, f.pos + k)]

(***************************************************************************)
(* vfs_write, lines 307-324, with the backend write: the data replaces the *)
(* units at the file position, or the backend fails (-1, nothing written). *)
(***************************************************************************)
vfs_write(V, fd, d) ==
    IF ~ValidFd(V, fd) \/ V.fdt[fd].key \notin DOMAIN V.fs[V.fdt[fd].fs]
       THEN {[v |-> V, ret |-> -1]}
    ELSE LET f == V.fdt[fd]
             c == V.fs[f.fs][f.key]
             c2 == SubSeq(c, 1, f.pos) \o d \o SubSeq(c, f.pos + Len(d) + 1, Len(c))
         IN { [v |-> [V EXCEPT !.fs[f.fs][f.key] = c2, !.fdt[fd].pos = @ + Len(d)],
               ret |-> Len(d)],
              [v |-> V, ret |-> -1] }

(* vfs_close, lines 448-463: the slot is emptied but next_fd stays.       *)
vfs_close(V, fd) ==
    IF ~ValidFd(V, fd) THEN [v |-> V, ret |-> -1]
    ELSE [v |-> [V EXCEPT !.fdt[fd] = NULL], ret |-> 0]

(***************************************************************************)
(* vfs_unlink, lines 465-490: the mount is looked up for the joined path   *)
(* but the backend's unlink is handed the path as given.                   *)
(***************************************************************************)
vfs_unlink(V, cwd, path) ==
    LET m == find_mount(FullPath(cwd, path)) IN
    IF m = 0 THEN [v |-> V, ret |-> -1]
    ELSE LET b == mount_points[m].fs IN
         IF path \notin DOMAIN V.fs[b] THEN [v |-> V, ret |-> -1]
         ELSE [v |-> [V EXCEPT !.fs[b] =
                         [k \in DOMAIN @ \ {path} |-> @[k]]],
               ret |-> 0]

(***************************************************************************)
(* Directories.  The backends' read_dir and mkdir (spec.md 6): a directory *)
(* lists the files and directories one '/'-segment below it; mkdir fails   *)
(* on a key that exists.                                                   *)
(***************************************************************************)
IsChild(dir, k) ==
    LET pre == IF dir = SLASH THEN SLASH ELSE dir \o SLASH IN
    /\ IsPrefix(pre, k) /\ Len(k) > Len(pre)
    /\ \A i \in Len(pre) + 1 .. Len(k) : k[i] # "/"

Entries(V, b, dir) == {k \in DOMAIN V.fs[b] \cup V.dirs[b] : IsChild(dir, k)}

\* vfs_read_dir, lines 186-206: namespace first, then the mount table; no
\* CWD join.  The backend returns at most max entries, -1 if no directory.
vfs_read_dir(V, nsp, path, max) ==
    LET r == resolve_namespace_path(nsp, path)
        m == find_mount(r)
    IN IF m = 0 THEN -1
       ELSE LET b == mount_points[m].fs IN
            IF r \notin V.dirs[b] THEN -1
            ELSE IF Cardinality(Entries(V, b, r)) > max THEN max
            ELSE Cardinality(Entries(V, b, r))

\* vfs_mkdir, lines 492-518: the CWD join of vfs_create, find_mount's
\* backend, no namespace.
vfs_mkdir(V, cwd, path) ==
    LET full == FullPath(cwd, path)
        m == find_mount(full)
    IN IF m = 0 THEN [v |-> V, ret |-> -1]
       ELSE LET b == mount_points[m].fs IN
            IF full \in DOMAIN V.fs[b] \cup V.dirs[b] THEN [v |-> V, ret |-> -1]
            ELSE [v |-> [V EXCEPT !.dirs[b] = @ \cup {full}], ret |-> 0]
=============================================================================
