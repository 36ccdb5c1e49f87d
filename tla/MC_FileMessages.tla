-------------------------- MODULE MC_FileMessages --------------------------
(***************************************************************************)
(* Paths spelled character by character.  "/tmp/a" exists in ramfs and    *)
(* "/b" in abyssfs at boot; "/tmp/b" is absent; "/tmpb" shares the "/tmp"  *)
(* prefix without the separator; "b" is relative to the CWD "/"; "/p/a"   *)
(* lies under the bind target "/p" of BIND(source "/tmp", target "/p").  *)
(* Three FD slots: MSG_COPY and MSG_MOVE need two, so the table runs out  *)
(* in the middle of a handler.                                            *)
(***************************************************************************)
EXTENDS FileMessages, TLC, FiniteSets

P_TMP_A == <<"/", "t", "m", "p", "/", "a">>
P_TMP_B == <<"/", "t", "m", "p", "/", "b">>
P_TMPB  == <<"/", "t", "m", "p", "b">>
P_B     == <<"/", "b">>
P_REL_B == <<"b">>
P_P_A   == <<"/", "p", "/", "a">>
P_P     == <<"/", "p">>

MC_InitFs ==
    [b \in Backends |->
        IF b = "ramfs" THEN P_TMP_A :> <<"d1", "d2">>
        ELSE P_B :> <<"d2">>]
MC_InitDirs == [b \in Backends |-> IF b = "ramfs" THEN {TMP} ELSE {SLASH}]
MC_InitCwd == <<"/">>
\* "/tmp", the relative ".." and the bind target "/p".  MKDIR("..") joins
\* the CWD without normalising and makes the key "/.." or "/tmp/..".
MC_DirPaths == {TMP, <<".", ".">>, P_P}
MC_UserPaths == {P_TMP_A, P_TMP_B, P_TMPB, P_B, P_REL_B, P_P_A}
\* Absolute paths only: no outcome then depends on how a backend treats a
\* relative key.
MC_AbsPaths == MC_UserPaths \ {P_REL_B}
\* COPY and MOVE from the files of both backends and the relative "b" to
\* those and the absent "/tmp/b"; "/tmpb" and "/p/a" reach the same open
\* and create rules through OPEN and CREATE.
MC_CopyPairs == {P_TMP_A, P_B, P_REL_B} \X {P_TMP_A, P_TMP_B, P_B, P_REL_B}
\* UNBIND of the bind target and of a path no binding names.
MC_UnbindPaths == {P_P, P_B}
MC_BindPairs == {<<TMP, P_P>>}
MC_Data == {"d1", "d2"}

\* reply only records what the last message returned; no action reads it,
\* so states that differ in it alone are explored once.
MC_View == <<fs, dirs, fd_table, next_fd, ns, cwd, held>>
\* Bounds on the directory handlers.  At most MaxNewDirs directories beyond
\* the mount roots.  Once the directories or the CWD differ from boot, at
\* most MaxDirFds FD slots are allocated: the table-full cases are explored
\* from the boot CWD.
MaxNewDirs == 1
MaxDirFds == 1
MC_Bound ==
    /\ Cardinality(dirs["ramfs"]) + Cardinality(dirs["abyssfs"]) <= 2 + MaxNewDirs
    /\ (cwd # InitCwd \/ dirs # InitDirs) => next_fd <= MaxDirFds
=============================================================================
