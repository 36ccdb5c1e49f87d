--------------------------- MODULE PathNormalize ---------------------------
(***************************************************************************)
(* vfs_normalize_path (src/src/fs/vfs.c lines 37-93), the in-place path    *)
(* normalisation MSG_CHDIR applies to the absolute target path, translated *)
(* character by character, next to the canonical algorithm of spec.md     *)
(* 4.4 that it is meant to implement.                                      *)
(*                                                                         *)
(* A path is a sequence of one-character strings.  The loop walks src and *)
(* builds dst (the code's temp buffer); each IF of the loop body is one    *)
(* case of NormLoop.                                                       *)
(***************************************************************************)
EXTENDS Integers, Sequences, SequencesExt

CONSTANTS
    Chars,     \* the characters of the inputs: "/", ".", and a letter
    MaxLen,    \* longest input path checked
    NONE       \* result of a path not yet normalised

\* ".." at src: the segment pops one character, then back to the last '/'.
RECURSIVE BackToSlash(_)
BackToSlash(d) == IF d # <<>> /\ Last(d) # "/" THEN BackToSlash(Front(d)) ELSE d

PopSegment(d) == IF Len(d) > 1 THEN BackToSlash(Front(d)) ELSE d

\* src[k] as C reads it: the NUL terminator "NUL" past the end.
At(s, k) == IF k <= Len(s) THEN s[k] ELSE "NUL"

\* Mutant of NormLoop: a '/' is only skipped at the start of dst, so "//"
\* is not collapsed.
RECURSIVE NormLoop_no_collapse(_, _)
NormLoop_no_collapse(src, dst) ==
    IF src = <<>> THEN dst
    ELSE LET c == src[1] IN
    CASE c = "/" /\ dst = <<>> ->
            NormLoop_no_collapse(Tail(src), dst)
      [] c = "/" ->
            NormLoop_no_collapse(Tail(src), Append(dst, "/"))
      [] c = "." /\ At(src, 2) \in {"/", "NUL"} ->
            NormLoop_no_collapse(Tail(src), dst)
      [] c = "." /\ At(src, 2) = "." /\ At(src, 3) \in {"/", "NUL"} ->
            NormLoop_no_collapse(SubSeq(src, 3, Len(src)), PopSegment(dst))
      [] OTHER ->
            NormLoop_no_collapse(Tail(src), Append(dst, c))

\* Mutant of NormLoop: ".." is only recognised before a '/', not at the end.
RECURSIVE NormLoop_dotdot_slash_only(_, _)
NormLoop_dotdot_slash_only(src, dst) ==
    IF src = <<>> THEN dst
    ELSE LET c == src[1] IN
    CASE c = "/" /\ (dst = <<>> \/ Last(dst) = "/") ->
            NormLoop_dotdot_slash_only(Tail(src), dst)
      [] c = "/" ->
            NormLoop_dotdot_slash_only(Tail(src), Append(dst, "/"))
      [] c = "." /\ At(src, 2) \in {"/", "NUL"} ->
            NormLoop_dotdot_slash_only(Tail(src), dst)
      [] c = "." /\ At(src, 2) = "." /\ At(src, 3) = "/" ->
            NormLoop_dotdot_slash_only(SubSeq(src, 3, Len(src)), PopSegment(dst))
      [] OTHER ->
            NormLoop_dotdot_slash_only(Tail(src), Append(dst, c))

(* The main loop, lines 49-79, one character of src per step. *)
RECURSIVE NormLoop(_, _)
NormLoop(src, dst) ==
    IF src = <<>> THEN dst
    ELSE LET c == src[1] IN
    CASE c = "/" /\ (dst = <<>> \/ Last(dst) = "/") ->
            NormLoop(Tail(src), dst)
      [] c = "/" ->
            NormLoop(Tail(src), Append(dst, "/"))
      [] c = "." /\ At(src, 2) \in {"/", "NUL"} ->
            NormLoop(Tail(src), dst)
      [] c = "." /\ At(src, 2) = "." /\ At(src, 3) \in {"/", "NUL"} ->
            NormLoop(SubSeq(src, 3, Len(src)), PopSegment(dst))
      [] OTHER ->
            NormLoop(Tail(src), Append(dst, c))

(* vfs_normalize_path, lines 37-93: keep a leading '/', run the loop, then *)
(* an empty result becomes "/" and a trailing '/' is dropped.              *)
vfs_normalize_path(path) ==
    LET d == IF path # <<>> /\ path[1] = "/"
                THEN NormLoop(Tail(path), <<"/">>)
                ELSE NormLoop(path, <<>>)
    IN IF d = <<>> THEN <<"/">>
       ELSE IF Len(d) > 1 /\ Last(d) = "/" THEN Front(d)
       ELSE d

-----------------------------------------------------------------------------
(***************************************************************************)
(* The reference: spec.md 4.4's canonical algorithm on an absolute path.   *)
(* Split at '/', drop empty and "." segments, let ".." pop the previous    *)
(* segment unless at the root, join under a leading '/'.                   *)
(***************************************************************************)
RECURSIVE SplitSegs(_, _, _)
SplitSegs(p, cur, acc) ==
    IF p = <<>> THEN Append(acc, cur)
    ELSE IF p[1] = "/" THEN SplitSegs(Tail(p), <<>>, Append(acc, cur))
    ELSE SplitSegs(Tail(p), Append(cur, p[1]), acc)

ApplySeg(stack, seg) ==
    IF seg = <<>> \/ seg = <<".">> THEN stack
    ELSE IF seg = <<".", ".">> THEN (IF stack = <<>> THEN stack ELSE Front(stack))
    ELSE Append(stack, seg)

RECURSIVE JoinSegs(_)
JoinSegs(stack) ==
    IF stack = <<>> THEN <<>>
    ELSE <<"/">> \o Head(stack) \o JoinSegs(Tail(stack))

CanonicalNormalize(path) ==
    LET stack == FoldLeft(ApplySeg, <<>>, SplitSegs(path, <<>>, <<>>)) IN
    IF stack = <<>> THEN <<"/">> ELSE JoinSegs(stack)

-----------------------------------------------------------------------------
(* Every absolute path of at most MaxLen characters over Chars.            *)
AbsPaths == {<<"/">> \o s : s \in BoundedSeq(Chars, MaxLen - 1)}

VARIABLES path, result

vars == <<path, result>>

TypeOK == path \in AbsPaths /\ (result = NONE \/ result \in Seq(Chars))

Init == path \in AbsPaths /\ result = NONE

Normalize == result = NONE /\ result' = vfs_normalize_path(path) /\ UNCHANGED path

\* The path has been normalised; nothing further happens to it.
Done == result # NONE /\ UNCHANGED vars

Next == Normalize \/ Done

Spec == Init /\ [][Next]_vars

-----------------------------------------------------------------------------
(***************************************************************************)
(* Properties.                                                              *)
(***************************************************************************)

\* The segments of an absolute path, after its leading '/'.
Segments(p) == Tail(SplitSegs(p, <<>>, <<>>))

(* MSG_CHDIR stores what vfs_normalize_path returns as the CWD, and        *)
(* spec.md 4.4 says a canonical path is absolute and has no empty, "." or  *)
(* ".." segment: so no "//", no trailing '/', no "/./" or "/../" survives  *)
(* the loop's skip, collapse and pop cases.                                *)
NormalFormWellFormed ==
    result # NONE =>
        \/ result = <<"/">>
        \/ /\ result # <<>> /\ result[1] = "/"
           /\ \A i \in 1 .. Len(Segments(result)) :
                 Segments(result)[i] \notin {<<>>, <<".">>, <<".", ".">>}

(* spec.md 8: normalising a normalised path changes nothing, so a CWD that *)
(* MSG_CHDIR set reads back the same through MSG_GETCWD and a later       *)
(* CHDIR to it.                                                            *)
NormalizeIdempotent ==
    result # NONE => vfs_normalize_path(result) = result

(* spec.md 4.4: vfs_normalize_path computes the canonical form.  Its '.'  *)
(* and ".." tests look only at the character after the dot, not at the    *)
(* segment start, so "/a." loses its dot and "/a.." pops "a".             *)
NormalizeCanonical ==
    result # NONE => result = CanonicalNormalize(path)
=============================================================================
