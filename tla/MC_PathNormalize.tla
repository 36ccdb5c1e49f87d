-------------------------- MODULE MC_PathNormalize --------------------------
(* Every absolute path of up to 6 characters over '/', '.' and one letter: *)
(* enough for "/a/../", "/a/./a", "/a..", "/...", "//a/." and the other    *)
(* combinations of separators, dots and a name that the loop tells apart. *)
EXTENDS PathNormalize

MC_Chars == {"/", ".", "a"}
MC_MaxLen == 6
=============================================================================
