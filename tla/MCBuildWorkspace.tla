-------------------------- MODULE MCBuildWorkspace --------------------------
(***************************************************************************)
(* Two concurrent build-native.py invocations for TLC, over the standard   *)
(* catalog of NativeCatalogs: A runs once, B twice, so that a later B run  *)
(* can clean after A has finished.                                         *)
(***************************************************************************)
EXTENDS BuildWorkspace, NativeCatalogs

\* Bound on the arguments explored: every invocation reads the catalog,
\* builds (no --list), runs no tests, uses --config release and leaves
\* --compiler unset or picks clang.  The options left (--preset or
\* --compiler, --clean) choose and clean a binary directory, and give both
\* equal and different presets for the two invocations; the others are
\* covered by the single-invocation runs.
WorkspaceBound ==
  \A a \in {argsA, argsB} :
    /\ a.catalog = "ok" /\ ~a.list /\ ~a.test
    /\ a.config = "release" /\ a.compiler \in {NONE, "clang"}

\* One failure code, a signal death (-9): the exit status plays no part in
\* the build tree, and -9 still exercises its modulo 256.
MCFailCodesOne == {-9}
=============================================================================
