------------------------------ MODULE WebBuild ------------------------------
(***************************************************************************)
(* tools/build-web.py: one invocation of main() per run over the build    *)
(* tree that persists between runs.  check_emscripten() requires EMSDK to *)
(* be set and a working `emcc --version`; the preset is f"web-{config}"   *)
(* and the directory it cleans is ROOT/build/<preset>.                     *)
(***************************************************************************)
EXTENDS BuildTree, PresetResolver, LifecyclePlan

CONSTANTS
  PresetDir(_),   \* CMakePresets.json: the binary dir cmake uses for a preset
  FailCodes       \* non-zero return codes of a failing cmake

\* parse_args() plus the environment: EMSDK unset or empty, or set; and
\* whether `emcc --version` succeeds ("absent" covers both a non-zero
\* status and FileNotFoundError, which check_emscripten() treats alike).
Args == [config : Configs, clean : BOOLEAN, list : {FALSE},
         emsdk : {"unset", "set"}, emcc : {"ok", "absent"}]
        \cup
        [config : {"release"}, clean : {FALSE}, list : {TRUE},
         emsdk : {"set"}, emcc : {"ok"}]

DefaultArgs == [config |-> "release", clean |-> FALSE, list |-> FALSE,
                emsdk |-> "set", emcc |-> "ok"]

VARIABLES
  run,       \* number of the current invocation
  pc,        \* where main() is
  args,      \* the parsed arguments of the current invocation
  outcome,   \* how the current invocation ended ("running" while it runs)
  exitCode,  \* exit status of the last finished invocation
  fs         \* the build tree

vars == <<run, pc, args, outcome, exitCode, fs>>

\* Mutant: the return code taken as the exit status without truncation.
ExitStatusUnmasked(rc) == rc

\* sys.exit(e.returncode) as seen by the parent process.
ExitStatus(rc) == rc % 256

\* preset = f"web-{args.config}"; build_dir = ROOT / "build" / preset.
Preset == "web-" \o args.config
ScriptBuildDir == BuildPath(Root, Preset)

Exit(how, code) == outcome' = how /\ exitCode' = code

\* Mutant: subprocess.run without check=True: a failing cmake is ignored.
RunProcessNoCheck(next) ==
  \E rc \in {0} \cup FailCodes :
    /\ fs' \in IF rc = 0 THEN {CMakeWrite(fs, PresetDir(Preset), run)}
               ELSE CMakeWriteMaybe(fs, PresetDir(Preset), run)
    /\ pc' = next
    /\ UNCHANGED <<outcome, exitCode>>

\* cmake ends; on success main() goes on to `next`, otherwise the
\* CalledProcessError handler exits with its code.
RunProcess(next) ==
  \E rc \in {0} \cup FailCodes :
    IF rc = 0
    THEN /\ fs' = CMakeWrite(fs, PresetDir(Preset), run)
         /\ pc' = next
         /\ UNCHANGED <<outcome, exitCode>>
    ELSE /\ fs' \in CMakeWriteMaybe(fs, PresetDir(Preset), run)
         /\ Exit("process_error", ExitStatus(rc))
         /\ UNCHANGED pc

Init ==
  /\ run = 0
  /\ pc = "idle"
  /\ args = DefaultArgs
  /\ outcome = "none"
  /\ exitCode = 0
  /\ fs = InitialTree

StartRun ==
  /\ outcome # "running"
  /\ run < MaxRuns
  /\ \E a \in Args : args' = a
  /\ run' = run + 1
  /\ pc' = "main"
  /\ outcome' = "running"
  /\ UNCHANGED <<exitCode, fs>>

\* --list-presets prints a fixed list and returns.
ListPresets ==
  /\ outcome = "running" /\ pc = "main" /\ args.list
  /\ Exit("ok", 0)
  /\ UNCHANGED <<run, pc, args, fs>>

\* check_emscripten(): EMSDK non-empty, then `emcc --version`.
CheckEmscripten ==
  /\ outcome = "running" /\ pc = "main" /\ ~args.list
  /\ IF args.emsdk = "set" /\ args.emcc = "ok"
     THEN pc' = "clean" /\ UNCHANGED <<outcome, exitCode>>
     ELSE Exit("precondition", 1) /\ UNCHANGED pc
  /\ UNCHANGED <<run, args, fs>>

\* Mutant: the clean step that never removes anything.
CleanBuildDirNoRmtree ==
  /\ outcome = "running" /\ pc = "clean"
  /\ pc' = "configure"
  /\ UNCHANGED <<run, args, outcome, exitCode, fs>>

\* "if args.clean and build_dir.exists(): shutil.rmtree(build_dir)".
CleanBuildDir ==
  /\ outcome = "running" /\ pc = "clean"
  /\ fs' = IF args.clean /\ fs[ScriptBuildDir].exists
           THEN RmTree(fs, ScriptBuildDir) ELSE fs
  /\ pc' = "configure"
  /\ UNCHANGED <<run, args, outcome, exitCode>>

\* cmake --preset <preset>.
CMakeConfigure ==
  /\ outcome = "running" /\ pc = "configure"
  /\ RunProcess("build")
  /\ UNCHANGED <<run, args>>

\* cmake --build --preset <preset> (no --parallel).
CMakeBuild ==
  /\ outcome = "running" /\ pc = "build"
  /\ RunProcess("finish")
  /\ UNCHANGED <<run, args>>

Finish ==
  /\ outcome = "running" /\ pc = "finish"
  /\ Exit("ok", 0)
  /\ UNCHANGED <<run, pc, args, fs>>

\* KeyboardInterrupt: exit 130; a running rmtree or cmake stops part way.
Interrupt ==
  /\ outcome = "running"
  /\ fs' \in CASE pc \in {"configure", "build"} ->
                    CMakeWriteMaybe(fs, PresetDir(Preset), run)
               [] pc = "clean" /\ args.clean -> RmTreePartial(fs, ScriptBuildDir)
               [] OTHER -> {fs}
  /\ Exit("interrupted", 130)
  /\ UNCHANGED <<run, pc, args>>

Terminated ==
  /\ outcome # "running"
  /\ run = MaxRuns
  /\ UNCHANGED vars

Next ==
  \/ StartRun \/ ListPresets \/ CheckEmscripten \/ CleanBuildDir
  \/ CMakeConfigure \/ CMakeBuild \/ Finish \/ Interrupt \/ Terminated

Spec == Init /\ [][Next]_vars

-----------------------------------------------------------------------------
(***************************************************************************)
(* Refinement mapping onto Lifecycle; the plans are built from the name    *)
(* spec.md 4.1 gives a Web preset  : "{platform}-{config}".                 *)
(***************************************************************************)
PlanOf(a) == TargetPlan("web-" \o a.config, a.clean, FALSE)

Done == CASE pc = "configure" -> IF args.clean THEN 1 ELSE 0
          [] pc = "build"     -> IF args.clean THEN 2 ELSE 1
          [] pc = "finish"    -> Len(PlanOf(args))
          [] OTHER            -> 0

WebPlans == {TargetPlan("web-" \o cfg, c, FALSE) : cfg \in Configs, c \in BOOLEAN}

LC == INSTANCE Lifecycle WITH
        status   <- CASE outcome = "none"          -> "idle"
                      [] outcome = "running"       -> "running"
                      [] outcome = "ok"            -> "succeeded"
                      [] outcome = "precondition"  -> "rejected"
                      [] outcome = "interrupted"   -> "cancelled"
                      [] OTHER                     -> "failed",
        plan     <- IF run > 0 /\ ~args.list THEN PlanOf(args) ELSE <<>>,
        trace    <- IF run > 0 /\ ~args.list THEN SubSeq(PlanOf(args), 1, Done)
                    ELSE <<>>,
        OutDir   <- PresetDir,
        Plans    <- WebPlans

-----------------------------------------------------------------------------
TypeOK ==
  /\ run \in 0..MaxRuns
  /\ pc \in {"idle", "main", "clean", "configure", "build", "finish"}
  /\ args \in Args
  /\ outcome \in {"none", "running", "ok", "precondition", "process_error",
                  "interrupted"}
  /\ exitCode \in 0..255
  /\ fs \in [Dirs -> DirState]

\* build-web.py implements the lifecycle of spec.md 4.2/4.4: an unset
\* EMSDK or a missing emcc ends the run with 1 before any build step,
\* then clean, configure and build in order, nothing after the first
\* failure, the failing status (mod 256) or 130 as exit status.
LifecycleRefinement == LC!Spec

\* spec.md 5: a --clean run that exits 0 leaves the preset's binary
\* directory holding that run's outputs only, whatever earlier failed or
\* interrupted runs left.
CleanRunRecovers ==
  (outcome = "ok" /\ args.clean /\ ~args.list) => fs[PresetDir(Preset)].runs = {run}
=============================================================================
