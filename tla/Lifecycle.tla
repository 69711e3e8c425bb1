----------------------------- MODULE Lifecycle -----------------------------
(***************************************************************************)
(* What a build driver promises (spec.md 4.4, 4.5, 5, 7): the abstract     *)
(* specification that NativeBuild and AndroidBuild are shown to implement. *)
(*                                                                         *)
(* Each invocation ("run") fixes a plan: for each target preset, in a      *)
(* fixed order, an optional Clean, Configure, Build and an optional Test.  *)
(* Steps are performed in plan order; the first failing step ends the run  *)
(* with that process's exit status, and no later step or target is         *)
(* attempted.  A precondition failure ends the run with status 1 before    *)
(* any step; a user interrupt ends it with 130 at any point, possibly      *)
(* leaving the directory of the interrupted step inconsistent.  A step     *)
(* touches only the output directory of its own target: Clean empties it, *)
(* the other phases add the run's outputs to it.                          *)
(***************************************************************************)
EXTENDS BuildTree, LifecyclePlan

CONSTANTS
  OutDir(_),   \* the binary directory cmake uses for a preset
  Plans,       \* the plans a driver may run (beside the empty plan)
  FailCodes    \* non-zero return codes of a failing external process

Step == [target : Presets, phase : Phases]

\* sys.exit(code) reports code modulo 256 to the parent process.
ExitStatus(rc) == rc % 256

CancelStatus == 130

VARIABLES
  status,    \* "idle" before the first run, then the state of the last run
  plan,      \* the steps the current run will perform if all succeed
  trace,     \* the steps it has completed
  exitCode,  \* the exit status of the last finished run
  fs,        \* the build-output tree
  run        \* number of the current run

vars == <<status, plan, trace, exitCode, fs, run>>

Terminal == {"succeeded", "failed", "cancelled", "rejected"}

NextStep == plan[Len(trace) + 1]

\* What a completed step does to the tree.
Effect(s) ==
  IF s.phase = "clean" THEN RmTree(fs, OutDir(s.target))
                       ELSE CMakeWrite(fs, OutDir(s.target), run)

\* What a step that failed or was interrupted part way may have done.
PartialEffect(s) ==
  IF s.phase = "clean" THEN RmTreePartial(fs, OutDir(s.target))
                       ELSE CMakeWriteMaybe(fs, OutDir(s.target), run)

Init ==
  /\ status = "idle"
  /\ plan = <<>>
  /\ trace = <<>>
  /\ exitCode = 0
  /\ fs = InitialTree
  /\ run = 0

Begin ==
  /\ status # "running"
  /\ run < MaxRuns
  /\ \E p \in Plans \cup {<<>>} : plan' = p
  /\ status' = "running"
  /\ trace' = <<>>
  /\ run' = run + 1
  /\ UNCHANGED <<exitCode, fs>>

StepDone ==
  /\ status = "running"
  /\ Len(trace) < Len(plan)
  /\ trace' = Append(trace, NextStep)
  /\ fs' = Effect(NextStep)
  /\ UNCHANGED <<status, plan, exitCode, run>>

StepFailed ==
  /\ status = "running"
  /\ Len(trace) < Len(plan)
  /\ \E rc \in FailCodes : exitCode' = ExitStatus(rc)
  /\ fs' \in PartialEffect(NextStep)
  /\ status' = "failed"
  /\ UNCHANGED <<plan, trace, run>>

Succeed ==
  /\ status = "running"
  /\ trace = plan
  /\ status' = "succeeded"
  /\ exitCode' = 0
  /\ UNCHANGED <<plan, trace, fs, run>>

Reject ==
  /\ status = "running"
  /\ trace = <<>>
  /\ status' = "rejected"
  /\ exitCode' = 1
  /\ UNCHANGED <<plan, trace, fs, run>>

Cancel ==
  /\ status = "running"
  /\ fs' \in IF Len(trace) < Len(plan) THEN PartialEffect(NextStep) ELSE {fs}
  /\ status' = "cancelled"
  /\ exitCode' = CancelStatus
  /\ UNCHANGED <<plan, trace, run>>

Next == Begin \/ StepDone \/ StepFailed \/ Succeed \/ Reject \/ Cancel

Spec == Init /\ [][Next]_vars

\* spec.md 5: "each phase blocks until its external process exits" and a
\* failure or an interrupt ends the invocation at once: a started
\* lifecycle always reaches a terminal status.
Terminates == (status = "running") ~> (status \in Terminal)
=============================================================================
