----------------------------- MODULE BindingGen -----------------------------
(***************************************************************************)
(* tools/generate-bindings.py: one invocation of main() per run over the  *)
(* bindings/ tree, which persists between runs.  Each generate_<target>()  *)
(* creates its output directories and runs swig once; "all" runs the      *)
(* generators in the order of the TARGETS dict.  No exception is caught:  *)
(* a failing swig (CalledProcessError) or a KeyboardInterrupt ends the    *)
(* interpreter with a traceback.                                           *)
(***************************************************************************)
EXTENDS Integers, Sequences, SequencesExt

CONSTANTS
  Args,       \* sys.argv[1] values a user may pass (besides none)
  NoArg,      \* no argument: target = "all"
  MaxRuns     \* number of invocations explored

\* TARGETS: the dict's insertion order is the order of "all".
TARGETS == <<"android", "ios", "flutter", "web">>

TargetNames == Range(TARGETS)

ASSUME NoArg \notin Args

\* The files swig writes per target: the JNI wrapper and the Java proxies
\* (-outdir) for android, one wrapper file for the others.
OutFiles(t) == CASE t = "android" -> {"jni/anychat_wrap.cpp", "java/*.java"}
                 [] t = "ios"     -> {"objc/anychat_wrap.mm"}
                 [] t = "flutter" -> {"generated/anychat_wrap.cpp"}
                 [] t = "web"     -> {"web/anychat_wrap.cpp"}

\* The directories generate_<target>() creates with mkdir(parents=True).
OutDirs(t) == CASE t = "android" -> {"jni", "java"}
                [] t = "ios"     -> {"objc"}
                [] t = "flutter" -> {"generated"}
                [] t = "web"     -> {"web"}

Files == UNION {OutFiles(t) : t \in TargetNames}
Dirs  == UNION {OutDirs(t) : t \in TargetNames}

VARIABLES
  run,       \* number of the current invocation
  pc,        \* where main() is
  arg,       \* sys.argv[1] of the current invocation
  idx,       \* index into the plan of the generator running next
             \* (one past its end once the loop is over)
  outcome,   \* how the current invocation ended ("running" while it runs)
  exitCode,  \* exit status of the last finished invocation
  dirs,      \* output directories that exist
  files      \* file -> runs whose output it holds ({} when absent)

vars == <<run, pc, arg, idx, outcome, exitCode, dirs, files>>

\* main(): target = sys.argv[1] if given, else "all".
Target(a) == IF a = NoArg THEN "all" ELSE a

\* The generators one invocation runs, in order.
PlanOf(a) == IF Target(a) = "all" THEN TARGETS ELSE <<Target(a)>>

Exit(how, code) == outcome' = how /\ exitCode' = code /\ pc' = "idle"

Init ==
  /\ run = 0
  /\ pc = "idle"
  /\ arg = NoArg
  /\ idx = 1
  /\ outcome = "none"
  /\ exitCode = 0
  /\ dirs = {}
  /\ files = [f \in Files |-> {}]

StartRun ==
  /\ outcome # "running"
  /\ run < MaxRuns
  /\ \E a \in Args \cup {NoArg} : arg' = a
  /\ run' = run + 1
  /\ pc' = "dispatch"
  /\ idx' = 1
  /\ outcome' = "running"
  /\ UNCHANGED <<exitCode, dirs, files>>

\* main(): "all" or a key of TARGETS goes on; anything else is sys.exit(msg).
Dispatch ==
  /\ pc = "dispatch"
  /\ IF Target(arg) = "all" \/ Target(arg) \in TargetNames
     THEN pc' = "generate" /\ UNCHANGED <<outcome, exitCode>>
     ELSE Exit("unknown_target", 1)
  /\ UNCHANGED <<run, arg, idx, dirs, files>>

\* Mutant: the loop bound is off by one, so after the last generator the
\* loop goes on past the plan.
GenerateOffByOne ==
  /\ pc = "generate"
  /\ LET t == PlanOf(arg)[idx] IN
       /\ dirs' = dirs \cup OutDirs(t)
       /\ \E ok \in BOOLEAN :
            IF ok
            THEN /\ files' = [f \in Files |-> IF f \in OutFiles(t) THEN {run}
                                              ELSE files[f]]
                 /\ idx' = idx + 1
                 /\ pc' = IF idx <= Len(PlanOf(arg)) THEN pc ELSE "done"
                 /\ UNCHANGED <<outcome, exitCode>>
            ELSE Exit("swig_error", 1) /\ UNCHANGED <<idx, files>>
  /\ UNCHANGED <<run, arg>>

\* Mutant: swig(...) without check=True; a failing swig is ignored and the
\* next generator runs.
GenerateNoCheck ==
  /\ pc = "generate"
  /\ LET t == PlanOf(arg)[idx] IN
       /\ dirs' = dirs \cup OutDirs(t)
       /\ \E ok \in BOOLEAN :
            /\ files' = [f \in Files |-> IF ok /\ f \in OutFiles(t) THEN {run}
                                         ELSE files[f]]
            /\ idx' = idx + 1
            /\ pc' = IF idx < Len(PlanOf(arg)) THEN pc ELSE "done"
            /\ UNCHANGED <<outcome, exitCode>>
  /\ UNCHANGED <<run, arg>>

\* generate_<t>(): mkdir the output directories, then swig(...) with
\* check=True.  swig writes its files only once it has parsed the
\* interface; a failing swig leaves them as they were, and the uncaught
\* CalledProcessError ends the run with status 1.  The loop of "all" (or
\* the single call) goes on with the next generator.
Generate ==
  /\ pc = "generate"
  /\ LET t == PlanOf(arg)[idx] IN
       /\ dirs' = dirs \cup OutDirs(t)
       /\ \E ok \in BOOLEAN :
            IF ok
            THEN /\ files' = [f \in Files |-> IF f \in OutFiles(t) THEN {run}
                                              ELSE files[f]]
                 /\ idx' = idx + 1
                 /\ pc' = IF idx < Len(PlanOf(arg)) THEN pc ELSE "done"
                 /\ UNCHANGED <<outcome, exitCode>>
            ELSE Exit("swig_error", 1) /\ UNCHANGED <<idx, files>>
  /\ UNCHANGED <<run, arg>>

\* After the last generator main() prints and returns: exit status 0.
Finish ==
  /\ pc = "done"
  /\ Exit("ok", 0)
  /\ UNCHANGED <<run, arg, idx, dirs, files>>

\* KeyboardInterrupt: swig stops part way; each of its files may now mix
\* this run's output with what it held.
Interrupt ==
  /\ outcome = "running"
  /\ IF pc = "generate"
     THEN LET t == PlanOf(arg)[idx] IN
            /\ dirs' = dirs \cup OutDirs(t)
            /\ \E torn \in SUBSET OutFiles(t) :
                 files' = [f \in Files |-> IF f \in torn THEN files[f] \cup {run}
                                           ELSE files[f]]
     ELSE UNCHANGED <<dirs, files>>
  /\ Exit("interrupted", 130)
  /\ UNCHANGED <<run, arg, idx>>

Terminated ==
  /\ outcome # "running"
  /\ run = MaxRuns
  /\ UNCHANGED vars

Next == StartRun \/ Dispatch \/ Generate \/ Finish \/ Interrupt \/ Terminated

Spec == Init /\ [][Next]_vars

-----------------------------------------------------------------------------
(***************************************************************************)
(* Refinement mapping onto BindingContract: the invocations that          *)
(* succeeded are the plan up to the generator running next.               *)
(***************************************************************************)
BC == INSTANCE BindingContract WITH
        Order <- TARGETS, Names <- Args,
        status <- CASE outcome = "none"           -> "idle"
                    [] outcome = "unknown_target" -> "unknown_platform"
                    [] outcome = "swig_error"     -> "tool_failure"
                    [] OTHER                      -> outcome,
        name <- arg,
        done <- SubSeq(PlanOf(arg), 1, idx - 1)

-----------------------------------------------------------------------------
TypeOK ==
  /\ run \in 0..MaxRuns
  /\ pc \in {"idle", "dispatch", "generate", "done"}
  /\ arg \in Args \cup {NoArg}
  /\ idx \in 1..Len(PlanOf(arg)) + 1
  /\ pc = "generate" => idx <= Len(PlanOf(arg))
  /\ outcome \in {"none", "running", "ok", "unknown_target", "swig_error",
                  "interrupted"}
  /\ exitCode \in {0, 1, 130}
  /\ dirs \subseteq Dirs
  /\ files \in [Files -> SUBSET (0..MaxRuns)]

\* spec.md 4.6, 7 and 8: generate-bindings.py implements BindingContract:
\* "all" runs every mapping in one fixed order, an unknown target fails
\* with status 1 before swig runs, the first failing swig ends the run and
\* no later generator is tried, each generator creates its directories
\* and rewrites only its own files, and Ctrl-C exits 130 leaving at most
\* the interrupted generator's files mixed, whatever earlier runs left.
BindingRefinement == BC!Spec
=============================================================================
