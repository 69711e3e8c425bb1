--------------------------- MODULE BindingContract ---------------------------
(***************************************************************************)
(* What spec.md 4.6, 5 and 7 promise of generate(platformName), the       *)
(* abstract specification BindingGen is shown to implement.               *)
(*                                                                         *)
(* A fixed mapping gives each platform its output directories and files.  *)
(* A run names one platform, or "all" for every platform in one fixed     *)
(* order; an unknown name fails before any binding compiler runs.  The    *)
(* invocations happen in that order, each creating its directories and   *)
(* then regenerating exactly its own files; the first failing invocation  *)
(* ends the run with a non-zero status and no later platform is tried.    *)
(* A user interrupt ends the run with 130 and may leave the files of the  *)
(* interrupted invocation mixed.  Nothing else is touched.                *)
(***************************************************************************)
EXTENDS Integers, Sequences

CONSTANTS
  Order,        \* the platforms, in the order "all" visits them
  OutDirs(_),   \* the directories a platform's mapping creates
  OutFiles(_),  \* the files a platform's binding compiler writes
  Names,        \* platform names a user may pass (some unknown)
  NoArg,        \* no argument: "all"
  MaxRuns

Platforms == {Order[i] : i \in DOMAIN Order}

VARIABLES
  status,   \* "idle" before the first run, then the state of the last run
  name,     \* the platform name of the current run
  done,     \* the invocations of the current run that succeeded, in order
  exitCode, \* exit status of the last finished run
  dirs,     \* output directories that exist
  files,    \* file -> runs whose output it holds
  run       \* number of the current run

vars == <<status, name, done, exitCode, dirs, files, run>>

Known(n) == n = NoArg \/ n = "all" \/ n \in Platforms

Plan == IF name \in Platforms THEN <<name>> ELSE Order

Current == Plan[Len(done) + 1]

End(s, code) == status' = s /\ exitCode' = code

Init ==
  /\ status = "idle"
  /\ name = NoArg
  /\ done = <<>>
  /\ exitCode = 0
  /\ dirs = {}
  /\ files = [f \in UNION {OutFiles(p) : p \in Platforms} |-> {}]
  /\ run = 0

Begin ==
  /\ status # "running"
  /\ run < MaxRuns
  /\ \E n \in Names \cup {NoArg} : name' = n
  /\ status' = "running"
  /\ done' = <<>>
  /\ run' = run + 1
  /\ UNCHANGED <<exitCode, dirs, files>>

Reject ==
  /\ status = "running" /\ ~Known(name)
  /\ End("unknown_platform", 1)
  /\ UNCHANGED <<name, done, dirs, files, run>>

Invoke ==
  /\ status = "running" /\ Known(name) /\ Len(done) < Len(Plan)
  /\ dirs' = dirs \cup OutDirs(Current)
  /\ files' = [f \in DOMAIN files |-> IF f \in OutFiles(Current) THEN {run}
                                      ELSE files[f]]
  /\ done' = Append(done, Current)
  /\ UNCHANGED <<status, name, exitCode, run>>

\* A failing invocation leaves its files as they were (the compiler writes
\* only after it has read the whole interface).
Fail ==
  /\ status = "running" /\ Known(name) /\ Len(done) < Len(Plan)
  /\ dirs' = dirs \cup OutDirs(Current)
  /\ \E code \in 1..255 : End("tool_failure", code)
  /\ UNCHANGED <<name, done, files, run>>

Succeed ==
  /\ status = "running" /\ Known(name) /\ done = Plan
  /\ End("ok", 0)
  /\ UNCHANGED <<name, done, dirs, files, run>>

Cancel ==
  /\ status = "running"
  /\ IF Known(name) /\ Len(done) < Len(Plan)
     THEN /\ dirs' \in {dirs, dirs \cup OutDirs(Current)}
          /\ \E torn \in SUBSET OutFiles(Current) :
               files' = [f \in DOMAIN files |-> IF f \in torn
                                                THEN files[f] \cup {run}
                                                ELSE files[f]]
     ELSE UNCHANGED <<dirs, files>>
  /\ End("interrupted", 130)
  /\ UNCHANGED <<name, done, run>>

Next == Begin \/ Reject \/ Invoke \/ Fail \/ Succeed \/ Cancel

Spec == Init /\ [][Next]_vars
=============================================================================
