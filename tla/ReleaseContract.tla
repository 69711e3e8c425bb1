--------------------------- MODULE ReleaseContract ---------------------------
(***************************************************************************)
(* What spec.md 4.7 and 5 promise of release(version), as one atomic      *)
(* outcome per invocation:                                                 *)
(*   Ok               the version is three ASCII integers, the tree is     *)
(*                    clean, and v{version} exists locally and on origin;  *)
(*   InvalidVersion,  nothing changes;                                     *)
(*   DirtyWorkingTree                                                      *)
(*   GitError         version valid and tree clean, the tag may have been  *)
(*                    created locally, origin is untouched;                *)
(*   cancelled        (spec.md 5) exit 130; no rollback: the tag may exist *)
(*                    locally and on origin, but only for a valid version  *)
(*                    and a clean tree.                                    *)
(* No outcome touches a ref other than v{version}.  Between invocations   *)
(* the user edits or commits.                                              *)
(***************************************************************************)
EXTENDS Integers, Sequences

CONSTANTS
  Versions,     \* argv[1] values a user may pass
  NoArg,        \* no (or more than one) argument
  AsciiDigits   \* the digits of the spec's pattern

VARIABLES status, version, dirty, local, remote, exitCode

vars == <<status, version, dirty, local, remote, exitCode>>

\* The spec's pattern \d+\.\d+\.\d+ over ASCII digits, nothing else.
AsciiNumber(s) == s # <<>> /\ \A i \in DOMAIN s : s[i] \in AsciiDigits

SpecSemver(s) ==
  \E i, j \in DOMAIN s :
    /\ i < j /\ s[i] = "." /\ s[j] = "."
    /\ AsciiNumber(SubSeq(s, 1, i - 1))
    /\ AsciiNumber(SubSeq(s, i + 1, j - 1))
    /\ AsciiNumber(SubSeq(s, j + 1, Len(s)))

Tag == <<"v">> \o version

\* A release may change refs only for a valid version on a clean tree.
MayTag == version # NoArg /\ SpecSemver(version) /\ ~dirty

End(s, code) == status' = s /\ exitCode' = code

Init ==
  /\ status = "idle"
  /\ version = NoArg
  /\ dirty \in BOOLEAN
  /\ local = {} /\ remote = {}
  /\ exitCode = 0

Edit ==
  /\ status # "running"
  /\ dirty' = ~dirty
  /\ UNCHANGED <<status, version, local, remote, exitCode>>

Begin ==
  /\ status # "running"
  /\ \E v \in Versions \cup {NoArg} : version' = v
  /\ status' = "running"
  /\ UNCHANGED <<dirty, local, remote, exitCode>>

Reject ==
  /\ status = "running"
  /\ \/ version = NoArg /\ End("usage", 1)
     \/ version # NoArg /\ ~SpecSemver(version) /\ End("invalid_version", 1)
     \/ version # NoArg /\ dirty /\ End("dirty", 1)
  /\ UNCHANGED <<version, dirty, local, remote>>

Release ==
  /\ status = "running" /\ MayTag
  /\ local' = local \cup {Tag} /\ remote' = remote \cup {Tag}
  /\ End("ok", 0)
  /\ UNCHANGED <<version, dirty>>

GitError ==
  /\ status = "running" /\ MayTag
  /\ local' \in {local, local \cup {Tag}} /\ remote' = remote
  /\ End("git_error", 1)
  /\ UNCHANGED <<version, dirty>>

Cancel ==
  /\ status = "running"
  /\ \/ UNCHANGED <<local, remote>>
     \/ /\ MayTag
        /\ local' = local \cup {Tag}
        /\ remote' \in {remote, remote \cup {Tag}}
  /\ End("interrupted", 130)
  /\ UNCHANGED <<version, dirty>>

Next == Edit \/ Begin \/ Reject \/ Release \/ GitError \/ Cancel

Spec == Init /\ [][Next]_vars

\* spec.md 5: every git command blocks until it exits, and each outcome ends
\* the invocation: a started release always ends with an exit status.
Terminates == (status = "running") ~> (status # "running")
=============================================================================
