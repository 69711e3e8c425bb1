--------------------------- MODULE LifecyclePlan ---------------------------
(***************************************************************************)
(* The LifecyclePlan of spec.md 3: the ordered phases one run performs.    *)
(* Clean comes first when requested, Test last when requested, Configure   *)
(* and Build are always present; a fan-out repeats the whole lifecycle of  *)
(* each target in a fixed order.                                           *)
(***************************************************************************)
EXTENDS Sequences, SequencesExt

Phases == {"clean", "configure", "build", "test"}

TargetPlan(t, clean, test) ==
     (IF clean THEN <<[target |-> t, phase |-> "clean"]>> ELSE <<>>)
  \o <<[target |-> t, phase |-> "configure"], [target |-> t, phase |-> "build"]>>
  \o (IF test THEN <<[target |-> t, phase |-> "test"]>> ELSE <<>>)

FanOutPlan(targets, clean, test) ==
  FlattenSeq([i \in DOMAIN targets |-> TargetPlan(targets[i], clean, test)])
=============================================================================
