------------------------------ MODULE VmSession ------------------------------
(***************************************************************************)
(* What QemuVmBuilder promises its features (the class docstrings of       *)
(* core/tasks/qemu_builder.py): each one is set up before the VM is        *)
(* powered on, all of them are before it is, and each is torn down in the  *)
(* reverse order after the VM has gone, whatever became of the others.     *)
(***************************************************************************)
EXTENDS Naturals

CONSTANT NumFeatures      \* features of the builder, at positions 1, 2, ...

VARIABLES
  stage,    \* "acquire", "hold", "release" or "over"
  on,       \* whether the VM is powered on
  level,    \* features 1 .. level are set up and not yet torn down
  held      \* positions of the features that hold something of the host

sessionVars == <<stage, on, level, held>>

Init ==
  /\ stage = "acquire" /\ on = FALSE
  /\ level = 0 /\ held = {}

\* The next feature is set up.
Acquire ==
  /\ stage = "acquire" /\ level < NumFeatures
  /\ level' = level + 1
  /\ held' = held \cup {level'}
  /\ UNCHANGED <<stage, on>>

\* A feature fails to set up, and may keep something: the session is over.
GiveUp ==
  /\ stage = "acquire" /\ level < NumFeatures
  /\ stage' = "over"
  /\ held' \in {held, held \cup {level + 1}}
  /\ UNCHANGED <<on, level>>

Hold ==
  /\ stage = "acquire" /\ level = NumFeatures
  /\ stage' = "hold"
  /\ UNCHANGED <<on, level, held>>

PowerOn ==
  /\ stage = "hold" /\ ~on
  /\ on' = TRUE
  /\ UNCHANGED <<stage, level, held>>

PowerOff ==
  /\ on
  /\ on' = FALSE
  /\ UNCHANGED <<stage, level, held>>

Unhold ==
  /\ stage = "hold" /\ ~on
  /\ stage' = "release"
  /\ UNCHANGED <<on, level, held>>

\* The last feature not yet torn down is; it may fail to let go.
Release ==
  /\ stage = "release" /\ ~on /\ level > 0
  /\ level' = level - 1
  /\ held' \in {held, held \ {level}}
  /\ UNCHANGED <<stage, on>>

Finish ==
  /\ stage = "release" /\ level = 0
  /\ stage' = "over"
  /\ UNCHANGED <<on, level, held>>

Next == \/ Acquire \/ GiveUp \/ Hold \/ PowerOn
        \/ PowerOff \/ Unhold \/ Release \/ Finish

Spec == Init /\ [][Next]_sessionVars
=============================================================================
