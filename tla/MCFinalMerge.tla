---------------------------- MODULE MCFinalMerge ----------------------------
(* TLC instances of FinalMerge: see the MCFinalMerge*.cfg files. *)
EXTENDS FinalMerge, TLC

CONSTANT Older      \* a commit Base descends from

MCOthers == {Older}

\* A task's candidates are built one on top of the other, the first on the base.
MCAncestors ==
  [o \in Candidates \cup {Base, Older} |->
     IF o \in Candidates THEN {Older, Base} \cup {o[1]} \X (1 .. o[2] - 1)
     ELSE IF o = Base THEN {Older} ELSE {}]

\* Calls are interchangeable: Init treats them alike and no action compares them.
CallSymmetry == Permutations(Calls)

\* The locals of a call that is done are read by no step and no property.
LiveState ==
  <<task, approvals, journal, announced, repository, process, pc, busy, memory,
    [c \in Calls |-> IF pc[c] = "done" THEN 0 ELSE call[c]]>>
=============================================================================
