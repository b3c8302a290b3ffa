-------------------------- MODULE PublishedTarget --------------------------
(***************************************************************************)
(* What the final merge promises, whatever crashes, retries and revisions  *)
(* happen on the way: the application only ever moves the target ref to a  *)
(* candidate a human approved, and only from the base commit or forward to *)
(* a descendant of what it held; a task is completed only after the target *)
(* held one of its candidates, and a closed task stays closed.  FinalMerge *)
(* implements this specification.                                          *)
(***************************************************************************)
EXTENDS Naturals

CONSTANTS
  Tasks, Base,
  Others,       \* the commits that are neither Base nor a candidate
  Versions,     \* a task's candidates are numbered
  Ancestors     \* the commits each commit descends from

\* The commits that can be published, and those of a task.
Owned(t) == {t} \X Versions
Candidates == Tasks \X Versions

VARIABLES
  target,     \* the target ref
  granted,    \* the candidates a human has approved
  published,  \* the candidates the application has moved the target to
  landed,     \* the candidates the target has held, whoever moved it
  phase       \* "open", "completed" or "closed" (cancelled or failed) for each task
vars == <<target, granted, published, landed, phase>>

Init ==
  /\ target = Base /\ granted = {} /\ published = {} /\ landed = {}
  /\ phase = [t \in Tasks |-> "open"]

Grant(o) ==
  /\ granted' = granted \cup {o}
  /\ UNCHANGED <<target, published, landed, phase>>

\* Nothing the target held is lost, unless it held the base.
Land(o) ==
  /\ target = Base \/ target \in Ancestors[o]
  /\ o \in granted
  /\ target' = o /\ published' = published \cup {o} /\ landed' = landed \cup {o}
  /\ UNCHANGED <<granted, phase>>

\* The user's own git commands.
Drift(o) ==
  /\ target' = o /\ landed' = landed \cup ({o} \cap Candidates)
  /\ UNCHANGED <<granted, published, phase>>

Complete(t) ==
  /\ phase[t] = "open" /\ Owned(t) \cap landed # {}
  /\ phase' = [phase EXCEPT ![t] = "completed"]
  /\ UNCHANGED <<target, granted, published, landed>>

Close(t) ==
  /\ phase[t] = "open"
  /\ phase' = [phase EXCEPT ![t] = "closed"]
  /\ UNCHANGED <<target, granted, published, landed>>

Next ==
  \/ \E o \in Candidates : Grant(o) \/ Land(o)
  \/ \E o \in Candidates \cup {Base} \cup Others : Drift(o)
  \/ \E t \in Tasks : Complete(t) \/ Close(t)

Spec == Init /\ [][Next]_vars
=============================================================================
