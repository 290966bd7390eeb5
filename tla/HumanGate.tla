----------------------------- MODULE HumanGate -----------------------------
(***************************************************************************)
(* What the training platform promises about human judgement, without its  *)
(* commands: a piece of work is handed in as a sequence of versions, each  *)
(* version is judged by a human at most once and only while it is the      *)
(* latest, the next one can be handed in only after that judgement, and    *)
(* the learner graduates at the judgement that leaves every piece of work  *)
(* approved.  FormalJourney implements it.                                 *)
(***************************************************************************)
EXTENDS Naturals

CONSTANTS
  Work,         \* the pieces of work there may be
  MaxVersions   \* bound of the model: versions of one piece of work

VARIABLES
  required,     \* those of this learner: the stages of a journey, or one task
  submitted,    \* the number of versions handed in
  verdict,      \* the judgement of each version
  graduated

vars == <<required, submitted, verdict, graduated>>

Verdicts == {"PASS", "REVISION_REQUIRED"}

TypeOK ==
  /\ required \subseteq Work
  /\ submitted \in [Work -> 0..MaxVersions]
  /\ verdict \in [Work -> [1..MaxVersions -> Verdicts \cup {"NONE"}]]
  /\ graduated \in BOOLEAN

Init ==
  /\ required \in SUBSET Work
  /\ submitted = [w \in Work |-> 0]
  /\ verdict = [w \in Work |-> [v \in 1..MaxVersions |-> "NONE"]]
  /\ graduated = FALSE

Judged(w) == submitted[w] > 0 => verdict[w][submitted[w]] # "NONE"

Submit(w) ==
  /\ submitted[w] < MaxVersions
  /\ Judged(w)
  /\ submitted' = [submitted EXCEPT ![w] = @ + 1]
  /\ UNCHANGED <<required, verdict, graduated>>

\* Every required piece of work has been handed in and its latest version is a PASS.
AllApproved(vd) ==
  \A w \in required : submitted[w] > 0 /\ vd[w][submitted[w]] = "PASS"

Judge(w, decision) ==
  /\ ~ Judged(w)
  /\ verdict' = [verdict EXCEPT ![w][submitted[w]] = decision]
  /\ graduated' \in {graduated, graduated \/ AllApproved(verdict')}
  /\ UNCHANGED <<required, submitted>>

Next ==
  \E w \in required :
    \/ Submit(w)
    \/ \E decision \in Verdicts : Judge(w, decision)

Spec == Init /\ [][Next]_vars
=============================================================================
