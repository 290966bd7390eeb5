---------------------------- MODULE MCWorkspace ----------------------------
(* Workspace for TLC: a learner with two devices, one page on each.         *)
EXTENDS Workspace, TLC, FiniteSets

\* A device and its page are named alike.
MCBrowser == [p \in Pages |-> p]

CheckAround == checks # {} \/ \E m \in wire : m.kind = "check" \/ \E p \in Pages : desk[p].state = "asking"

Quiet == server.stage /\ ~ CheckAround /\ mishaps = 0 /\ \A b \in Browsers : typing.last[b].body # 0

\* Bound: one document is checked at a time.  Two commands are on the way, or both pages
\* are open, only in a stage, while no check is around and nothing was lost or cleared;
\* and both pages are open only while no command of a page that was left is on the way.
FewAtATime ==
  /\ Cardinality(checks) <= 1 /\ Cardinality(wire) <= 2
  /\ Cardinality(wire) = 2 => Quiet
  /\ Cardinality({p \in Pages : Open(p)}) = 2 => Quiet /\ \A m \in wire : m.from # NoPage
  /\ CheckAround => server.stage
  /\ mishaps > 0 => server.edition = 1

\* The learner leaves one device before he opens the page on the other, and not before
\* the page has its answers.
OneDeviceAtATime ==
  /\ Cardinality({p \in Pages : Open(p)}) <= 1
  /\ \A m \in wire : m.from # NoPage

\* Once a check is stuck, the learner stays on the page and leaves the text as it is.
Stays == typing' = typing /\ \A p \in Pages : Open(p) => desk'[p].state # "closed"
PatientNext == WorkspaceNext /\ (abandoned # {} => Stays)
PatientSpec == WorkspaceInit /\ [][PatientNext]_workspaceVars /\ WorkspaceFairness
=============================================================================
