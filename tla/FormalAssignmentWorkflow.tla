---------------------- MODULE FormalAssignmentWorkflow ----------------------
(***************************************************************************)
(* The status language of a formal Assignment and its transition table     *)
(* (formal_assignment_workflow.py).  Every command of the API that moves   *)
(* an Assignment either goes through transition_formal_assignment, which   *)
(* looks the pair (status, event) up in _TRANSITIONS, or is one of the two *)
(* evidence-revision commands, which write the status themselves.          *)
(***************************************************************************)

AssignmentStatus ==
  {"AVAILABLE", "IN_PROGRESS", "SUBMITTED", "IN_REVIEW", "NEEDS_REVISION",
   "COMPLETED", "CANCELLED"}

\* _TRANSITIONS: current status, event, next status, the only actor kind allowed.
Transitions ==
  { <<"AVAILABLE",      "START",            "IN_PROGRESS",    "LEARNER">>,
    <<"IN_PROGRESS",    "SUBMIT",           "SUBMITTED",      "LEARNER">>,
    <<"SUBMITTED",      "START_REVIEW",     "IN_REVIEW",      "ASSIGNED_REVIEWER">>,
    <<"IN_REVIEW",      "REQUEST_REVISION", "NEEDS_REVISION", "ASSIGNED_REVIEWER">>,
    <<"NEEDS_REVISION", "RESUBMIT",         "SUBMITTED",      "LEARNER">>,
    <<"IN_REVIEW",      "PASS",             "COMPLETED",      "ASSIGNED_REVIEWER">>,
    <<"AVAILABLE",      "CANCEL",           "CANCELLED",      "MODULE_OPERATOR">>,
    <<"IN_PROGRESS",    "CANCEL",           "CANCELLED",      "MODULE_OPERATOR">> }

\* transition_formal_assignment: the event is accepted from `current` for an
\* actor of this kind and leads to `target`; any other combination is refused.
Transition(current, event, actor, target) ==
  <<current, event, target, actor>> \in Transitions
=============================================================================
