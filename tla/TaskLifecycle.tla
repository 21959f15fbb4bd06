--------------------------- MODULE TaskLifecycle ----------------------------
(***************************************************************************)
(* The lifecycle of an execution-graph task (src/exec-graph/transitions.ts *)
(* and the cross-field rules of contracts.ts): what every module that      *)
(* moves tasks shares.                                                     *)
(***************************************************************************)

Status ==
    {"proposed", "accepted", "planned", "delegated", "in-progress", "blocked",
     "evidence-submitted", "verified", "rejected", "closed", "escalated"}

LegalTransitions ==
    [s \in Status |->
        CASE s = "proposed" -> {"accepted", "rejected", "escalated"}
          [] s = "accepted" -> {"planned", "escalated"}
          [] s = "planned" -> {"delegated", "in-progress", "escalated"}
          [] s = "delegated" -> {"in-progress", "blocked", "escalated"}
          [] s = "in-progress" -> {"blocked", "evidence-submitted", "escalated"}
          [] s = "blocked" -> {"in-progress", "rejected", "escalated"}
          [] s = "evidence-submitted" -> {"verified", "rejected", "escalated"}
          [] s = "verified" -> {"closed", "escalated"}
          [] s = "rejected" -> {"closed", "proposed", "escalated"}
          [] s = "escalated" -> {"accepted", "rejected", "blocked", "in-progress"}
          [] s = "closed" -> {}]

EscalationExitActors == {"ceo", "external-cto"}

\* Statuses only the verifier port may set.
FinalStatus == {"verified", "rejected"}

\* Statuses a task may rest in only with at least one evidence entry.
EvidenceStatus == {"verified", "closed"}

\* Transitions that must cite evidence themselves.
CitingStatus == {"verified", "evidence-submitted"}

\* An edge of the lifecycle, taken by an actor who may take it.
LegalEdge(from, to, actor) ==
    /\ to \in LegalTransitions[from]
    /\ from = "escalated" => actor \in EscalationExitActors

\* Mutant: whoever calls may take a task out of 'escalated'.
MayMoveByAnyone(from, to, actor, cites, backed) ==
    /\ to \in LegalTransitions[from]
    /\ to \in CitingStatus => cites
    /\ to \in EvidenceStatus => backed

\* Mutant: resting in 'verified' or 'closed' asks for no evidence.
MayMoveUnbacked(from, to, actor, cites, backed) ==
    /\ LegalEdge(from, to, actor)
    /\ to \in CitingStatus => cites

\* applyTransition: `cites' says whether the transition cites evidence,
\* `backed' whether the task has any.
MayMove(from, to, actor, cites, backed) ==
    /\ LegalEdge(from, to, actor)
    /\ to \in CitingStatus => cites
    /\ to \in EvidenceStatus => backed
=============================================================================
