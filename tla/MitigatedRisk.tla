---------------------------- MODULE MitigatedRisk ----------------------------
(***************************************************************************)
(* The risk register with real treatments: TreatmentLifecycle takes the    *)
(* place of the view RiskLifecycle has of them, and a cancelled treatment  *)
(* locks the risks it is linked to in the same transaction.                *)
(***************************************************************************)
EXTENDS TreatmentLifecycle, Scoring

CONSTANTS
  Risk, Objective, Impacts, Likelihoods, Strategies, GateFlags, Staffing,
  Ceilings, MaxDay, AcceptDays, MaxRenewals        \* of RiskLifecycle

VARIABLES risk, clinks, tlinks, ctl, today

mvars == <<treatment, approval, risk, clinks, tlinks, ctl, today>>

\* What the risk module reads of a treatment.
TreatmentView ==
  [t \in Treatment |->
     [lifecycle_state   |-> IF treatment[t].lifecycle_state \in {"Complete", "Cancelled"}
                            THEN treatment[t].lifecycle_state ELSE "Open",
      grc_eng_validated |-> GrcValidated(treatment[t]),
      owner_committed   |-> treatment[t].owner_committed]]

RL == INSTANCE RiskLifecycle WITH trt <- TreatmentView

ASSUME MitigatedAssumption == RL!RiskAssumption

Init ==
  /\ TreatmentInit
  /\ risk \in [Risk -> RL!NewRecord]
  /\ clinks = [r \in Risk |-> {}]
  /\ tlinks = [r \in Risk |-> {}]
  /\ ctl = [o \in Objective |->
       [lifecycle_state |-> "Building", ceiling |-> NoCE, assessed |-> FALSE]]
  /\ today = 0

-----------------------------------------------------------------------------
(* Steps                                                                   *)

\* A step of the register, the calendar, the jobs or the controls.  Only a
\* treatment that exists can be linked.
RegisterStep ==
  /\ UNCHANGED tvars
  /\ \/ \E r \in Risk : RL!Transition(r) \/ RL!Operation(r)
     \/ \E o \in Objective : RL!ControlStep(o)
     \/ RL!Tick
     \/ RL!Jobs
  /\ \A r \in Risk : \A t \in tlinks'[r] : Exists(t)

\* The cascade of treatment.cancelled: every linked risk is locked.
CancelledResponse(t) ==
  risk' = [r \in Risk |-> IF t \in tlinks[r] THEN RL!LockResidual(risk[r]) ELSE risk[r]]

\* The cascade of treatment.completed writes a stored gate flag no gate
\* reads, and notifies.
TreatmentStep ==
  /\ \/ \E t \in Treatment : Cancel(t) /\ CancelledResponse(t)
     \/ /\ \/ \E t \in Treatment :
                \/ Edit(t)
                \/ Complete(t)
                \/ \E actor \in Person : ValidateFeasibility(t, actor) \/ CommitOwner(t, actor)
           \/ \E a \in Approval : Request(a)
        /\ UNCHANGED risk
  /\ UNCHANGED <<clinks, tlinks, ctl, today>>

Next == RegisterStep \/ TreatmentStep

Spec == Init /\ [][Next]_mvars

-----------------------------------------------------------------------------
(* Properties that hold                                                    *)

\* The register with real treatments implements the abstract register: what
\* RiskLifecycle assumes of treatments is what the treatment module does.
ImplementsRegister == RL!Spec

\* Gate condition 1 of the residual gate, read end to end.  In the step that
\* takes a mitigated risk's lock off or starts its monitoring, every linked
\* treatment is delivered with a check-in on record, was validated and
\* committed to, and was approved by someone other than who asked.
ReleaseRestsOnDelivery ==
  [][\A r \in Risk :
       /\ risk[r].treatment_strategy = "Mitigate"
       /\ \/ risk[r].residual_score_locked /\ ~risk'[r].residual_score_locked
          \/ risk[r].lifecycle_state # "Monitoring" /\ risk'[r].lifecycle_state = "Monitoring"
       => /\ tlinks[r] # {}
          /\ \A t \in tlinks[r] :
               /\ treatment[t].lifecycle_state = "Complete"
               /\ treatment[t].checked_in
               /\ GrcValidated(treatment[t]) /\ treatment[t].owner_committed
               /\ \E a \in Approval :
                    /\ approval[a].treatment = t /\ approval[a].decision = "Approved"
                    /\ approval[a].decision_by # approval[a].requested_by]_mvars

\* RES-6 for treatments.  A step that abandons a treatment leaves every risk
\* linked to it on its inherent score, whatever phase the risk is in.
AbandonedTreatmentFreezes ==
  [][\A t \in Treatment, r \in Risk :
       /\ treatment[t].lifecycle_state # "Cancelled"
       /\ treatment'[t].lifecycle_state = "Cancelled"
       /\ t \in tlinks[r]
       => RL!Reported(risk'[r]) = risk[r].inherent]_mvars

=============================================================================
