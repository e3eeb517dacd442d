------------------------- MODULE TreatmentLifecycle -------------------------
(***************************************************************************)
(* Treatments: the plan that mitigates a risk, validated by an engineer,   *)
(* committed to by its owner, approved by a third person, delivered and    *)
(* evidenced.  One action is one request.                                  *)
(*                                                                         *)
(* People matter here: the separation rules compare who asks, who decides  *)
(* and who delivers, and the owner of a record can be edited at any time.  *)
(***************************************************************************)
CONSTANTS
  Treatment,     \* treatment records
  Approval,      \* approval requests
  Person,        \* users
  Nobody,        \* an empty user column
  Engineers,     \* holders of GRC_Engineer, CISO or Admin
  Deliverers,    \* holders of Risk_Treatment_Owner or Admin
  RiskOwners,    \* holders of Risk_Owner
  Seniors,       \* holders of CISO or Admin
  Admins         \* holders of Admin

ASSUME TreatmentAssumption ==
  /\ Nobody \notin Person
  /\ Admins \subseteq Seniors /\ Seniors \subseteq Engineers
  /\ Engineers \cup Deliverers \cup RiskOwners \subseteq Person

VARIABLES
  treatment,   \* the treatment records
  approval     \* the approval requests raised against them

tvars == <<treatment, approval>>

Absent == "Absent"

TreatmentStates ==
  {"Proposed", "Validated", "Approved", "In_Progress", "Complete", "Cancelled"}

TreatmentRecord ==
  [lifecycle_state      : TreatmentStates \cup {Absent},
   treatment_owner_id   : Deliverers \cup {Nobody},
   grc_eng_validated_by : Person \cup {Nobody},
   owner_committed      : BOOLEAN,
   dated                : BOOLEAN,     \* target_date is set
   evidenced            : BOOLEAN,     \* evidence_ref is set
   checked_in           : BOOLEAN]     \* some check-in is recorded

\* "Unraised" is a request nobody has made yet; its columns are empty.
ApprovalRecord ==
  [decision     : {"Unraised", "Pending", "Approved", "Rejected"},
   treatment    : Treatment \cup {Nobody},
   requested_by : Person \cup {Nobody},
   assigned_to  : Person \cup {Nobody},
   reschedules  : BOOLEAN,             \* proposed_new_date is set
   decision_by  : Person \cup {Nobody}]

NewTreatment ==
  [lifecycle_state |-> Absent, treatment_owner_id |-> Nobody,
   grc_eng_validated_by |-> Nobody, owner_committed |-> FALSE,
   dated |-> FALSE, evidenced |-> FALSE, checked_in |-> FALSE]

NewApproval ==
  [decision |-> "Unraised", treatment |-> Nobody, requested_by |-> Nobody,
   assigned_to |-> Nobody, reschedules |-> FALSE, decision_by |-> Nobody]

\* RINV-16 at rest is part of the types: an owner holds the delivery role.
TreatmentTypeOK ==
  /\ treatment \in [Treatment -> TreatmentRecord]
  /\ approval \in [Approval -> ApprovalRecord]

TreatmentInit ==
  /\ treatment = [t \in Treatment |-> NewTreatment]
  /\ approval = [a \in Approval |-> NewApproval]

-----------------------------------------------------------------------------
(* Writes                                                                  *)

Exists(t) == treatment[t].lifecycle_state # Absent

\* Slip: any user may be named.
RINV16AnyUser(x) == x.treatment_owner_id \in Person \cup {Nobody}

\* RINV-16, enforced on every write: who is named as owner holds the role.
RINV16(x) == x.treatment_owner_id \in Deliverers \cup {Nobody}

StoreTreatment(t, x) ==
  /\ treatment' = [treatment EXCEPT ![t] = x]
  /\ RINV16(x)
  /\ UNCHANGED approval

\* The engineer's validation; the code keeps a flag beside the name and
\* sets both together.
GrcValidated(x) == x.grc_eng_validated_by # Nobody

\* Any decided approval counts, whatever it was raised for.
ApprovedFor(t) ==
  \E a \in Approval : approval[a].treatment = t /\ approval[a].decision = "Approved"

-----------------------------------------------------------------------------
(* Operations of the treatment service                                     *)

CreateTreatment(t, owner, dated) ==
  /\ ~Exists(t)
  /\ StoreTreatment(t, [treatment[t] EXCEPT !.lifecycle_state = "Proposed",
                                            !.treatment_owner_id = owner,
                                            !.dated = dated])

\* An edit: owner, target date and evidence, in any lifecycle state.
UpdateTreatment(t, owner, dated, evidenced) ==
  /\ Exists(t)
  /\ StoreTreatment(t, [treatment[t] EXCEPT !.treatment_owner_id = owner,
                                            !.dated = dated,
                                            !.evidenced = evidenced])

ValidateFeasibility(t, actor) ==
  /\ Exists(t)
  /\ actor \in Engineers
  /\ actor # treatment[t].treatment_owner_id
  /\ StoreTreatment(t, [treatment[t] EXCEPT !.grc_eng_validated_by = actor])

CommitOwner(t, actor) ==
  /\ Exists(t)
  /\ treatment[t].treatment_owner_id # Nobody
  /\ actor = treatment[t].treatment_owner_id \/ actor \in Admins
  /\ StoreTreatment(t, [treatment[t] EXCEPT !.owner_committed = TRUE])

\* Check-ins and approvals bypass the enforced write.
AddCheckin(t) ==
  /\ Exists(t)
  /\ treatment' = [treatment EXCEPT ![t].checked_in = TRUE]
  /\ UNCHANGED approval

RequestApproval(a, t, actor, assignee, reschedules) ==
  /\ Exists(t)
  /\ approval[a].decision = "Unraised"
  /\ approval' = [approval EXCEPT ![a] =
       [decision |-> "Pending", treatment |-> t, requested_by |-> actor,
        assigned_to |-> assignee, reschedules |-> reschedules,
        decision_by |-> Nobody]]
  /\ UNCHANGED treatment

\* Slip: an assigned request is decided by its assignee, whoever asked.
MayDecideAssigned(a, actor) ==
  /\ actor # treatment[approval[a].treatment].treatment_owner_id
  /\ IF approval[a].assigned_to # Nobody
     THEN actor = approval[a].assigned_to \/ actor \in Seniors
     ELSE /\ actor # approval[a].requested_by
          /\ actor \in Seniors \cup RiskOwners

\* SEP-4, SEP-2, and whom a request is decided by.
MayDecide(a, actor) ==
  /\ actor # approval[a].requested_by
  /\ actor # treatment[approval[a].treatment].treatment_owner_id
  /\ IF approval[a].assigned_to # Nobody
     THEN actor = approval[a].assigned_to \/ actor \in Seniors
     ELSE actor \in Seniors \cup RiskOwners

\* An approved request for another date sets it.
DecideApproval(a, actor, decision) ==
  /\ approval[a].decision = "Pending"
  /\ MayDecide(a, actor)
  /\ approval' = [approval EXCEPT ![a].decision = decision, ![a].decision_by = actor]
  /\ treatment' = [treatment EXCEPT ![approval[a].treatment].dated =
       @ \/ (decision = "Approved" /\ approval[a].reschedules)]

-----------------------------------------------------------------------------
(* Transitions                                                             *)

\* GATE_TREATMENT_VALIDATED
Validate(t) ==
  /\ treatment[t].lifecycle_state = "Proposed"
  /\ GrcValidated(treatment[t])
  /\ treatment[t].grc_eng_validated_by # treatment[t].treatment_owner_id
  /\ treatment[t].treatment_owner_id # Nobody
  /\ StoreTreatment(t, [treatment[t] EXCEPT !.lifecycle_state = "Validated"])

\* Slip: the recorded decision is not asked for.
ApproveUndecided(t) ==
  /\ treatment[t].lifecycle_state = "Validated"
  /\ treatment[t].owner_committed
  /\ treatment[t].dated
  /\ StoreTreatment(t, [treatment[t] EXCEPT !.lifecycle_state = "Approved"])

\* Slip: the commitment is left to the start of the work.
ApproveUncommitted(t) ==
  /\ treatment[t].lifecycle_state = "Validated"
  /\ treatment[t].dated
  /\ ApprovedFor(t)
  /\ StoreTreatment(t, [treatment[t] EXCEPT !.lifecycle_state = "Approved"])

\* GATE_TREATMENT_APPROVED
Approve(t) ==
  /\ treatment[t].lifecycle_state = "Validated"
  /\ treatment[t].owner_committed
  /\ treatment[t].dated
  /\ ApprovedFor(t)
  /\ StoreTreatment(t, [treatment[t] EXCEPT !.lifecycle_state = "Approved"])

\* GATE_TREATMENT_STARTED
Start(t) ==
  /\ treatment[t].lifecycle_state = "Approved"
  /\ StoreTreatment(t, [treatment[t] EXCEPT !.lifecycle_state = "In_Progress"])

\* GATE_TREATMENT_COMPLETE
Complete(t) ==
  /\ treatment[t].lifecycle_state = "In_Progress"
  /\ treatment[t].evidenced
  /\ treatment[t].checked_in
  /\ StoreTreatment(t, [treatment[t] EXCEPT !.lifecycle_state = "Complete"])

\* GATE_TREATMENT_CANCELLED, from any state but Complete, a cancelled one
\* included: the cascade then runs again.
Cancel(t) ==
  /\ Exists(t)
  /\ treatment[t].lifecycle_state # "Complete"
  /\ StoreTreatment(t, [treatment[t] EXCEPT !.lifecycle_state = "Cancelled"])

-----------------------------------------------------------------------------
(* The specification                                                       *)

Edit(t) ==
  \/ \E owner \in Person \cup {Nobody}, dated \in BOOLEAN :
       \/ CreateTreatment(t, owner, dated)
       \/ \E evidenced \in BOOLEAN : UpdateTreatment(t, owner, dated, evidenced)
  \/ AddCheckin(t)
  \/ Validate(t)
  \/ Approve(t)
  \/ Start(t)

Request(a) ==
  \/ \E t \in Treatment, actor \in Person, assignee \in Person \cup {Nobody},
        reschedules \in BOOLEAN : RequestApproval(a, t, actor, assignee, reschedules)
  \/ \E actor \in Person, decision \in {"Approved", "Rejected"} :
       DecideApproval(a, actor, decision)

TreatmentNext ==
  \/ \E t \in Treatment :
       \/ Edit(t)
       \/ Complete(t)
       \/ Cancel(t)
       \/ \E actor \in Person : ValidateFeasibility(t, actor) \/ CommitOwner(t, actor)
  \/ \E a \in Approval : Request(a)

TreatmentSpec == TreatmentInit /\ [][TreatmentNext]_tvars

-----------------------------------------------------------------------------
(* Properties that hold                                                    *)

Agreed == {"Approved", "In_Progress", "Complete"}

\* RINV-12 and SEP-4 at rest.  Whatever was edited, reassigned or asked for
\* again since, a treatment that is approved or beyond was validated, was
\* committed to, and was approved by someone who did not ask for it.
DeliveryIsAgreed ==
  \A t \in Treatment : treatment[t].lifecycle_state \in Agreed =>
    /\ GrcValidated(treatment[t]) /\ treatment[t].owner_committed
    /\ \E a \in Approval :
         /\ approval[a].treatment = t /\ approval[a].decision = "Approved"
         /\ approval[a].decision_by \in Person \ {approval[a].requested_by}

\* The engine's contract: every write moves a treatment along the declared
\* machine, and a treatment that is complete or cancelled stays so.
Engine ==
  INSTANCE LifecycleEngine WITH
    Entity    <- Treatment,
    Initial   <- "Proposed",
    States    <- TreatmentStates,
    Terminal  <- {"Complete", "Cancelled"},
    Edges     <- {<<"Proposed", "Validated">>, <<"Validated", "Approved">>,
                  <<"Approved", "In_Progress">>, <<"In_Progress", "Complete">>},
    Wildcards <- {"Cancelled"},
    state     <- [t \in Treatment |-> treatment[t].lifecycle_state]

FollowsTreatmentMachine == Engine!Spec

=============================================================================
