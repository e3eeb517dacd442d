-------------------------- MODULE MitigatedRisk_proofs --------------------------
(***************************************************************************)
(* The register with real treatments implements the register of the module *)
(* RiskLifecycle, and what a released residual score rests on, for any     *)
(* number of treatments, approvals, people and risks.                      *)
(***************************************************************************)
EXTENDS MitigatedRisk, TLAPS

(* A treatment's state is backed by what its gates asked for, and stays    *)
(* so whatever is edited later.                                            *)
Backed(x) ==
  /\ x.lifecycle_state \in Agreed \cup {"Validated"} => GrcValidated(x)
  /\ x.lifecycle_state \in Agreed => x.owner_committed
  /\ x.lifecycle_state = "Complete" => x.checked_in

\* A raised request is for a treatment; a decided one was decided by someone
\* who did not ask for it.
Decided(y) ==
  /\ y.decision # "Unraised" => y.treatment \in Treatment
  /\ y.decision = "Approved" => y.decision_by \in Person \ {y.requested_by}

TInv ==
  /\ TreatmentTypeOK
  /\ \A t \in Treatment : Backed(treatment[t])
  /\ \A a \in Approval : Decided(approval[a])
  /\ \A t \in Treatment : treatment[t].lifecycle_state \in Agreed => ApprovedFor(t)

LEMMA AgreedIsAgreed == TInv => DeliveryIsAgreed
  BY DEF TInv, DeliveryIsAgreed, Backed, Decided, ApprovedFor

-----------------------------------------------------------------------------
(* The treatment module keeps its invariant                                *)

\* A write of one treatment whose new record is typed and backed.
LEMMA WriteKeeps ==
  ASSUME TInv, NEW t \in Treatment, NEW x \in TreatmentRecord, Backed(x),
         x.lifecycle_state \in Agreed => ApprovedFor(t),
         treatment' = [treatment EXCEPT ![t] = x], UNCHANGED approval
  PROVE  TInv'
<1>1. TreatmentTypeOK'
  BY DEF TInv, TreatmentTypeOK
<1>2. ASSUME NEW u \in Treatment
      PROVE  /\ Backed(treatment'[u])
             /\ treatment'[u].lifecycle_state \in Agreed => ApprovedFor(u)
  BY DEF TInv, TreatmentTypeOK
<1>3. \A u \in Treatment : ApprovedFor(u)' <=> ApprovedFor(u)
  BY DEF ApprovedFor
<1> QED
  BY <1>1, <1>2, <1>3 DEF TInv

\* The request touches nothing the record's gates asked for.
LEMMA EditKeeps ==
  ASSUME TInv, NEW t \in Treatment, NEW x \in TreatmentRecord,
         x.lifecycle_state = treatment[t].lifecycle_state,
         GrcValidated(treatment[t]) => GrcValidated(x),
         treatment[t].owner_committed => x.owner_committed,
         treatment[t].checked_in => x.checked_in,
         treatment' = [treatment EXCEPT ![t] = x], UNCHANGED approval
  PROVE  TInv'
<1>1. Backed(x) /\ (x.lifecycle_state \in Agreed => ApprovedFor(t))
  BY DEF TInv, Backed
<1> QED
  BY <1>1, WriteKeeps

LEMMA EditsKeep ==
  ASSUME TInv, NEW t \in Treatment, NEW owner, NEW dated \in BOOLEAN, NEW evidenced \in BOOLEAN,
         CreateTreatment(t, owner, dated) \/ UpdateTreatment(t, owner, dated, evidenced)
  PROVE  TInv'
<1> DEFINE x == treatment[t]
<1>0. x \in TreatmentRecord
  BY DEF TInv, TreatmentTypeOK
<1>1. CASE CreateTreatment(t, owner, dated)
  <2> DEFINE y == [x EXCEPT !.lifecycle_state = "Proposed", !.treatment_owner_id = owner,
                            !.dated = dated]
  <2>1. treatment' = [treatment EXCEPT ![t] = y] /\ RINV16(y) /\ UNCHANGED approval
    BY <1>1 DEF CreateTreatment, StoreTreatment
  <2>2. y.treatment_owner_id = owner
    BY <1>0 DEF TreatmentRecord
  <2>3. y \in TreatmentRecord /\ y.lifecycle_state = "Proposed"
    BY <1>0, <2>1, <2>2 DEF RINV16, TreatmentRecord, TreatmentStates
  <2> HIDE DEF y
  <2>4. Backed(y) /\ y.lifecycle_state \notin Agreed
    BY <2>3 DEF Backed, Agreed
  <2> QED
    BY <2>1, <2>3, <2>4, WriteKeeps
<1>2. CASE UpdateTreatment(t, owner, dated, evidenced)
  <2> DEFINE y == [x EXCEPT !.treatment_owner_id = owner, !.dated = dated,
                            !.evidenced = evidenced]
  <2>1. treatment' = [treatment EXCEPT ![t] = y] /\ RINV16(y) /\ UNCHANGED approval
    BY <1>2 DEF UpdateTreatment, StoreTreatment
  <2>2. y.treatment_owner_id = owner
    BY <1>0 DEF TreatmentRecord
  <2>3. /\ y \in TreatmentRecord
        /\ y.lifecycle_state = x.lifecycle_state
        /\ y.grc_eng_validated_by = x.grc_eng_validated_by
        /\ y.owner_committed = x.owner_committed
        /\ y.checked_in = x.checked_in
    BY <1>0, <2>1, <2>2 DEF RINV16, TreatmentRecord, TreatmentStates
  <2> HIDE DEF y
  <2> QED
    BY <2>1, <2>3, EditKeeps DEF GrcValidated
<1> QED
  BY <1>1, <1>2

LEMMA SignaturesKeep ==
  ASSUME TInv, NEW t \in Treatment, NEW actor \in Person,
         ValidateFeasibility(t, actor) \/ CommitOwner(t, actor)
  PROVE  TInv'
<1> DEFINE x == treatment[t]
<1>0. x \in TreatmentRecord /\ actor # Nobody
  BY TreatmentAssumption DEF TInv, TreatmentTypeOK
<1>1. CASE ValidateFeasibility(t, actor)
  <2> DEFINE y == [x EXCEPT !.grc_eng_validated_by = actor]
  <2>1. treatment' = [treatment EXCEPT ![t] = y] /\ UNCHANGED approval
    BY <1>1 DEF ValidateFeasibility, StoreTreatment
  <2>2. /\ y \in TreatmentRecord
        /\ y.lifecycle_state = x.lifecycle_state
        /\ GrcValidated(y)
        /\ y.owner_committed = x.owner_committed
        /\ y.checked_in = x.checked_in
    BY <1>0 DEF GrcValidated, TreatmentRecord
  <2> HIDE DEF y
  <2> QED
    BY <2>1, <2>2, EditKeeps
<1>2. CASE CommitOwner(t, actor)
  <2> DEFINE y == [x EXCEPT !.owner_committed = TRUE]
  <2>1. treatment' = [treatment EXCEPT ![t] = y] /\ UNCHANGED approval
    BY <1>2 DEF CommitOwner, StoreTreatment
  <2>2. /\ y \in TreatmentRecord
        /\ y.lifecycle_state = x.lifecycle_state
        /\ y.grc_eng_validated_by = x.grc_eng_validated_by
        /\ y.owner_committed
        /\ y.checked_in = x.checked_in
    BY <1>0 DEF TreatmentRecord
  <2> HIDE DEF y
  <2> QED
    BY <2>1, <2>2, EditKeeps DEF GrcValidated
<1> QED
  BY <1>1, <1>2

LEMMA CheckinKeeps ==
  ASSUME TInv, NEW t \in Treatment, AddCheckin(t)
  PROVE  TInv'
<1> DEFINE x == treatment[t]
           y == [x EXCEPT !.checked_in = TRUE]
<1>1. treatment' = [treatment EXCEPT ![t] = y] /\ UNCHANGED approval
  BY DEF AddCheckin
<1>2. x \in TreatmentRecord
  BY DEF TInv, TreatmentTypeOK
<1>3. /\ y \in TreatmentRecord
      /\ y.lifecycle_state = x.lifecycle_state
      /\ y.grc_eng_validated_by = x.grc_eng_validated_by
      /\ y.owner_committed = x.owner_committed
      /\ y.checked_in
  BY <1>2 DEF TreatmentRecord
<1> HIDE DEF y
<1> QED
  BY <1>1, <1>3, EditKeeps DEF GrcValidated

\* The transitions: each gate asks for what the next state promises.
LEMMA MovesKeep ==
  ASSUME TInv, NEW t \in Treatment,
         Validate(t) \/ Approve(t) \/ Start(t) \/ Complete(t) \/ Cancel(t)
  PROVE  TInv'
<1> DEFINE x == treatment[t]
           y(s) == [x EXCEPT !.lifecycle_state = s]
<1>0. x \in TreatmentRecord /\ Backed(x)
      /\ (x.lifecycle_state \in Agreed => ApprovedFor(t))
  BY DEF TInv, TreatmentTypeOK
<1>1. ASSUME NEW s \in TreatmentStates
      PROVE  /\ y(s) \in TreatmentRecord
             /\ y(s).lifecycle_state = s
             /\ y(s).grc_eng_validated_by = x.grc_eng_validated_by
             /\ y(s).owner_committed = x.owner_committed
             /\ y(s).checked_in = x.checked_in
  BY <1>0 DEF TreatmentRecord
<1>2. ASSUME NEW s \in TreatmentStates, treatment' = [treatment EXCEPT ![t] = y(s)],
             UNCHANGED approval,
             s \in Agreed \cup {"Validated"} => GrcValidated(x),
             s \in Agreed => x.owner_committed /\ ApprovedFor(t),
             s = "Complete" => x.checked_in
      PROVE  TInv'
  <2> HIDE DEF y
  <2>1. Backed(y(s)) /\ (y(s).lifecycle_state \in Agreed => ApprovedFor(t))
    BY <1>1, <1>2 DEF Backed, GrcValidated
  <2> QED
    BY <1>1, <1>2, <2>1, WriteKeeps
<1>3. CASE Validate(t)
  BY <1>2, <1>3 DEF Validate, StoreTreatment, TreatmentStates, Agreed
<1>4. CASE Approve(t)
  BY <1>0, <1>2, <1>4 DEF Approve, StoreTreatment, TreatmentStates, Agreed, Backed
<1>5. CASE Start(t)
  BY <1>0, <1>2, <1>5 DEF Start, StoreTreatment, TreatmentStates, Agreed, Backed
<1>6. CASE Complete(t)
  BY <1>0, <1>2, <1>6 DEF Complete, StoreTreatment, TreatmentStates, Agreed, Backed
<1>7. CASE Cancel(t)
  BY <1>2, <1>7 DEF Cancel, StoreTreatment, TreatmentStates, Agreed
<1> QED
  BY <1>3, <1>4, <1>5, <1>6, <1>7

\* Requests never disturb a decision that was taken.
LEMMA RequestsKeep ==
  ASSUME TInv, NEW a \in Approval, Request(a)
  PROVE  TInv'
<1> DEFINE y == approval[a]
<1>0. y \in ApprovalRecord /\ Decided(y)
  BY DEF TInv, TreatmentTypeOK
<1>1. ASSUME NEW z \in ApprovalRecord, Decided(z), y.decision # "Approved",
             approval' = [approval EXCEPT ![a] = z]
      PROVE  /\ approval' \in [Approval -> ApprovalRecord]
             /\ \A b \in Approval : Decided(approval'[b])
             /\ \A t \in Treatment : ApprovedFor(t) => ApprovedFor(t)'
  BY <1>1 DEF TInv, TreatmentTypeOK, ApprovedFor
<1>2. ASSUME NEW t \in Treatment, NEW actor \in Person, NEW assignee \in Person \cup {Nobody},
             NEW reschedules \in BOOLEAN, RequestApproval(a, t, actor, assignee, reschedules)
      PROVE  TInv'
  <2> DEFINE z == [decision |-> "Pending", treatment |-> t, requested_by |-> actor,
                   assigned_to |-> assignee, reschedules |-> reschedules,
                   decision_by |-> Nobody]
  <2>1. z \in ApprovalRecord /\ Decided(z)
    BY DEF ApprovalRecord, Decided
  <2>2. approval' = [approval EXCEPT ![a] = z] /\ UNCHANGED treatment /\ y.decision # "Approved"
    BY <1>2 DEF RequestApproval
  <2> HIDE DEF z
  <2> QED
    BY <1>1, <2>1, <2>2 DEF TInv, TreatmentTypeOK
<1>3. ASSUME NEW actor \in Person, NEW decision \in {"Approved", "Rejected"},
             DecideApproval(a, actor, decision)
      PROVE  TInv'
  <2> DEFINE z == [y EXCEPT !.decision = decision, !.decision_by = actor]
             u == y.treatment
             w == [treatment[u] EXCEPT !.dated = @ \/ (decision = "Approved" /\ y.reschedules)]
  <2>1. /\ y.decision = "Pending" /\ u \in Treatment /\ actor # y.requested_by
        /\ approval' = [approval EXCEPT ![a] = z]
        /\ treatment' = [treatment EXCEPT ![u] = w]
    BY <1>0, <1>3 DEF DecideApproval, MayDecide, Decided
  <2>2. z \in ApprovalRecord
    BY <1>0 DEF ApprovalRecord
  <2>3. z.requested_by = y.requested_by /\ z.decision_by = actor /\ z.treatment = u
    BY <1>0 DEF ApprovalRecord
  <2>4. Decided(z)
    BY <2>1, <2>3 DEF Decided
  <2>5. /\ w \in TreatmentRecord
        /\ w.lifecycle_state = treatment[u].lifecycle_state
        /\ w.grc_eng_validated_by = treatment[u].grc_eng_validated_by
        /\ w.owner_committed = treatment[u].owner_committed
        /\ w.checked_in = treatment[u].checked_in
    <3>1. ASSUME NEW x \in TreatmentRecord, NEW d \in BOOLEAN
          PROVE  LET v == [x EXCEPT !.dated = @ \/ d]
                 IN  /\ v \in TreatmentRecord
                     /\ v.lifecycle_state = x.lifecycle_state
                     /\ v.grc_eng_validated_by = x.grc_eng_validated_by
                     /\ v.owner_committed = x.owner_committed
                     /\ v.checked_in = x.checked_in
      BY DEF TreatmentRecord
    <3>2. treatment[u] \in TreatmentRecord
      BY <2>1 DEF TInv, TreatmentTypeOK
    <3>3. (decision = "Approved" /\ y.reschedules) \in BOOLEAN
      OBVIOUS
    <3> QED
      BY <3>1, <3>2, <3>3
  <2> HIDE DEF z, w
  <2>6. \A t \in Treatment : /\ treatment'[t] \in TreatmentRecord
                             /\ Backed(treatment'[t])
                             /\ treatment'[t].lifecycle_state = treatment[t].lifecycle_state
    BY <2>1, <2>5 DEF TInv, TreatmentTypeOK, Backed, GrcValidated
  <2>7. treatment' \in [Treatment -> TreatmentRecord]
    BY <2>1, <2>5 DEF TInv, TreatmentTypeOK
  <2>8. /\ approval' \in [Approval -> ApprovalRecord]
        /\ \A b \in Approval : Decided(approval'[b])
        /\ \A t \in Treatment : ApprovedFor(t) => ApprovedFor(t)'
    BY <1>1, <2>1, <2>2, <2>4
  <2> QED
    BY <2>6, <2>7, <2>8 DEF TInv, TreatmentTypeOK
<1> QED
  BY <1>2, <1>3 DEF Request

LEMMA EveryEditKeeps ==
  ASSUME TInv, NEW t \in Treatment, Edit(t)
  PROVE  TInv'
<1>1. ASSUME NEW owner \in Person \cup {Nobody}, NEW dated \in BOOLEAN,
             CreateTreatment(t, owner, dated)
      PROVE  TInv'
  BY <1>1, EditsKeep
<1> QED
  BY <1>1, EditsKeep, CheckinKeeps, MovesKeep DEF Edit

LEMMA TreatmentNextKeeps ==
  ASSUME TInv, [TreatmentNext]_tvars
  PROVE  TInv'
<1>1. CASE UNCHANGED tvars
  BY <1>1 DEF tvars, TInv, TreatmentTypeOK, Backed, Decided, ApprovedFor, GrcValidated
<1> QED
  BY <1>1, EveryEditKeeps, SignaturesKeep, MovesKeep, RequestsKeep DEF TreatmentNext

LEMMA TreatmentInitKeeps == TreatmentInit => TInv
<1>1. NewTreatment \in TreatmentRecord /\ NewTreatment.lifecycle_state = Absent
  BY DEF NewTreatment, TreatmentRecord
<1>2. NewApproval \in ApprovalRecord /\ Decided(NewApproval)
  BY DEF NewApproval, ApprovalRecord, Decided
<1>3. Absent \notin Agreed \cup {"Validated"} /\ Backed(NewTreatment)
  BY <1>1 DEF Absent, Agreed, Backed
<1> QED
  BY <1>1, <1>2, <1>3 DEF TreatmentInit, TInv, TreatmentTypeOK

\* Every step of the composition is one the treatment module allows.
LEMMA TreatmentStepsOnly == [Next]_mvars => [TreatmentNext]_tvars
<1>1. RegisterStep \/ UNCHANGED mvars => UNCHANGED tvars
  BY DEF RegisterStep, mvars, tvars
<1>2. TreatmentStep => TreatmentNext
  BY DEF TreatmentStep, TreatmentNext
<1> QED
  BY <1>1, <1>2 DEF Next

-----------------------------------------------------------------------------
(* Theorems about treatments                                               *)

\* A treatment's state and an approval's decision stay backed by what their
\* gates asked for.
THEOREM Inductive == Spec => []TInv
<1>1. Init => TInv
  BY TreatmentInitKeeps DEF Init
<1>2. TInv /\ [Next]_mvars => TInv'
  BY TreatmentNextKeeps, TreatmentStepsOnly
<1> QED
  BY <1>1, <1>2, PTL DEF Spec

\* Types, and RINV-16 at rest: who owns a treatment holds the delivery role.
THEOREM Typing == Spec => []TreatmentTypeOK
<1>1. TInv => TreatmentTypeOK
  BY DEF TInv
<1> QED
  BY <1>1, Inductive, PTL

\* RINV-12 and SEP-4 at rest: an approved treatment was validated, committed
\* to, and approved by someone who did not ask for it.
THEOREM DeliveriesAreAgreed == Spec => []DeliveryIsAgreed
  BY Inductive, AgreedIsAgreed, PTL

-----------------------------------------------------------------------------
(* The register with real treatments implements the register               *)

Seen(x) ==
  [lifecycle_state   |-> IF x.lifecycle_state \in {"Complete", "Cancelled"}
                         THEN x.lifecycle_state ELSE "Open",
   grc_eng_validated |-> GrcValidated(x),
   owner_committed   |-> x.owner_committed]

LEMMA ViewIsSeen == TreatmentView = [t \in Treatment |-> Seen(treatment[t])]
  BY DEF TreatmentView, Seen

LEMMA WriteIsSeen ==
  ASSUME TInv, NEW t \in Treatment, NEW x, treatment' = [treatment EXCEPT ![t] = x]
  PROVE  TreatmentView' = [TreatmentView EXCEPT ![t] = Seen(x)]
<1>1. \A u \in Treatment : treatment'[u] = IF u = t THEN x ELSE treatment[u]
  BY DEF TInv, TreatmentTypeOK
<1>2. TreatmentView' = [u \in Treatment |-> Seen(treatment'[u])]
  BY DEF TreatmentView, Seen, GrcValidated
<1> HIDE DEF Seen
<1> QED
  BY <1>1, <1>2, ViewIsSeen

\* A write the risks cannot see.
LEMMA UnseenWrite ==
  ASSUME TInv, NEW t \in Treatment, NEW x, treatment' = [treatment EXCEPT ![t] = x],
         Seen(x) = Seen(treatment[t])
  PROVE  TreatmentView' = TreatmentView
<1>1. /\ TreatmentView = [u \in Treatment |-> Seen(treatment[u])]
      /\ TreatmentView' = [TreatmentView EXCEPT ![t] = Seen(x)]
  BY WriteIsSeen, ViewIsSeen
<1> HIDE DEF TreatmentView, Seen
<1>2. TreatmentView' = [u \in Treatment |-> Seen(treatment[u])]
  BY <1>1
<1> QED
  BY <1>1, <1>2

LEMMA SeenFields ==
  ASSUME NEW x \in TreatmentRecord
  PROVE  /\ Seen(x) \in RL!TreatmentView
         /\ x.lifecycle_state \in {"Complete", "Cancelled"} =>
              Seen(x).lifecycle_state = x.lifecycle_state
         /\ x.lifecycle_state \notin {"Complete", "Cancelled"} =>
              Seen(x).lifecycle_state = "Open"
         /\ Seen(x).grc_eng_validated <=> GrcValidated(x)
         /\ Seen(x).owner_committed <=> x.owner_committed
  BY DEF Seen, GrcValidated, TreatmentRecord, RL!TreatmentView

LEMMA SameFields ==
  ASSUME NEW v \in RL!TreatmentView, NEW w \in RL!TreatmentView,
         v.lifecycle_state = w.lifecycle_state,
         v.grc_eng_validated <=> w.grc_eng_validated,
         v.owner_committed <=> w.owner_committed
  PROVE  v = w
  BY DEF RL!TreatmentView

\* The records of a transition, as the risks see them.
LEMMA MoveIsSeen ==
  ASSUME NEW x \in TreatmentRecord, NEW s \in TreatmentStates
  PROVE  LET y == [x EXCEPT !.lifecycle_state = s]
         IN  /\ s \in {"Complete", "Cancelled"} =>
                   Seen(y) = [Seen(x) EXCEPT !.lifecycle_state = s]
             /\ {s, x.lifecycle_state} \cap {"Complete", "Cancelled"} = {} => Seen(y) = Seen(x)
<1> DEFINE y == [x EXCEPT !.lifecycle_state = s]
<1>1. /\ y \in TreatmentRecord
      /\ y.lifecycle_state = s
      /\ y.grc_eng_validated_by = x.grc_eng_validated_by
      /\ y.owner_committed = x.owner_committed
  BY DEF TreatmentRecord
<1> HIDE DEF y
<1>2. ASSUME s \in {"Complete", "Cancelled"}
      PROVE  Seen(y) = [Seen(x) EXCEPT !.lifecycle_state = s]
  <2> DEFINE w == [Seen(x) EXCEPT !.lifecycle_state = s]
  <2>1. /\ w \in RL!TreatmentView
        /\ w.lifecycle_state = s
        /\ w.grc_eng_validated <=> Seen(x).grc_eng_validated
        /\ w.owner_committed <=> Seen(x).owner_committed
    BY <1>2, SeenFields DEF RL!TreatmentView
  <2>2. Seen(y).grc_eng_validated <=> Seen(x).grc_eng_validated
    BY <1>1, SeenFields DEF GrcValidated
  <2> HIDE DEF w
  <2>3. Seen(y) = w
    BY <1>1, <1>2, <2>1, <2>2, SeenFields, SameFields
  <2> QED
    BY <2>3 DEF w
<1>3. ASSUME {s, x.lifecycle_state} \cap {"Complete", "Cancelled"} = {}
      PROVE  Seen(y) = Seen(x)
  BY <1>1, <1>3 DEF Seen, GrcValidated
<1> QED
  BY <1>2, <1>3 DEF y

LEMMA EditIsUnseen ==
  ASSUME TInv, NEW t \in Treatment, Edit(t)
  PROVE  TreatmentView' = TreatmentView
<1> DEFINE x == treatment[t]
<1>0. x \in TreatmentRecord
  BY DEF TInv, TreatmentTypeOK
<1>1. ASSUME NEW owner, NEW dated, CreateTreatment(t, owner, dated)
      PROVE  TreatmentView' = TreatmentView
  <2> DEFINE y == [x EXCEPT !.lifecycle_state = "Proposed", !.treatment_owner_id = owner,
                            !.dated = dated]
  <2>1. treatment' = [treatment EXCEPT ![t] = y] /\ x.lifecycle_state = Absent
    BY <1>1 DEF CreateTreatment, StoreTreatment, Exists
  <2>2. Seen(y) = Seen(x)
    BY <1>0, <2>1 DEF Seen, GrcValidated, TreatmentRecord, Absent
  <2> HIDE DEF y
  <2> QED
    BY <2>1, <2>2, UnseenWrite
<1>2. ASSUME NEW owner, NEW dated, NEW evidenced, UpdateTreatment(t, owner, dated, evidenced)
      PROVE  TreatmentView' = TreatmentView
  <2> DEFINE y == [x EXCEPT !.treatment_owner_id = owner, !.dated = dated,
                            !.evidenced = evidenced]
  <2>1. treatment' = [treatment EXCEPT ![t] = y]
    BY <1>2 DEF UpdateTreatment, StoreTreatment
  <2>2. Seen(y) = Seen(x)
    BY <1>0 DEF Seen, GrcValidated, TreatmentRecord
  <2> HIDE DEF y
  <2> QED
    BY <2>1, <2>2, UnseenWrite
<1>3. CASE AddCheckin(t)
  <2> DEFINE y == [x EXCEPT !.checked_in = TRUE]
  <2>1. treatment' = [treatment EXCEPT ![t] = y]
    BY <1>3 DEF AddCheckin
  <2>2. Seen(y) = Seen(x)
    BY <1>0 DEF Seen, GrcValidated, TreatmentRecord
  <2> HIDE DEF y
  <2> QED
    BY <2>1, <2>2, UnseenWrite
<1>4. CASE Validate(t) \/ Approve(t) \/ Start(t)
  <2>1. PICK s \in {"Validated", "Approved", "In_Progress"} :
          /\ treatment' = [treatment EXCEPT ![t] = [x EXCEPT !.lifecycle_state = s]]
          /\ x.lifecycle_state \notin {"Complete", "Cancelled"}
    BY <1>4 DEF Validate, Approve, Start, StoreTreatment
  <2>2. Seen([x EXCEPT !.lifecycle_state = s]) = Seen(x)
    <3>1. {s, x.lifecycle_state} \cap {"Complete", "Cancelled"} = {}
      BY <2>1
    <3> QED
      BY <1>0, <3>1, MoveIsSeen DEF TreatmentStates
  <2> QED
    BY <2>1, <2>2, UnseenWrite
<1> QED
  BY <1>1, <1>2, <1>3, <1>4 DEF Edit

LEMMA RequestIsUnseen ==
  ASSUME TInv, NEW a \in Approval, Request(a)
  PROVE  TreatmentView' = TreatmentView
<1>1. CASE UNCHANGED treatment
  BY <1>1 DEF TreatmentView, GrcValidated
<1>2. ASSUME NEW actor, NEW decision, DecideApproval(a, actor, decision)
      PROVE  TreatmentView' = TreatmentView
  <2> DEFINE u == approval[a].treatment
             w == [treatment[u] EXCEPT !.dated =
                     @ \/ (decision = "Approved" /\ approval[a].reschedules)]
  <2>1. u \in Treatment /\ treatment' = [treatment EXCEPT ![u] = w]
    BY <1>2 DEF DecideApproval, TInv, Decided
  <2>2. treatment[u] \in TreatmentRecord
    BY <2>1 DEF TInv, TreatmentTypeOK
  <2>3. Seen(w) = Seen(treatment[u])
    BY <2>2 DEF Seen, GrcValidated, TreatmentRecord
  <2> HIDE DEF w
  <2> QED
    BY <2>1, <2>3, UnseenWrite
<1> QED
  BY <1>1, <1>2 DEF Request, RequestApproval

LEMMA SignatureIsSeen ==
  ASSUME TInv, NEW t \in Treatment, NEW actor \in Person,
         ValidateFeasibility(t, actor) \/ CommitOwner(t, actor),
         UNCHANGED <<risk, clinks, tlinks, ctl, today>>
  PROVE  RL!TreatmentStep(t)
<1> DEFINE x == treatment[t]
<1>0. x \in TreatmentRecord /\ actor # Nobody /\ TreatmentView[t] = Seen(x)
  BY TreatmentAssumption, ViewIsSeen DEF TInv, TreatmentTypeOK
<1>1. CASE ValidateFeasibility(t, actor)
  <2> DEFINE y == [x EXCEPT !.grc_eng_validated_by = actor]
  <2>1. treatment' = [treatment EXCEPT ![t] = y]
    BY <1>1 DEF ValidateFeasibility, StoreTreatment
  <2>2. /\ y \in TreatmentRecord
        /\ y.lifecycle_state = x.lifecycle_state
        /\ GrcValidated(y)
        /\ y.owner_committed = x.owner_committed
    BY <1>0 DEF GrcValidated, TreatmentRecord
  <2> HIDE DEF y
  <2> DEFINE w == [Seen(x) EXCEPT !.grc_eng_validated = TRUE]
  <2>4. Seen(y) = w
    <3>1. Seen(x) \in RL!TreatmentView
      BY <1>0, SeenFields
    <3>2. /\ w \in RL!TreatmentView
          /\ w.lifecycle_state = Seen(x).lifecycle_state
          /\ w.grc_eng_validated
          /\ w.owner_committed <=> Seen(x).owner_committed
      BY <3>1 DEF RL!TreatmentView
    <3> HIDE DEF w
    <3> QED
      BY <1>0, <2>2, <3>2, SeenFields, SameFields
  <2>3. TreatmentView' = [TreatmentView EXCEPT ![t].grc_eng_validated = TRUE]
    BY <1>0, <2>1, <2>4, WriteIsSeen
  <2> QED
    BY <2>3 DEF RL!TreatmentStep, RL!ValidateTreatment
<1>2. CASE CommitOwner(t, actor)
  <2> DEFINE y == [x EXCEPT !.owner_committed = TRUE]
  <2>1. treatment' = [treatment EXCEPT ![t] = y]
    BY <1>2 DEF CommitOwner, StoreTreatment
  <2>2. /\ y \in TreatmentRecord
        /\ y.lifecycle_state = x.lifecycle_state
        /\ GrcValidated(y) <=> GrcValidated(x)
        /\ y.owner_committed
    BY <1>0 DEF GrcValidated, TreatmentRecord
  <2> HIDE DEF y
  <2> DEFINE w == [Seen(x) EXCEPT !.owner_committed = TRUE]
  <2>4. Seen(y) = w
    <3>1. /\ w \in RL!TreatmentView
          /\ w.lifecycle_state = Seen(x).lifecycle_state
          /\ w.grc_eng_validated <=> Seen(x).grc_eng_validated
          /\ w.owner_committed
      BY <1>0, SeenFields DEF RL!TreatmentView
    <3> HIDE DEF w
    <3> QED
      BY <1>0, <2>2, <3>1, SeenFields, SameFields
  <2>3. TreatmentView' = [TreatmentView EXCEPT ![t].owner_committed = TRUE]
    BY <1>0, <2>1, <2>4, WriteIsSeen
  <2> QED
    BY <2>3 DEF RL!TreatmentStep, RL!CommitTreatment
<1> QED
  BY <1>1, <1>2

LEMMA ClosingIsSeen ==
  ASSUME TInv, NEW t \in Treatment, UNCHANGED <<clinks, tlinks, ctl, today>>,
         \/ Complete(t) /\ UNCHANGED risk
         \/ Cancel(t) /\ CancelledResponse(t)
  PROVE  RL!TreatmentStep(t)
<1> DEFINE x == treatment[t]
           y(s) == [x EXCEPT !.lifecycle_state = s]
<1>0. x \in TreatmentRecord /\ Backed(x) /\ TreatmentView[t] = Seen(x)
  BY ViewIsSeen DEF TInv, TreatmentTypeOK
<1>1. ASSUME NEW s \in {"Complete", "Cancelled"}, treatment' = [treatment EXCEPT ![t] = y(s)]
      PROVE  TreatmentView' = [TreatmentView EXCEPT ![t].lifecycle_state = s]
  <2>1. Seen(y(s)) = [Seen(x) EXCEPT !.lifecycle_state = s]
    BY <1>0, MoveIsSeen DEF TreatmentStates
  <2> HIDE DEF y
  <2> QED
    BY <1>0, <1>1, <2>1, WriteIsSeen
<1>2. CASE Complete(t) /\ UNCHANGED risk
  <2>1. treatment' = [treatment EXCEPT ![t] = y("Complete")]
        /\ x.lifecycle_state = "In_Progress"
    BY <1>2 DEF Complete, StoreTreatment
  <2>2. GrcValidated(x) = TRUE /\ x.owner_committed = TRUE
    BY <1>0, <2>1 DEF Backed, Agreed, GrcValidated, TreatmentRecord
  <2>3. Seen(x) = [lifecycle_state |-> "Open", grc_eng_validated |-> TRUE,
                   owner_committed |-> TRUE]
    BY <2>1, <2>2 DEF Seen
  <2> QED
    BY <1>0, <1>1, <1>2, <2>1, <2>3 DEF RL!TreatmentStep, RL!CompleteTreatment
<1>3. CASE Cancel(t) /\ CancelledResponse(t)
  <2>1. treatment' = [treatment EXCEPT ![t] = y("Cancelled")]
        /\ x.lifecycle_state # "Complete"
    BY <1>3 DEF Cancel, StoreTreatment
  <2>2. TreatmentView[t].lifecycle_state # "Complete"
    BY <1>0, <2>1 DEF Seen
  <2> QED
    BY <1>1, <1>3, <2>1, <2>2 DEF RL!TreatmentStep, RL!CancelTreatment, CancelledResponse
<1> QED
  BY <1>2, <1>3

LEMMA EveryStepRefines ==
  ASSUME TInv, [Next]_mvars
  PROVE  [RL!Next]_(RL!vars)
<1>1. ASSUME UNCHANGED tvars
      PROVE  TreatmentView' = TreatmentView
  BY <1>1 DEF tvars, TreatmentView, GrcValidated
<1>2. CASE RegisterStep
  BY <1>2 DEF RegisterStep, RL!Next
<1>3. CASE TreatmentStep
  <2>1. ASSUME TreatmentView' = TreatmentView, UNCHANGED <<risk, clinks, tlinks, ctl, today>>
        PROVE  UNCHANGED RL!vars
    BY <2>1 DEF RL!vars
  <2>2. ASSUME NEW t \in Treatment, RL!TreatmentStep(t)
        PROVE  RL!Next
    BY <2>2 DEF RL!Next
  <2> QED
    BY <1>3, <2>1, <2>2, EditIsUnseen, RequestIsUnseen, SignatureIsSeen, ClosingIsSeen
       DEF TreatmentStep
<1>4. CASE UNCHANGED mvars
  BY <1>1, <1>4 DEF mvars, tvars, RL!vars
<1> QED
  BY <1>2, <1>3, <1>4 DEF Next

LEMMA InitRefines == Init => RL!Init
<1> SUFFICES ASSUME Init PROVE RL!Init
  OBVIOUS
<1>1. Seen(NewTreatment) = [lifecycle_state |-> "Open", grc_eng_validated |-> FALSE,
                            owner_committed |-> FALSE]
  BY DEF Seen, NewTreatment, GrcValidated, Absent
<1>2. TreatmentView = [t \in Treatment |->
                         [lifecycle_state |-> "Open", grc_eng_validated |-> FALSE,
                          owner_committed |-> FALSE]]
  BY <1>1, ViewIsSeen DEF Init, TreatmentInit
<1> QED
  BY <1>2 DEF Init, RL!Init, RL!NoScore, NoScore, RL!NoCE, NoCE

\* What RiskLifecycle assumes of treatments is what the treatment module
\* does: the register with real treatments implements it.
THEOREM Refinement == Spec => ImplementsRegister
<1>1. Init => RL!Init
  BY InitRefines
<1>2. TInv /\ [Next]_mvars => [RL!Next]_(RL!vars)
  BY EveryStepRefines
<1> QED
  BY <1>1, <1>2, Inductive, PTL DEF Spec, ImplementsRegister, RL!Spec

-----------------------------------------------------------------------------
(* What is proved of the register holds of the composition.  Its proofs    *)
(* speak of their own instance of the same definitions.                    *)

RLP == INSTANCE RiskLifecycle_proofs WITH trt <- TreatmentView

LEMMA RisksAssumed == RLP!RiskAssumption
  BY MitigatedAssumption
  DEF RL!RiskAssumption, RLP!RiskAssumption, RL!Axis, RLP!Axis, RL!Ratings, RLP!Ratings,
      RL!CEReductions, RLP!CEReductions, RL!AllStrategies, RLP!AllStrategies,
      RL!People, RLP!People

LEMMA SameTransitions ==
  ASSUME NEW r \in Risk, RL!Transition(r)
  PROVE  RLP!Transition(r)
  BY DEF RL!RINV10, RLP!RINV10, RL!NobodyOffends, RLP!NobodyOffends,
      RL!Transition, RLP!Transition, RL!Admit, RLP!Admit, RL!StartScoring,
      RLP!StartScoring, RL!FreezeScore, RLP!FreezeScore, RL!QueueForReadout,
      RLP!QueueForReadout, RL!CompleteReadout, RLP!CompleteReadout, RL!StartMonitoring,
      RLP!StartMonitoring, RL!Reassess, RLP!Reassess, RL!Close, RLP!Close, RL!Reopen,
      RLP!Reopen, RL!ResidualGate, RLP!ResidualGate, RL!Complete, RLP!Complete,
      RL!NoOpenFailure, RLP!NoOpenFailure, RL!OpenNewCycle, RLP!OpenNewCycle,
      RL!LockResidual, RLP!LockResidual, RL!NoStrategy, RLP!NoStrategy,
      RL!AboveAppetite, RLP!AboveAppetite, RL!ReportedRating, RLP!ReportedRating,
      RL!Reported, RLP!Reported, RL!Store, RLP!Store, RL!Enforced, RLP!Enforced,
      RL!RINV1, RLP!RINV1, RL!RINV4, RLP!RINV4, RL!RINV5, RLP!RINV5, RL!RINV6,
      RLP!RINV6, RL!RINV8, RLP!RINV8, RL!RINV9, RLP!RINV9, RL!RINV11, RLP!RINV11,
      RL!RINV12, RLP!RINV12, RL!Accepted, RLP!Accepted, RL!Lapsed, RLP!Lapsed,
      RL!Phase, RLP!Phase, RL!PhaseNumber, RLP!PhaseNumber, RL!RatingOf, RLP!RatingOf,
      RL!RatingFor, RLP!RatingFor, RL!Magnitude, RLP!Magnitude,
      RL!ValidResidualLikelihood, RLP!ValidResidualLikelihood, RL!Ceiling, RLP!Ceiling,
      RL!Contributing, RLP!Contributing, RL!WorstCase, RLP!WorstCase, RL!Validated,
      RLP!Validated, RL!Committed, RLP!Committed, RL!NoScore, RLP!NoScore, RL!NoDate,
      RLP!NoDate, RL!NoCE, RLP!NoCE, RL!Ratings, RLP!Ratings

LEMMA SameOperations ==
  ASSUME NEW r \in Risk, RL!Operation(r)
  PROVE  RLP!Operation(r)
  BY DEF RL!RINV10, RLP!RINV10, RL!NobodyOffends, RLP!NobodyOffends,
      RL!StandingChanges, RLP!StandingChanges,
      RL!Operation, RLP!Operation, RL!AcceptanceDates,
      RLP!AcceptanceDates, RL!ScoreInherent, RLP!ScoreInherent,
      RL!ScoreResidual, RLP!ScoreResidual, RL!ReleaseResidualLock,
      RLP!ReleaseResidualLock, RL!DecideTreatment, RLP!DecideTreatment, RL!AcceptRisk,
      RLP!AcceptRisk, RL!UpdateRisk, RLP!UpdateRisk, RL!LinkControl, RLP!LinkControl,
      RL!UnlinkControl, RLP!UnlinkControl, RL!LinkTreatment, RLP!LinkTreatment,
      RL!ElsewhereFlagged, RLP!ElsewhereFlagged, RL!ResidualGate, RLP!ResidualGate,
      RL!Complete, RLP!Complete, RL!NoOpenFailure, RLP!NoOpenFailure, RL!Improved,
      RLP!Improved, RL!Flagged, RLP!Flagged, RL!RecordedScores, RLP!RecordedScores,
      RL!Acceptable, RLP!Acceptable, RL!Store, RLP!Store, RL!Enforced, RLP!Enforced,
      RL!RINV1, RLP!RINV1, RL!RINV4, RLP!RINV4, RL!RINV5, RLP!RINV5, RL!RINV6,
      RLP!RINV6, RL!RINV8, RLP!RINV8, RL!RINV9, RLP!RINV9, RL!RINV11, RLP!RINV11,
      RL!RINV12, RLP!RINV12, RL!Accepted, RLP!Accepted, RL!Lapsed, RLP!Lapsed,
      RL!Phase, RLP!Phase, RL!PhaseNumber, RLP!PhaseNumber, RL!RatingOf, RLP!RatingOf,
      RL!RatingFor, RLP!RatingFor, RL!Magnitude, RLP!Magnitude,
      RL!ValidResidualLikelihood, RLP!ValidResidualLikelihood, RL!Ceiling, RLP!Ceiling,
      RL!Contributing, RLP!Contributing, RL!WorstCase, RLP!WorstCase, RL!Validated,
      RLP!Validated, RL!Committed, RLP!Committed, RL!NoScore, RLP!NoScore, RL!NoDate,
      RLP!NoDate, RL!NoCE, RLP!NoCE, RL!Ratings, RLP!Ratings

LEMMA SameControlSteps ==
  ASSUME NEW o \in Objective, RL!ControlStep(o)
  PROVE  RLP!ControlStep(o)
  BY DEF RL!ControlStep, RLP!ControlStep, RL!ControlFailed, RLP!ControlFailed,
      RL!ControlRecovered, RLP!ControlRecovered, RL!ControlOperating,
      RLP!ControlOperating, RL!ControlRedesigned, RLP!ControlRedesigned,
      RL!ControlDeprecated, RLP!ControlDeprecated, RL!DeploymentDegraded,
      RLP!DeploymentDegraded, RL!DeploymentRestored, RLP!DeploymentRestored,
      RL!ControlDrifts, RLP!ControlDrifts, RL!ObjectiveMoves, RLP!ObjectiveMoves,
      RL!Cascade, RLP!Cascade, RL!Reached, RLP!Reached, RL!Frozen, RLP!Frozen,
      RL!Degraded, RLP!Degraded, RL!Improved, RLP!Improved, RL!Recovering,
      RLP!Recovering, RL!Flagged, RLP!Flagged, RL!LockResidual, RLP!LockResidual,
      RL!AboveAppetite, RLP!AboveAppetite, RL!ReportedRating, RLP!ReportedRating,
      RL!Reported, RLP!Reported, RL!RatingOf, RLP!RatingOf, RL!RatingFor,
      RLP!RatingFor, RL!Magnitude, RLP!Magnitude, RL!NoScore, RLP!NoScore, RL!NoCE,
      RLP!NoCE

LEMMA SameTreatmentSteps ==
  ASSUME NEW t \in Treatment, RL!TreatmentStep(t)
  PROVE  RLP!TreatmentStep(t)
  BY DEF RL!TreatmentStep, RLP!TreatmentStep, RL!ValidateTreatment, RLP!ValidateTreatment,
      RL!CommitTreatment, RLP!CommitTreatment, RL!CompleteTreatment,
      RLP!CompleteTreatment, RL!CancelTreatment, RLP!CancelTreatment, RL!LockResidual,
      RLP!LockResidual, RL!NoScore, RLP!NoScore

LEMMA SameRiskCalendar ==
  /\ RL!Tick => RLP!Tick
  /\ RL!Jobs => RLP!Jobs
  BY DEF RL!Tick, RLP!Tick, RL!Jobs, RLP!Jobs, RL!RunJobs, RLP!RunJobs, RL!Reached,
      RLP!Reached, RL!Degraded, RLP!Degraded, RL!LockResidual, RLP!LockResidual,
      RL!EscalateAcceptance, RLP!EscalateAcceptance, RL!Lapsed, RLP!Lapsed,
      RL!Accepted, RLP!Accepted, RL!NoDate, RLP!NoDate, RL!NoScore, RLP!NoScore,
      RL!NoCE, RLP!NoCE

LEMMA SameRiskInit == RL!Init => RLP!Init
  BY DEF RL!Init, RLP!Init, RL!NewRecord, RLP!NewRecord, RL!NoScore, RLP!NoScore,
      RL!NoStrategy, RLP!NoStrategy, RL!NoDate, RLP!NoDate, RL!NoCE, RLP!NoCE

LEMMA SameSteps == [RL!Next]_(RL!vars) => [RLP!Next]_(RLP!vars)
<1>1. UNCHANGED RL!vars => UNCHANGED RLP!vars
  BY DEF RL!vars, RLP!vars
<1>2. RL!Next => RLP!Next
  BY SameTransitions, SameOperations, SameControlSteps, SameTreatmentSteps, SameRiskCalendar
     DEF RL!Next, RLP!Next
<1> QED
  BY <1>1, <1>2

LEMMA RegisterInductive == Spec => [](TInv /\ RLP!IInv)
<1>1. Init => TInv /\ RLP!IInv
  <2>1. Init => RLP!IInv
    BY InitRefines, SameRiskInit, RLP!InitIsSound, RisksAssumed
  <2> QED
    BY <2>1, TreatmentInitKeeps DEF Init
<1>2. TInv /\ RLP!IInv /\ [Next]_mvars => (TInv /\ RLP!IInv)'
  <2> SUFFICES ASSUME TInv, RLP!IInv, [Next]_mvars PROVE TInv' /\ RLP!IInv'
    OBVIOUS
  <2>1. TInv'
    BY TreatmentNextKeeps, TreatmentStepsOnly
  <2>2. [RLP!Next]_(RLP!vars)
    BY EveryStepRefines, SameSteps
  <2>3. RLP!IInv'
    BY <2>2, RLP!Induction, RisksAssumed
  <2> QED
    BY <2>1, <2>3
<1> QED
  BY <1>1, <1>2, PTL DEF Spec

\* The declared transitions with a source of their own.
Declared ==
  {<<"Proposed", "Validated">>, <<"Validated", "Approved">>,
   <<"Approved", "In_Progress">>, <<"In_Progress", "Complete">>}

\* What one step may do to a treatment's state.
LEMMA StepMoves ==
  ASSUME TInv, [Next]_mvars, NEW t \in Treatment
  PROVE  \/ treatment'[t].lifecycle_state = treatment[t].lifecycle_state
         \/ treatment[t].lifecycle_state = Absent /\ treatment'[t].lifecycle_state = "Proposed"
         \/ <<treatment[t].lifecycle_state, treatment'[t].lifecycle_state>> \in Declared
         \/ /\ treatment[t].lifecycle_state \in TreatmentStates \ {"Complete", "Cancelled"}
            /\ treatment'[t].lifecycle_state = "Cancelled"
            /\ CancelledResponse(t)
<1> DEFINE x == treatment[t]
           Goal == \/ treatment'[t].lifecycle_state = x.lifecycle_state
                   \/ x.lifecycle_state = Absent /\ treatment'[t].lifecycle_state = "Proposed"
                   \/ <<x.lifecycle_state, treatment'[t].lifecycle_state>> \in Declared
                   \/ /\ x.lifecycle_state \in TreatmentStates \ {"Complete", "Cancelled"}
                      /\ treatment'[t].lifecycle_state = "Cancelled"
                      /\ CancelledResponse(t)
<1>0. treatment \in [Treatment -> TreatmentRecord]
  BY DEF TInv, TreatmentTypeOK
<1>1. ASSUME NEW u \in Treatment, NEW z, treatment' = [treatment EXCEPT ![u] = z],
             z.lifecycle_state = treatment[u].lifecycle_state
      PROVE  Goal
  BY <1>0, <1>1
<1>2. ASSUME NEW u \in Treatment, NEW s \in TreatmentStates,
             treatment' = [treatment EXCEPT ![u] = [treatment[u] EXCEPT !.lifecycle_state = s]],
             <<treatment[u].lifecycle_state, s>> \in Declared
      PROVE  Goal
  <2>1. [treatment[u] EXCEPT !.lifecycle_state = s].lifecycle_state = s
    BY <1>0 DEF TreatmentRecord
  <2> QED
    BY <1>0, <1>2, <2>1
<1>3. CASE UNCHANGED treatment
  BY <1>3
<1>4. ASSUME NEW u \in Treatment, Edit(u)
      PROVE  Goal
  <2>1. ASSUME NEW owner, NEW dated, CreateTreatment(u, owner, dated)
        PROVE  Goal
    <3> DEFINE z == [treatment[u] EXCEPT !.lifecycle_state = "Proposed",
                                         !.treatment_owner_id = owner, !.dated = dated]
    <3>1. /\ treatment' = [treatment EXCEPT ![u] = z]
          /\ treatment[u].lifecycle_state = Absent
      BY <2>1 DEF CreateTreatment, StoreTreatment, Exists
    <3>2. z.lifecycle_state = "Proposed"
      BY <1>0 DEF TreatmentRecord
    <3> HIDE DEF z
    <3> QED
      BY <1>0, <3>1, <3>2
  <2>2. ASSUME NEW owner, NEW dated, NEW evidenced, UpdateTreatment(u, owner, dated, evidenced)
        PROVE  Goal
    <3> DEFINE z == [treatment[u] EXCEPT !.treatment_owner_id = owner, !.dated = dated,
                                         !.evidenced = evidenced]
    <3>1. treatment' = [treatment EXCEPT ![u] = z]
      BY <2>2 DEF UpdateTreatment, StoreTreatment
    <3>2. z.lifecycle_state = treatment[u].lifecycle_state
      BY <1>0 DEF TreatmentRecord
    <3> HIDE DEF z
    <3> QED
      BY <1>1, <3>1, <3>2
  <2>3. CASE AddCheckin(u)
    BY <1>0, <2>3 DEF AddCheckin, TreatmentRecord
  <2>4. CASE Validate(u) \/ Approve(u) \/ Start(u)
    BY <1>2, <2>4 DEF Validate, Approve, Start, StoreTreatment, Declared, TreatmentStates
  <2> QED
    BY <1>4, <2>1, <2>2, <2>3, <2>4 DEF Edit
<1>5. ASSUME NEW u \in Treatment, Complete(u)
      PROVE  Goal
  BY <1>2, <1>5 DEF Complete, StoreTreatment, Declared, TreatmentStates
<1>6. ASSUME NEW u \in Treatment, NEW actor,
             ValidateFeasibility(u, actor) \/ CommitOwner(u, actor)
      PROVE  Goal
  <2>1. PICK z \in {[treatment[u] EXCEPT !.grc_eng_validated_by = actor],
                    [treatment[u] EXCEPT !.owner_committed = TRUE]} :
          treatment' = [treatment EXCEPT ![u] = z]
    BY <1>6 DEF ValidateFeasibility, CommitOwner, StoreTreatment
  <2>2. z.lifecycle_state = treatment[u].lifecycle_state
    BY <1>0, <2>1 DEF TreatmentRecord
  <2> QED
    BY <1>1, <2>1, <2>2
<1>7. ASSUME NEW a \in Approval, Request(a)
      PROVE  Goal
  <2>1. ASSUME NEW actor, NEW decision, DecideApproval(a, actor, decision)
        PROVE  Goal
    <3> DEFINE u == approval[a].treatment
               w == [treatment[u] EXCEPT !.dated =
                       @ \/ (decision = "Approved" /\ approval[a].reschedules)]
    <3>1. u \in Treatment /\ treatment' = [treatment EXCEPT ![u] = w]
      BY <2>1 DEF DecideApproval, TInv, Decided
    <3>2. w.lifecycle_state = treatment[u].lifecycle_state
      BY <1>0, <3>1 DEF TreatmentRecord
    <3> HIDE DEF w
    <3> QED
      BY <1>1, <3>1, <3>2
  <2> QED
    BY <1>3, <1>7, <2>1 DEF Request, RequestApproval
<1>8. ASSUME NEW u \in Treatment, Cancel(u), CancelledResponse(u)
      PROVE  Goal
  <2> DEFINE z == [treatment[u] EXCEPT !.lifecycle_state = "Cancelled"]
  <2>1. /\ treatment' = [treatment EXCEPT ![u] = z]
        /\ treatment[u].lifecycle_state \in TreatmentStates \ {"Complete"}
    BY <1>0, <1>8 DEF Cancel, StoreTreatment, Exists, TreatmentRecord
  <2>2. z.lifecycle_state = "Cancelled"
    BY <1>0 DEF TreatmentRecord
  <2> HIDE DEF z
  <2> QED
    BY <1>0, <1>8, <2>1, <2>2
<1>9. CASE UNCHANGED mvars \/ RegisterStep
  BY <1>3, <1>9 DEF mvars, RegisterStep, tvars
<1> QED
  BY <1>4, <1>5, <1>6, <1>7, <1>8, <1>9 DEF Next, TreatmentStep

\* Gate condition 1 of the residual gate, end to end: whatever releases a
\* mitigated risk, every linked treatment is delivered, and as agreed.
THEOREM ReleasesRestOnDelivery == Spec => ReleaseRestsOnDelivery
<1>1. ASSUME TInv, RLP!IInv, [Next]_mvars, NEW r \in Risk,
             risk[r].treatment_strategy = "Mitigate",
             \/ risk[r].residual_score_locked /\ ~risk'[r].residual_score_locked
             \/ risk[r].lifecycle_state # "Monitoring" /\ risk'[r].lifecycle_state = "Monitoring"
      PROVE  /\ tlinks[r] # {}
             /\ \A t \in tlinks[r] :
                  /\ treatment[t].lifecycle_state = "Complete"
                  /\ treatment[t].checked_in
                  /\ GrcValidated(treatment[t]) /\ treatment[t].owner_committed
                  /\ \E a \in Approval :
                       /\ approval[a].treatment = t /\ approval[a].decision = "Approved"
                       /\ approval[a].decision_by # approval[a].requested_by
  <2>1. RLP!ResidualGate(r)
    BY <1>1, RisksAssumed, EveryStepRefines, SameSteps, RLP!ReleasesPassGate DEF RLP!Released
  <2>2. tlinks[r] # {} /\ \A t \in tlinks[r] : TreatmentView[t].lifecycle_state = "Complete"
    BY <1>1, <2>1 DEF RLP!ResidualGate, RLP!Complete
  <2>3. ASSUME NEW t \in tlinks[r]
        PROVE  t \in Treatment /\ treatment[t].lifecycle_state = "Complete"
    <3>1. t \in Treatment
      BY <1>1 DEF RLP!IInv, RLP!TypeOK
    <3>2. Seen(treatment[t]).lifecycle_state = "Complete"
      BY <2>2, <3>1, ViewIsSeen
    <3> QED
      BY <3>1, <3>2 DEF Seen
  <2> QED
    BY <1>1, <2>2, <2>3, AgreedIsAgreed DEF TInv, Backed, DeliveryIsAgreed, Agreed
<1>2. TInv /\ RLP!IInv /\ [Next]_mvars =>
        [\A r \in Risk :
           /\ risk[r].treatment_strategy = "Mitigate"
           /\ \/ risk[r].residual_score_locked /\ ~risk'[r].residual_score_locked
              \/ risk[r].lifecycle_state # "Monitoring" /\ risk'[r].lifecycle_state = "Monitoring"
           => /\ tlinks[r] # {}
              /\ \A t \in tlinks[r] :
                   /\ treatment[t].lifecycle_state = "Complete"
                   /\ treatment[t].checked_in
                   /\ GrcValidated(treatment[t]) /\ treatment[t].owner_committed
                   /\ \E a \in Approval :
                        /\ approval[a].treatment = t /\ approval[a].decision = "Approved"
                        /\ approval[a].decision_by # approval[a].requested_by]_mvars
  BY <1>1
<1> QED
  BY <1>2, RegisterInductive, PTL DEF Spec, ReleaseRestsOnDelivery

\* RES-6: a step that abandons a treatment leaves every risk linked to it on
\* its inherent score.
THEOREM AbandonedTreatmentsFreeze == Spec => AbandonedTreatmentFreezes
<1>1. ASSUME TInv, RLP!IInv, [Next]_mvars, NEW t \in Treatment, NEW r \in Risk,
             treatment[t].lifecycle_state # "Cancelled",
             treatment'[t].lifecycle_state = "Cancelled",
             t \in tlinks[r]
      PROVE  RL!Reported(risk'[r]) = risk[r].inherent
  <2>1. CancelledResponse(t)
    BY <1>1, StepMoves DEF Declared
  <2>2. risk'[r] = RL!LockResidual(risk[r]) /\ risk[r] \in RLP!RiskRecord
    BY <1>1, <2>1 DEF CancelledResponse, RLP!IInv, RLP!TypeOK
  <2> QED
    BY <2>2 DEF RL!Reported, RL!LockResidual, RLP!RiskRecord
<1>2. TInv /\ RLP!IInv /\ [Next]_mvars =>
        [\A t \in Treatment, r \in Risk :
           /\ treatment[t].lifecycle_state # "Cancelled"
           /\ treatment'[t].lifecycle_state = "Cancelled"
           /\ t \in tlinks[r]
           => RL!Reported(risk'[r]) = risk[r].inherent]_mvars
  BY <1>1
<1> QED
  BY <1>2, RegisterInductive, PTL DEF Spec, AbandonedTreatmentFreezes

\* Requests, decisions and check-ins move a treatment along one declared
\* edge of its machine, or leave it; complete and cancelled ones stay so.
THEOREM MachineFollowed == Spec => FollowsTreatmentMachine
<1> DEFINE state == [t \in Treatment |-> treatment[t].lifecycle_state]
<1>1. Init => Engine!Init
  BY DEF Init, TreatmentInit, NewTreatment, Engine!Init
<1>2. TInv /\ [Next]_mvars => [Engine!Fire]_state
  <2> SUFFICES ASSUME TInv, [Next]_mvars PROVE Engine!Fire
    OBVIOUS
  <2>1. TInv'
    BY TreatmentNextKeeps, TreatmentStepsOnly
  <2>2. ASSUME NEW t \in Treatment
        PROVE  /\ treatment'[t].lifecycle_state \in TreatmentStates \cup {Absent}
               /\ Engine!Moves(treatment[t].lifecycle_state, treatment'[t].lifecycle_state)
    <3>1. treatment[t] \in TreatmentRecord /\ treatment'[t] \in TreatmentRecord
      BY <2>1 DEF TInv, TreatmentTypeOK
    <3>2. treatment'[t].lifecycle_state \in TreatmentStates \cup {Absent}
      BY <3>1 DEF TreatmentRecord
    <3> QED
      BY <3>2, StepMoves DEF Declared, TreatmentStates, Absent, Engine!Moves, Engine!Lookup
  <2> QED
    BY <2>2 DEF Engine!Fire
<1> QED
  BY <1>1, <1>2, Inductive, PTL DEF Spec, FollowsTreatmentMachine, Engine!Spec

=============================================================================
