---------------------- MODULE ComplianceCoverage_proofs ----------------------
(***************************************************************************)
(* Proofs about compliance, for any catalogue of requirements, any library *)
(* of objectives and deployments and any estate of assets.                 *)
(***************************************************************************)
EXTENDS ComplianceCoverage, TLAPS

(* The properties are inductive with the types.  Positions are written by  *)
(* requests, by link edits, by expiries and by cascades; each is shown to  *)
(* leave positions that are explained, asserted, and an edge or none away. *)
IInv == ComplianceTypeOK /\ PositionsAreGrounded

Explained(x) ==
  /\ x.lifecycle_state = "Not_Applicable" => x.rationale
  /\ x.lifecycle_state = "Compensating" => x.compensating_expiry # "None"
  /\ x.gap_reason <=> x.lifecycle_state = "Gap"

Follows(x, y) ==
  \/ y.lifecycle_state = x.lifecycle_state
  \/ <<x.lifecycle_state, y.lifecycle_state>> \in Edges

PositionsKept ==
  /\ assessment' \in [Requirement -> Assessment]
  /\ \A q \in Requirement :
       Explained(assessment'[q]) /\ Follows(assessment[q], assessment'[q])
  /\ CoveredIsAsserted'

LEMMA PositionsRead ==
  ASSUME IInv, NEW q \in Requirement
  PROVE  /\ assessment[q] \in Assessment /\ Explained(assessment[q])
         /\ assessment[q].lifecycle_state = "Covered" => Satisfying(q) # {}
  BY DEF IInv, ComplianceTypeOK, PositionsAreGrounded, PositionsExplained,
         CoveredIsAsserted, Explained

LEMMA GapsAreSound ==
  ASSUME NEW x \in Assessment, x.lifecycle_state = "Covered"
  PROVE  /\ ToGap(x) \in Assessment /\ Explained(ToGap(x)) /\ Follows(x, ToGap(x))
         /\ ToGap(x).lifecycle_state = "Gap"
  BY DEF Assessment, AssessmentStates, ToGap, Explained, Follows, Edges

-----------------------------------------------------------------------------
(* Writes of positions                                                     *)

LEMMA NoPositionWritten ==
  ASSUME IInv, UNCHANGED <<assessment, link>>
  PROVE  PositionsKept
  BY PositionsRead
     DEF IInv, ComplianceTypeOK, PositionsAreGrounded, PositionsKept, Follows,
         CoveredIsAsserted, Satisfying

\* A write of one position; the assertions stay.
LEMMA OnePositionWritten ==
  ASSUME IInv, UNCHANGED link, NEW q \in Requirement, NEW x \in Assessment,
         assessment' = [assessment EXCEPT ![q] = x],
         Explained(x), Follows(assessment[q], x),
         x.lifecycle_state = "Covered" => Satisfying(q) # {}
  PROVE  PositionsKept
<1>1. assessment' \in [Requirement -> Assessment]
  BY DEF IInv, ComplianceTypeOK
<1>2. ASSUME NEW p \in Requirement
      PROVE  /\ Explained(assessment'[p]) /\ Follows(assessment[p], assessment'[p])
             /\ assessment'[p].lifecycle_state = "Covered" => Satisfying(p) # {}
  <2>1. CASE p = q
    BY <2>1 DEF IInv, ComplianceTypeOK
  <2>2. CASE p # q
    BY <2>2, PositionsRead DEF IInv, ComplianceTypeOK, Follows
  <2> QED
    BY <2>1, <2>2
<1> QED
  BY <1>1, <1>2 DEF PositionsKept, CoveredIsAsserted, Satisfying

LEMMA AssessKeeps ==
  ASSUME IInv, NEW q \in Requirement, NEW target \in AssessmentStates,
         NEW rationale \in {"Kept", "Given", "Blank"},
         NEW expiry \in {"None", "Current", "Lapsed"},
         Assess(q, target, rationale, expiry)
  PROVE  PositionsKept
<1> DEFINE c == Carried(q, target, rationale, expiry)
           x == [c EXCEPT !.lifecycle_state = target]
<1>1. assessment[q] \in Assessment
  BY PositionsRead
<1>2. c \in Assessment /\ (c.gap_reason <=> target = "Gap")
  BY <1>1 DEF Carried, Assessment
<1>3. /\ x \in Assessment /\ x.lifecycle_state = target
      /\ x.gap_reason <=> target = "Gap"
  BY <1>2 DEF Assessment
<1>4. /\ assessment' = [assessment EXCEPT ![q] = x]
      /\ <<assessment[q].lifecycle_state, target>> \in Edges
      /\ Rules(q, x)
      /\ UNCHANGED link
  BY DEF Assess
<1>5. Explained(x)
  BY <1>3, <1>4 DEF Rules, Explained
<1>6. target = "Covered" => Satisfying(q) # {}
  BY <1>3, <1>4 DEF Rules, CoverageIsLive
<1>7. Follows(assessment[q], x)
  BY <1>3, <1>4 DEF Follows
<1> QED
  BY <1>3, <1>4, <1>5, <1>6, <1>7, OnePositionWritten

LEMMA ExpiryKeeps ==
  ASSUME IInv, NEW q \in Requirement, ExpiryPasses(q)
  PROVE  PositionsKept
<1> DEFINE x == [assessment[q] EXCEPT !.compensating_expiry = "Lapsed"]
<1>1. assessment[q] \in Assessment /\ Explained(assessment[q])
  BY PositionsRead
<1>2. x \in Assessment /\ Explained(x) /\ Follows(assessment[q], x)
  BY <1>1 DEF Assessment, Explained, Follows
<1>3. x.lifecycle_state = assessment[q].lifecycle_state
  BY <1>1 DEF Assessment
<1>4. assessment' = [assessment EXCEPT ![q] = x] /\ UNCHANGED link
  BY DEF ExpiryPasses
<1> QED
  BY <1>2, <1>3, <1>4, PositionsRead, OnePositionWritten

LEMMA RevalidateKeeps ==
  ASSUME IInv, NEW q \in Requirement, NEW o \in Objective,
         NEW level \in Levels \cup {"None"},
         link' = [link EXCEPT ![q][o] = level], Revalidate(q)
  PROVE  PositionsKept /\ link' \in [Requirement -> [Objective -> Levels \cup {"None"}]]
<1>1. link' \in [Requirement -> [Objective -> Levels \cup {"None"}]]
  BY DEF IInv, ComplianceTypeOK
<1>2. ASSUME NEW p \in Requirement, p # q
      PROVE  link'[p] = link[p]
  BY <1>2 DEF IInv, ComplianceTypeOK
<1>3. CASE /\ assessment[q].lifecycle_state = "Covered"
           /\ \A p \in Objective : link'[q][p] \notin SatisfyingLevels
  <2> DEFINE x == ToGap(assessment[q])
  <2>1. assessment' = [assessment EXCEPT ![q] = x]
    BY <1>3 DEF Revalidate
  <2>2. /\ x \in Assessment /\ Explained(x) /\ Follows(assessment[q], x)
        /\ x.lifecycle_state = "Gap"
    BY <1>3, PositionsRead, GapsAreSound
  <2>3. assessment' \in [Requirement -> Assessment]
    BY <2>1, <2>2 DEF IInv, ComplianceTypeOK
  <2>4. ASSUME NEW p \in Requirement
        PROVE  /\ Explained(assessment'[p]) /\ Follows(assessment[p], assessment'[p])
               /\ assessment'[p].lifecycle_state = "Covered" =>
                    \E r \in Objective : link'[p][r] \in SatisfyingLevels
    <3>1. CASE p = q
      BY <2>1, <2>2, <3>1 DEF IInv, ComplianceTypeOK
    <3>2. CASE p # q
      BY <1>2, <2>1, <3>2, PositionsRead DEF IInv, ComplianceTypeOK, Follows, Satisfying
    <3> QED
      BY <3>1, <3>2
  <2> QED
    BY <1>1, <2>3, <2>4 DEF PositionsKept, CoveredIsAsserted, Satisfying
<1>4. CASE ~(/\ assessment[q].lifecycle_state = "Covered"
             /\ \A p \in Objective : link'[q][p] \notin SatisfyingLevels)
  <2>1. assessment' = assessment
    BY <1>4 DEF Revalidate
  <2>2. ASSUME NEW p \in Requirement, assessment[p].lifecycle_state = "Covered"
        PROVE  \E r \in Objective : link'[p][r] \in SatisfyingLevels
    BY <1>2, <1>4, <2>2, PositionsRead DEF Satisfying
  <2> QED
    BY <1>1, <2>1, <2>2, PositionsRead
       DEF PositionsKept, CoveredIsAsserted, Satisfying, Follows, IInv, ComplianceTypeOK
<1> QED
  BY <1>3, <1>4

LEMMA RevokeKeeps ==
  ASSUME IInv, NEW o \in Objective, Revoke(o), UNCHANGED link
  PROVE  PositionsKept
<1>1. ASSUME NEW q \in Requirement
      PROVE  /\ assessment'[q] \in Assessment
             /\ Explained(assessment'[q]) /\ Follows(assessment[q], assessment'[q])
             /\ assessment'[q].lifecycle_state = "Covered" => Satisfying(q) # {}
  <2>1. CASE assessment'[q] = assessment[q]
    BY <2>1, PositionsRead DEF Follows
  <2>2. CASE assessment[q].lifecycle_state = "Covered" /\ assessment'[q] = ToGap(assessment[q])
    BY <2>2, PositionsRead, GapsAreSound
  <2> QED
    BY <2>1, <2>2 DEF Revoke
<1>2. assessment' \in [Requirement -> Assessment]
  BY <1>1 DEF Revoke
<1> QED
  BY <1>1, <1>2 DEF PositionsKept, CoveredIsAsserted, Satisfying

-----------------------------------------------------------------------------
(* Steps                                                                   *)

LEMMA PositionSteps ==
  ASSUME IInv, NEW q \in Requirement, Position(q)
  PROVE  ComplianceTypeOK' /\ PositionsKept
<1>1. UNCHANGED <<adopted, scope, objective, live>>
  BY DEF Position, Assess, LinkControl, SetCoverageLevel, SetLink, UnlinkControl, ExpiryPasses
<1>2. /\ PositionsKept
      /\ link' \in [Requirement -> [Objective -> Levels \cup {"None"}]]
  <2>1. ASSUME NEW target \in AssessmentStates, NEW rationale \in {"Kept", "Given", "Blank"},
               NEW expiry \in {"None", "Current", "Lapsed"},
               Assess(q, target, rationale, expiry)
        PROVE  PositionsKept
    BY <2>1, AssessKeeps
  <2>2. ASSUME ExpiryPasses(q)
        PROVE  PositionsKept
    BY <2>2, ExpiryKeeps
  <2>3. ASSUME NEW o \in Objective, NEW level \in Levels, SetLink(q, o, level)
        PROVE  /\ PositionsKept
               /\ link' \in [Requirement -> [Objective -> Levels \cup {"None"}]]
    BY <2>3, RevalidateKeeps DEF SetLink
  <2>4. ASSUME NEW o \in Objective, UnlinkControl(q, o)
        PROVE  /\ PositionsKept
               /\ link' \in [Requirement -> [Objective -> Levels \cup {"None"}]]
    BY <2>4, RevalidateKeeps DEF UnlinkControl
  <2>5. ASSUME UNCHANGED link
        PROVE  link' \in [Requirement -> [Objective -> Levels \cup {"None"}]]
    BY <2>5 DEF IInv, ComplianceTypeOK
  <2> QED
    BY <2>1, <2>2, <2>3, <2>4, <2>5
       DEF Position, LinkControl, SetCoverageLevel, SetLink, Assess, ExpiryPasses
<1> QED
  BY <1>1, <1>2 DEF IInv, ComplianceTypeOK, PositionsKept

\* Adoption, a restart and the assets declare; they write no position.
LEMMA DeclarationSteps ==
  ASSUME IInv,
         \/ \E f \in Framework : SetAdoption(f)
         \/ Restart
         \/ \E a \in Asset, scopes \in SUBSET Framework : SetAssetScopes(a, scopes)
  PROVE  ComplianceTypeOK' /\ PositionsKept
<1>1. UNCHANGED <<assessment, link, objective, live>>
  BY DEF SetAdoption, Restart, SetAssetScopes
<1>2. adopted' \in SUBSET Framework /\ scope' \in [Asset -> SUBSET Framework]
  BY ComplianceAssumption
     DEF IInv, ComplianceTypeOK, SetAdoption, Restart, SetAssetScopes
<1> QED
  BY <1>1, <1>2, NoPositionWritten DEF IInv, ComplianceTypeOK

LEMMA LibrarySteps ==
  ASSUME IInv,
         \/ \E o \in Objective :
              \/ ObjectiveOperates(o) \/ ObjectiveFails(o)
              \/ ObjectiveRedesigned(o) \/ ObjectiveDeprecated(o)
         \/ \E d \in Deployment :
              DeploymentFails(d) \/ DeploymentDecommissioned(d) \/ DeploymentGoesLive(d)
  PROVE  ComplianceTypeOK' /\ PositionsKept
<1> USE DEF IInv, ComplianceTypeOK
<1>1. UNCHANGED <<adopted, link, scope>>
  BY DEF ObjectiveOperates, ObjectiveFails, ObjectiveRedesigned, ObjectiveDeprecated,
         DeploymentFails, DeploymentDecommissioned, DeploymentGoesLive
<1>2. /\ objective' \in [Objective -> {"Building", "Operating", "Failure", "Deprecated"}]
      /\ live' \in SUBSET Deployment
  BY ComplianceAssumption
     DEF ObjectiveOperates, ObjectiveFails, ObjectiveRedesigned, ObjectiveDeprecated,
         DeploymentFails, DeploymentDecommissioned, DeploymentGoesLive
<1>3. UNCHANGED assessment \/ \E o \in Objective : Revoke(o)
  BY ComplianceAssumption
     DEF ObjectiveOperates, ObjectiveFails, ObjectiveRedesigned, ObjectiveDeprecated,
         DeploymentFails, DeploymentDecommissioned, DeploymentGoesLive
<1>4. PositionsKept
  BY <1>1, <1>3, NoPositionWritten, RevokeKeeps
<1> QED
  BY <1>1, <1>2, <1>4 DEF PositionsKept

LEMMA StepsKeep ==
  ASSUME IInv, [Next]_vars
  PROVE  IInv' /\ PositionsKept
<1>1. CASE UNCHANGED vars
  <2>1. PositionsKept
    BY <1>1, NoPositionWritten DEF vars
  <2> QED
    BY <1>1, <2>1
       DEF vars, IInv, ComplianceTypeOK, PositionsAreGrounded, PositionsExplained,
           CoveredIsAsserted, Satisfying
<1>2. CASE Next
  <2>1. ComplianceTypeOK' /\ PositionsKept
    BY <1>2, PositionSteps, DeclarationSteps, LibrarySteps DEF Next, Estate
  <2> QED
    BY <2>1 DEF IInv, PositionsAreGrounded, PositionsExplained, PositionsKept, Explained
<1> QED
  BY <1>1, <1>2

LEMMA InitEstablishes == Init => IInv
  BY ComplianceAssumption
     DEF Init, IInv, ComplianceTypeOK, PositionsAreGrounded, PositionsExplained,
         CoveredIsAsserted, Assessment, AssessmentStates

-----------------------------------------------------------------------------
(* Theorems                                                                *)

\* Types and grounded positions form an inductive invariant of compliance.
THEOREM Inductive == Spec => []IInv
<1>1. IInv /\ [Next]_vars => IInv'
  BY StepsKeep
<1> QED
  BY <1>1, InitEstablishes, PTL DEF Spec

\* Types: every request, edit, restart and cascade leaves typed records.
THEOREM Typing == Spec => []ComplianceTypeOK
<1>1. IInv => ComplianceTypeOK
  BY DEF IInv
<1> QED
  BY <1>1, Inductive, PTL

\* AINV-1, 3 and 4 at rest: what a position claims is on record beside it,
\* however links, controls, frameworks and assets change under it.
THEOREM PositionsStayGrounded == Spec => []PositionsAreGrounded
<1>1. IInv => PositionsAreGrounded
  BY DEF IInv
<1> QED
  BY <1>1, Inductive, PTL

\* AINV-5: the step that takes an objective out of operation leaves nothing
\* covered that no other operating objective satisfies.
THEOREM LossesRevoke == Spec => LossRevokes
<1>1. ASSUME IInv, [Next]_vars, NEW o \in Objective, NEW q \in Requirement,
             objective[o] = "Operating", objective'[o] # "Operating",
             o \in Satisfying(q), assessment'[q].lifecycle_state = "Covered"
      PROVE  \E p \in Satisfying(q) : objective'[p] = "Operating"
  <2> USE <1>1 DEF IInv, ComplianceTypeOK
  <2>1. Revoke(o) /\ \A p \in Objective \ {o} : objective'[p] = objective[p]
    <3>1. \/ ObjectiveFails(o) \/ ObjectiveDeprecated(o)
          \/ \E d \in Deployment : DeploymentFails(d) /\ ObjectiveOf[d] = o
      <4>1. Estate
        BY DEF Next, vars, Position, Assess, LinkControl, SetCoverageLevel, SetLink,
               UnlinkControl, ExpiryPasses, SetAdoption, Restart
      <4> QED
        BY <4>1, ComplianceAssumption
           DEF Estate, ObjectiveOperates, ObjectiveFails, ObjectiveRedesigned,
               ObjectiveDeprecated, DeploymentFails, DeploymentDecommissioned,
               DeploymentGoesLive, SetAssetScopes
    <3> QED
      BY <3>1 DEF ObjectiveFails, ObjectiveDeprecated, DeploymentFails
  <2>2. assessment'[q].lifecycle_state # "Gap"
    OBVIOUS
  <2>3. assessment[q].lifecycle_state = "Covered" =>
          \E p \in Satisfying(q) \ {o} : objective[p] = "Operating"
    BY <2>1, <2>2, PositionsRead, GapsAreSound DEF Revoke
  <2>4. assessment[q].lifecycle_state = "Covered"
    BY <2>1, <2>3 DEF Revoke
  <2> QED
    BY <2>1, <2>3, <2>4 DEF Satisfying
<1>2. IInv /\ [Next]_vars => [\A o \in Objective, q \in Requirement :
       /\ objective[o] = "Operating" /\ objective'[o] # "Operating"
       /\ o \in Satisfying(q)
       /\ assessment'[q].lifecycle_state = "Covered"
       => \E p \in Satisfying(q) : objective'[p] = "Operating"]_vars
  BY <1>1
<1> QED
  BY <1>2, Inductive, PTL DEF Spec, LossRevokes

\* Requests, link edits and the cascades that write the column move every
\* position along one declared edge of the machine, or leave it.
THEOREM MachineFollowed == Spec => FollowsAssessmentMachine
<1> DEFINE state == [q \in Requirement |-> assessment[q].lifecycle_state]
<1>1. Init => AssessmentEngine!Init
  BY DEF Init, AssessmentEngine!Init
<1>2. IInv /\ [Next]_vars => [AssessmentEngine!Fire]_state
  <2> SUFFICES ASSUME IInv, [Next]_vars PROVE AssessmentEngine!Fire
    OBVIOUS
  <2>1. PositionsKept
    BY StepsKeep
  <2>2. ASSUME NEW q \in Requirement
        PROVE  /\ assessment'[q].lifecycle_state \in AssessmentStates
               /\ AssessmentEngine!Moves(assessment[q].lifecycle_state,
                                         assessment'[q].lifecycle_state)
    <3>1. assessment[q] \in Assessment /\ assessment'[q] \in Assessment
      BY <2>1, PositionsRead DEF PositionsKept
    <3>2. Follows(assessment[q], assessment'[q])
      BY <2>1 DEF PositionsKept
    <3> QED
      BY <3>1, <3>2 DEF Follows, Assessment, AssessmentEngine!Moves, AssessmentEngine!Lookup
  <2> QED
    BY <2>2 DEF AssessmentEngine!Fire
<1> QED
  BY <1>1, <1>2, Inductive, PTL DEF Spec, FollowsAssessmentMachine, AssessmentEngine!Spec

=============================================================================
