------------------------ MODULE ThreatModelling_proofs ------------------------
(***************************************************************************)
(* Proofs about threat modelling, for any number of models, scenarios,     *)
(* deployments, risks and people.                                          *)
(***************************************************************************)
EXTENDS ThreatModelling, TLAPS

(* What a scenario's status and its promotion rest on.                     *)
Earned(x) ==
  /\ x.status # Absent => x.component_id \in Component
  /\ x.status = Absent => LinkedTo(x) = {}
  /\ x.status = "Mitigated" => FullyMitigated(x) /\ BackedByLive(x)
  /\ x.status = "Accepted" => ~Promotable(x) /\ x.acceptance # "None"
  /\ x.promoted_risk_id # Nobody => Listed(x.promoted_risk_id)
  /\ x.status = "Promoted_To_Risk" => x.promoted_risk_id # Nobody

\* A scenario of an Active model is not left open.
Settled(x) ==
  x.status # Absent /\ model[ModelOf[x.component_id]].lifecycle_state = "Active" => Resolved(x)

Signed(x) ==
  x.lifecycle_state = "Active" => x.appsec_signoff_by # Nobody /\ x.owner_signoff_by # Nobody

IInv ==
  /\ ThreatTypeOK
  /\ \A s \in Scenario : Earned(scenario[s]) /\ Settled(scenario[s])
  /\ \A m \in Model : Signed(model[m])

LEMMA InvariantSays == IInv => EndStatesAreEarned /\ ActiveIsSettled
<1> SUFFICES ASSUME IInv PROVE EndStatesAreEarned /\ ActiveIsSettled
  OBVIOUS
<1>1. EndStatesAreEarned
  BY DEF IInv, Earned, EndStatesAreEarned
<1>2. ActiveIsSettled
  BY DEF IInv, Settled, Signed, ActiveIsSettled, ScenariosOf, Exists
<1> QED
  BY <1>1, <1>2

-----------------------------------------------------------------------------
(* Writes of one record                                                    *)

\* A record of a model that is signed and, when Active, has no open scenario.
LEMMA ModelWrite ==
  ASSUME IInv, NEW m \in Model, NEW x \in ModelRecord, Signed(x),
         model' = [model EXCEPT ![m] = x],
         UNCHANGED <<component, scenario, deployment, register>>,
         x.lifecycle_state = "Active" =>
           \/ model[m].lifecycle_state = "Active"
           \/ \A s \in ScenariosOf(m) : Resolved(scenario[s])
  PROVE  IInv'
<1>1. ThreatTypeOK'
  BY DEF IInv, ThreatTypeOK
<1>2. \A n \in Model : Signed(model'[n])
  BY DEF IInv, ThreatTypeOK
<1>3. ASSUME NEW s \in Scenario
      PROVE  Earned(scenario[s])'
  BY DEF IInv, Earned, BackedByLive, Listed
<1>4. ASSUME NEW s \in Scenario
      PROVE  Settled(scenario[s])'
  <2> DEFINE y == scenario[s]
             n == ModelOf[y.component_id]
  <2>1. Settled(y) /\ Earned(y)
    BY DEF IInv
  <2>2. n = m /\ y.status # Absent => s \in ScenariosOf(m)
    BY DEF ScenariosOf, Exists
  <2>3. y.status # Absent => n \in Model
    BY <2>1, ThreatAssumption DEF Earned
  <2>4. y.status # Absent /\ model'[n].lifecycle_state = "Active" => Resolved(y)
    BY <2>1, <2>2, <2>3 DEF Settled, IInv, ThreatTypeOK
  <2> QED
    BY <2>4 DEF Settled, Resolved, CarriedByRegister
<1> QED
  BY <1>1, <1>2, <1>3, <1>4 DEF IInv, Signed

\* One scenario is written, and the register only grows.
LEMMA OneScenario ==
  ASSUME IInv, NEW s \in Scenario, NEW x \in ScenarioRecord,
         scenario' = [scenario EXCEPT ![s] = x],
         UNCHANGED <<model, component, deployment>>,
         register' \in [Risk -> Origins],
         \A r \in Risk : Listed(r) => register'[r] # Absent,
         Earned(x)', Settled(x)'
  PROVE  IInv'
<1>1. ThreatTypeOK'
  BY DEF IInv, ThreatTypeOK
<1>2. ASSUME NEW u \in Scenario
      PROVE  Earned(scenario[u])' /\ Settled(scenario[u])'
  <2>1. CASE u = s
    <3>1. scenario'[u] = x
      BY <2>1 DEF IInv, ThreatTypeOK
    <3> QED
      BY <3>1 DEF Earned, Settled, BackedByLive, Listed, Resolved, CarriedByRegister
  <2>2. CASE u # s
    <3>1. scenario'[u] = scenario[u] /\ scenario[u] \in ScenarioRecord
      BY <2>2 DEF IInv, ThreatTypeOK
    <3>2. scenario[u].promoted_risk_id \in Risk \cup {Nobody}
      BY <3>1 DEF ScenarioRecord
    <3>3. Earned(scenario[u]) /\ Settled(scenario[u])
      BY DEF IInv
    <3> QED
      BY <3>1, <3>2, <3>3 DEF Earned, Settled, BackedByLive, Listed, Resolved,
                              CarriedByRegister
  <2> QED
    BY <2>1, <2>2
<1> QED
  BY <1>1, <1>2 DEF IInv, Signed

\* A scenario stored through the rules of its module.
LEMMA ScenarioWrite ==
  ASSUME IInv, NEW s \in Scenario, NEW x \in ScenarioRecord, StoreScenario(s, x),
         x.status # Absent, x.component_id \in Component,
         register' \in [Risk -> Origins],
         \A r \in Risk : Listed(r) => register'[r] # Absent,
         x.promoted_risk_id # Nobody => register'[x.promoted_risk_id] # Absent
  PROVE  IInv'
<1>1. /\ scenario' = [scenario EXCEPT ![s] = x]
      /\ ScenarioRules(ModelOf[x.component_id], x)
      /\ UNCHANGED <<model, component, deployment>>
  BY DEF StoreScenario
<1>2. Earned(x)' /\ Settled(x)'
  BY <1>1 DEF ScenarioRules, Earned, Settled, BackedByLive, Listed, Resolved,
              CarriedByRegister
<1> QED
  BY <1>1, <1>2, OneScenario

-----------------------------------------------------------------------------
(* Models and components                                                   *)

LEMMA ModelStepKeeps ==
  ASSUME IInv, NEW m \in Model, ModelStep(m)
  PROVE  IInv'
<1> DEFINE x == model[m]
<1>0. x \in ModelRecord /\ Signed(x) /\ Nobody \notin Person
  BY ThreatAssumption DEF IInv, ThreatTypeOK
<1>1. ASSUME NEW owner \in Person, NEW partner \in Person \cup {Nobody},
             CreateModel(m, owner, partner)
      PROVE  IInv'
  <2> DEFINE y == [NewModel EXCEPT !.lifecycle_state = "Scope", !.system_owner_id = owner,
                                   !.appsec_partner_id = partner]
  <2>1. model' = [model EXCEPT ![m] = y] /\ ModelRules(m, y)
        /\ UNCHANGED <<component, scenario, deployment, register>>
    BY <1>1 DEF CreateModel, StoreModel
  <2>2. NewModel \in ModelRecord
    BY DEF NewModel, ModelRecord
  <2>3. y.system_owner_id = owner /\ y.appsec_partner_id = partner
    BY <2>2 DEF ModelRecord
  <2>4. y \in ModelRecord /\ y.lifecycle_state = "Scope"
    BY <2>1, <2>2, <2>3 DEF ModelRules, ModelRecord, ThreatModelStates
  <2> HIDE DEF y
  <2> QED
    BY <2>1, <2>4, ModelWrite DEF Signed
<1>2. ASSUME NEW owner \in Person, NEW partner \in Person \cup {Nobody},
             UpdateModel(m, owner, partner)
      PROVE  IInv'
  <2> DEFINE y == [x EXCEPT !.system_owner_id = owner, !.appsec_partner_id = partner]
  <2>1. model' = [model EXCEPT ![m] = y] /\ ModelRules(m, y)
        /\ UNCHANGED <<component, scenario, deployment, register>>
    BY <1>2 DEF UpdateModel, StoreModel
  <2>2. y.system_owner_id = owner /\ y.appsec_partner_id = partner
    BY <1>0 DEF ModelRecord
  <2>3. y \in ModelRecord /\ y.lifecycle_state = x.lifecycle_state
        /\ y.appsec_signoff_by = x.appsec_signoff_by
        /\ y.owner_signoff_by = x.owner_signoff_by
    BY <1>0, <2>1, <2>2 DEF ModelRules, ModelRecord
  <2> HIDE DEF y
  <2> QED
    BY <1>0, <2>1, <2>3, ModelWrite DEF Signed
<1>3. ASSUME NEW actor \in Person, SignOffAppSec(m, actor) \/ SignOffOwner(m, actor)
      PROVE  IInv'
  <2>1. PICK y \in {[x EXCEPT !.appsec_signoff_by = actor], [x EXCEPT !.owner_signoff_by = actor]} :
          model' = [model EXCEPT ![m] = y]
          /\ UNCHANGED <<component, scenario, deployment, register>>
    BY <1>3 DEF SignOffAppSec, SignOffOwner
  <2>2. y \in ModelRecord /\ Signed(y) /\ y.lifecycle_state = x.lifecycle_state
    <3>1. actor \in Person \cup {Nobody} /\ actor # Nobody
      BY <1>0
    <3>2. CASE y = [x EXCEPT !.appsec_signoff_by = actor]
      BY <1>0, <3>1, <3>2 DEF ModelRecord, Signed
    <3>3. CASE y = [x EXCEPT !.owner_signoff_by = actor]
      BY <1>0, <3>1, <3>3 DEF ModelRecord, Signed
    <3> QED
      BY <2>1, <3>2, <3>3
  <2> QED
    BY <2>1, <2>2, ModelWrite
<1>4. ASSUME NEW source, NEW target \in ThreatModelStates, ModelGate(m, source, target),
             target = "Active" => \A s \in ScenariosOf(m) : Resolved(scenario[s])
      PROVE  IInv'
  <2> DEFINE y == [x EXCEPT !.lifecycle_state = target]
  <2>1. model' = [model EXCEPT ![m] = y] /\ ModelRules(m, y)
        /\ UNCHANGED <<component, scenario, deployment, register>>
    BY <1>4 DEF ModelGate, StoreModel
  <2>2. y \in ModelRecord /\ y.lifecycle_state = target
    BY <1>0 DEF ModelRecord
  <2>3. Signed(y)
    BY <2>1 DEF ModelRules, Signed
  <2> HIDE DEF y
  <2> QED
    BY <1>4, <2>1, <2>2, <2>3, ModelWrite
<1>5. CASE Decompose(m) \/ Analyse(m) \/ DesignMitigations(m) \/ SubmitForReview(m)
           \/ Rework(m) \/ Deprecate(m)
  BY <1>4, <1>5 DEF Decompose, Analyse, DesignMitigations, SubmitForReview, Rework,
                    Deprecate, ThreatModelStates
<1>6. CASE Activate(m)
  BY <1>4, <1>6 DEF Activate, ThreatModelStates
<1>7. CASE Reopen(m)
  <2> DEFINE y == [Stripped(x) EXCEPT !.lifecycle_state = "Review"]
  <2>1. model' = [model EXCEPT ![m] = y]
        /\ UNCHANGED <<component, scenario, deployment, register>>
    BY <1>7 DEF Reopen, StoreModel
  <2>2. y \in ModelRecord /\ y.lifecycle_state = "Review"
    BY <1>0 DEF Stripped, ModelRecord, ThreatModelStates
  <2> HIDE DEF y
  <2> QED
    BY <2>1, <2>2, ModelWrite DEF Signed
<1>8. CASE Abandon(m)
  <2> DEFINE y == [x EXCEPT !.lifecycle_state = "Abandoned"]
  <2>1. model' = [model EXCEPT ![m] = y]
        /\ UNCHANGED <<component, scenario, deployment, register>>
    BY <1>8 DEF Abandon, StoreModel
  <2>2. y \in ModelRecord /\ y.lifecycle_state = "Abandoned"
    BY <1>0 DEF ModelRecord, ThreatModelStates
  <2> HIDE DEF y
  <2> QED
    BY <2>1, <2>2, ModelWrite DEF Signed
<1> QED
  BY <1>1, <1>2, <1>3, <1>5, <1>6, <1>7, <1>8 DEF ModelStep

LEMMA ComponentStepKeeps ==
  ASSUME IInv, NEW c \in Component, ComponentStep(c)
  PROVE  IInv'
<1>1. PICK declared \in Declarations \cup {Absent} : StoreComponent(c, declared)
  BY DEF ComponentStep, AddComponent, UpdateComponent, DeleteComponent
<1>2. component' = [component EXCEPT ![c] = declared]
      /\ UNCHANGED <<model, scenario, deployment, register>>
  BY <1>1 DEF StoreComponent
<1>3. ThreatTypeOK'
  BY <1>1, <1>2 DEF IInv, ThreatTypeOK
<1> QED
  BY <1>2, <1>3 DEF IInv, Earned, Settled, Signed, BackedByLive, Listed, Resolved,
                    CarriedByRegister

-----------------------------------------------------------------------------
(* Scenarios and the register                                              *)

\* A stored scenario under a register that does not change.
LEMMA ScenarioEdit ==
  ASSUME IInv, NEW s \in Scenario, NEW x \in ScenarioRecord, StoreScenario(s, x),
         x.status # Absent, x.component_id \in Component, UNCHANGED register,
         x.promoted_risk_id \in {scenario[s].promoted_risk_id, Nobody}
  PROVE  IInv'
<1>1. register' \in [Risk -> Origins] /\ \A r \in Risk : Listed(r) => register'[r] # Absent
  BY DEF IInv, ThreatTypeOK, Listed
<1>2. x.promoted_risk_id # Nobody => register'[x.promoted_risk_id] # Absent
  BY DEF IInv, Earned, Listed
<1> QED
  BY <1>1, <1>2, ScenarioWrite

LEMMA OpenedRecord ==
  ASSUME NEW x \in ScenarioRecord
  PROVE  LET y == [x EXCEPT !.status = "Identified", !.overdue = FALSE]
         IN  /\ y \in ScenarioRecord /\ y.status = "Identified"
             /\ y.component_id = x.component_id
             /\ y.promoted_risk_id = x.promoted_risk_id
  BY DEF ScenarioRecord

LEMMA LinkedRecord ==
  ASSUME NEW x \in ScenarioRecord, NEW d \in Deployment, NEW a \in {"None", "Partial", "Full"}
  PROVE  LET y == [x EXCEPT !.mitigations[d] = a]
         IN  /\ y \in ScenarioRecord /\ y.status = x.status
             /\ y.component_id = x.component_id
             /\ y.promoted_risk_id = x.promoted_risk_id
  BY DEF ScenarioRecord

LEMMA ScenarioStepKeeps ==
  ASSUME IInv, NEW s \in Scenario, ScenarioStep(s)
  PROVE  IInv'
<1> DEFINE x == scenario[s]
<1>0. x \in ScenarioRecord /\ Earned(x)
  BY DEF IInv, ThreatTypeOK
<1>1. ASSUME NEW c \in Component, NEW severity \in Severities, AddScenario(s, c, severity)
      PROVE  IInv'
  <2> DEFINE y == [NewScenario EXCEPT !.status = "Identified", !.component_id = c,
                                      !.inherent_severity = severity, !.overdue = FALSE]
  <2>1. StoreScenario(s, y) /\ UNCHANGED register
    BY <1>1 DEF AddScenario
  <2>2. NewScenario \in ScenarioRecord /\ NewScenario.promoted_risk_id = Nobody
    BY DEF NewScenario, ScenarioRecord
  <2>3. /\ y \in ScenarioRecord /\ y.status = "Identified" /\ y.component_id = c
        /\ y.promoted_risk_id = Nobody
    BY <2>2 DEF ScenarioRecord
  <2> HIDE DEF y
  <2> QED
    BY <2>1, <2>3, ScenarioEdit DEF Absent
<1>2. ASSUME NEW c \in Component, NEW severity \in Severities, UpdateScenario(s, c, severity)
      PROVE  IInv'
  <2> DEFINE y == [x EXCEPT !.component_id = c, !.inherent_severity = severity]
  <2>1. StoreScenario(s, y) /\ UNCHANGED register /\ x.status # Absent
    BY <1>2 DEF UpdateScenario, Exists
  <2>2. /\ y \in ScenarioRecord /\ y.status = x.status /\ y.component_id = c
        /\ y.promoted_risk_id = x.promoted_risk_id
    BY <1>0 DEF ScenarioRecord
  <2> HIDE DEF y
  <2> QED
    BY <2>1, <2>2, ScenarioEdit
<1>3. ASSUME NEW d \in Deployment, NEW assurance \in {"Partial", "Full"}, Mitigate(s, d, assurance)
      PROVE  IInv'
  <2> DEFINE y == [x EXCEPT !.mitigations[d] = assurance]
  <2>1. StoreScenario(s, Settle(y)) /\ UNCHANGED register /\ x.status # Absent
    BY <1>3 DEF Mitigate, Exists
  <2>2. /\ y \in ScenarioRecord /\ y.status = x.status /\ y.component_id = x.component_id
        /\ y.promoted_risk_id = x.promoted_risk_id
    <3>1. assurance \in {"None", "Partial", "Full"}
      OBVIOUS
    <3> QED
      BY <1>0, <3>1, LinkedRecord
  <2> HIDE DEF y
  <2>3. LET z == [y EXCEPT !.status = "Mitigated"]
        IN  /\ z \in ScenarioRecord /\ z.status = "Mitigated"
            /\ z.component_id = y.component_id /\ z.promoted_risk_id = y.promoted_risk_id
    BY <2>2 DEF ScenarioRecord
  <2>4. /\ Settle(y) \in ScenarioRecord /\ Settle(y).status # Absent
        /\ Settle(y).component_id = x.component_id
        /\ Settle(y).promoted_risk_id = x.promoted_risk_id
    BY <2>1, <2>2, <2>3, OpenedRecord DEF Settle, Absent
  <2> QED
    BY <1>0, <2>1, <2>4, ScenarioEdit DEF Earned
<1>4. ASSUME NEW d \in Deployment, UnlinkMitigation(s, d)
      PROVE  IInv'
  <2> DEFINE y == [x EXCEPT !.mitigations[d] = "None"]
             z == IF y.status = "Mitigated" /\ ~FullyMitigated(y)
                  THEN [y EXCEPT !.status = "Identified", !.overdue = FALSE] ELSE y
  <2>1. StoreScenario(s, z) /\ UNCHANGED register /\ d \in LinkedTo(x)
    BY <1>4 DEF UnlinkMitigation
  <2>2. /\ y \in ScenarioRecord /\ y.status = x.status /\ y.component_id = x.component_id
        /\ y.promoted_risk_id = x.promoted_risk_id
    BY <1>0, LinkedRecord
  <2> HIDE DEF y
  <2>3. x.status # Absent
    BY <1>0, <2>1 DEF Earned
  <2>4. /\ z \in ScenarioRecord /\ z.status # Absent /\ z.component_id = x.component_id
        /\ z.promoted_risk_id = x.promoted_risk_id
    BY <2>2, <2>3, OpenedRecord DEF Absent
  <2> HIDE DEF z
  <2> QED
    BY <1>0, <2>1, <2>3, <2>4, ScenarioEdit DEF Earned
<1>5. CASE AcceptLocally(s)
  <2> DEFINE y == [x EXCEPT !.status = "Accepted", !.acceptance = "Current"]
  <2>1. StoreScenario(s, y) /\ UNCHANGED register /\ x.status # Absent
    BY <1>5 DEF AcceptLocally, Exists
  <2>2. /\ y \in ScenarioRecord /\ y.status = "Accepted" /\ y.component_id = x.component_id
        /\ y.promoted_risk_id = x.promoted_risk_id
    BY <1>0 DEF ScenarioRecord
  <2> HIDE DEF y
  <2> QED
    BY <1>0, <2>1, <2>2, ScenarioEdit DEF Earned, Absent
<1>6. CASE ReopenScenario(s)
  <2> DEFINE y == [x EXCEPT !.status = "Identified", !.overdue = FALSE]
  <2>1. StoreScenario(s, y) /\ UNCHANGED register /\ x.status # Absent
    BY <1>6 DEF ReopenScenario, Absent
  <2>2. /\ y \in ScenarioRecord /\ y.status = "Identified" /\ y.component_id = x.component_id
        /\ y.promoted_risk_id = x.promoted_risk_id
    BY <1>0, OpenedRecord
  <2> HIDE DEF y
  <2> QED
    BY <1>0, <2>1, <2>2, ScenarioEdit DEF Earned, Absent
<1>7. CASE WindowPasses(s) \/ AcceptanceLapses(s)
  <2>1. PICK y \in {[x EXCEPT !.overdue = TRUE], [x EXCEPT !.acceptance = "Lapsed"]} :
          /\ scenario' = [scenario EXCEPT ![s] = y]
          /\ UNCHANGED <<model, component, deployment, register>>
          /\ x.status = "Identified" \/ y.acceptance # "None"
    <3>1. [x EXCEPT !.acceptance = "Lapsed"].acceptance = "Lapsed"
      BY <1>0 DEF ScenarioRecord
    <3> QED
      BY <1>7, <3>1 DEF WindowPasses, AcceptanceLapses
  <2>2. /\ y \in ScenarioRecord /\ y.status = x.status /\ y.component_id = x.component_id
        /\ y.promoted_risk_id = x.promoted_risk_id /\ y.mitigations = x.mitigations
        /\ y.risk_links = x.risk_links /\ y.inherent_severity = x.inherent_severity
    BY <1>0, <2>1 DEF ScenarioRecord
  <2>3. Earned(y)' /\ Settled(y)'
    BY <1>0, <2>1, <2>2 DEF IInv, Earned, Settled, FullyMitigated, BackedByLive, LinkedTo,
                            Promotable, Listed, Resolved, CarriedByRegister
  <2>4. register' \in [Risk -> Origins] /\ \A r \in Risk : Listed(r) => register'[r] # Absent
    BY <2>1 DEF IInv, ThreatTypeOK, Listed
  <2> QED
    BY <2>1, <2>2, <2>3, <2>4, OneScenario
<1> QED
  BY <1>1, <1>2, <1>3, <1>4, <1>5, <1>6, <1>7 DEF ScenarioStep

\* A step that only adds to the register.
LEMMA RegisterGrows ==
  ASSUME IInv, UNCHANGED <<model, component, scenario, deployment>>,
         register' \in [Risk -> Origins],
         \A r \in Risk : Listed(r) => register'[r] # Absent
  PROVE  IInv'
<1>1. ThreatTypeOK'
  BY DEF IInv, ThreatTypeOK
<1>2. ASSUME NEW s \in Scenario
      PROVE  (Earned(scenario[s]) /\ Settled(scenario[s]))'
  <2>1. scenario[s].promoted_risk_id \in Risk \cup {Nobody}
    BY DEF IInv, ThreatTypeOK, ScenarioRecord
  <2> QED
    BY <2>1 DEF IInv, Earned, Settled, BackedByLive, Listed, Resolved, CarriedByRegister
<1> QED
  BY <1>1, <1>2 DEF IInv, Signed

LEMMA RegisterLinkKeeps ==
  ASSUME IInv, NEW s \in Scenario, NEW r \in Risk, RegisterLink(s, r)
  PROVE  IInv'
<1> DEFINE x == scenario[s]
<1>0. /\ x \in ScenarioRecord /\ Earned(x) /\ register \in [Risk -> Origins]
      /\ r # Nobody /\ Absent \notin Scenario
  BY ThreatAssumption DEF IInv, ThreatTypeOK, Absent
<1>1. ASSUME NEW type \in LinkTypes, LinkRisk(s, r, type)
      PROVE  IInv'
  <2> DEFINE y == [x EXCEPT !.risk_links[r] = type]
             z == IF type = "Represents" /\ y.status = "Identified"
                  THEN [y EXCEPT !.status = "Promoted_To_Risk", !.promoted_risk_id = r]
                  ELSE y
  <2>1. StoreScenario(s, z) /\ UNCHANGED register /\ x.status # Absent /\ Listed(r)
    BY <1>1 DEF LinkRisk, Exists
  <2>2. /\ y \in ScenarioRecord /\ y.status = x.status /\ y.component_id = x.component_id
        /\ y.promoted_risk_id = x.promoted_risk_id
    BY <1>0, <1>1 DEF ScenarioRecord
  <2> HIDE DEF y
  <2>3. LET w == [y EXCEPT !.status = "Promoted_To_Risk", !.promoted_risk_id = r]
        IN  /\ w \in ScenarioRecord /\ w.status = "Promoted_To_Risk"
            /\ w.component_id = y.component_id /\ w.promoted_risk_id = r
    BY <2>2 DEF ScenarioRecord
  <2>4. /\ z \in ScenarioRecord /\ z.status # Absent /\ z.component_id = x.component_id
        /\ z.promoted_risk_id \in {x.promoted_risk_id, r}
    BY <2>1, <2>2, <2>3 DEF Absent
  <2> HIDE DEF z
  <2>5. z.promoted_risk_id # Nobody => register'[z.promoted_risk_id] # Absent
    BY <1>0, <2>1, <2>4 DEF Earned, Listed
  <2>6. register' \in [Risk -> Origins] /\ \A q \in Risk : Listed(q) => register'[q] # Absent
    BY <1>0, <2>1 DEF Listed
  <2> QED
    BY <1>0, <2>1, <2>4, <2>5, <2>6, ScenarioWrite DEF Earned
<1>2. CASE UnlinkRisk(s, r)
  <2> DEFINE y == [x EXCEPT !.risk_links[r] = "None"]
             w == [y EXCEPT !.promoted_risk_id = Nobody]
             z == IF ~(x.risk_links[r] = "Represents" /\ y.promoted_risk_id = r) THEN y
                  ELSE IF w.status = "Promoted_To_Risk"
                  THEN [w EXCEPT !.status = "Identified", !.overdue = FALSE]
                  ELSE w
  <2>1. StoreScenario(s, z) /\ UNCHANGED register /\ x.status # Absent
    BY <1>2 DEF UnlinkRisk, Exists
  <2>2. /\ y \in ScenarioRecord /\ y.status = x.status /\ y.component_id = x.component_id
        /\ y.promoted_risk_id = x.promoted_risk_id
    BY <1>0 DEF ScenarioRecord
  <2> HIDE DEF y
  <2>3. /\ w \in ScenarioRecord /\ w.status = x.status /\ w.component_id = x.component_id
        /\ w.promoted_risk_id = Nobody
    BY <2>2 DEF ScenarioRecord
  <2> HIDE DEF w
  <2>4. /\ z \in ScenarioRecord /\ z.status # Absent /\ z.component_id = x.component_id
        /\ z.promoted_risk_id \in {x.promoted_risk_id, Nobody}
    BY <2>1, <2>2, <2>3, OpenedRecord DEF Absent
  <2> HIDE DEF z
  <2> QED
    BY <1>0, <2>1, <2>4, ScenarioEdit DEF Earned
<1>3. ASSUME register' = [register EXCEPT ![r] = s], ~Listed(r)
      PROVE  /\ register' \in [Risk -> Origins]
             /\ register'[r] # Absent
             /\ \A q \in Risk : Listed(q) => register'[q] # Absent
  BY <1>0, <1>3 DEF Origins, Listed
<1>4. CASE PromoteToRisk(s, r)
  <2> DEFINE z == [x EXCEPT !.status = "Promoted_To_Risk", !.promoted_risk_id = r]
  <2>1. /\ StoreScenario(s, z) /\ x.status # Absent
        /\ register' = [register EXCEPT ![r] = s] /\ ~Listed(r)
    BY <1>4 DEF PromoteToRisk, Exists
  <2>2. /\ z \in ScenarioRecord /\ z.status # Absent /\ z.component_id = x.component_id
        /\ z.promoted_risk_id = r
    BY <1>0 DEF ScenarioRecord, Absent
  <2> HIDE DEF z
  <2> QED
    BY <1>0, <1>3, <2>1, <2>2, ScenarioWrite DEF Earned
<1>5. CASE PromotionLost(s, r)
  BY <1>3, <1>5, RegisterGrows DEF PromotionLost
<1> QED
  BY <1>1, <1>2, <1>4, <1>5 DEF RegisterLink

-----------------------------------------------------------------------------
(* The control library and the promotion job                               *)

\* Deployments change and the scenarios they backed open again.
LEMMA ReopeningKeeps ==
  ASSUME IInv, NEW D, ReopenScenarios(D), UNCHANGED <<component, register>>,
         deployment' \in [Deployment -> {"Out_Of_Service", "In_Service", "Decommissioned"}],
         \A d \in Deployment \ D : deployment[d] = "In_Service" => deployment'[d] = "In_Service"
  PROVE  IInv'
<1>0. /\ model \in [Model -> ModelRecord] /\ scenario \in [Scenario -> ScenarioRecord]
      /\ \A s \in Scenario : Earned(scenario[s]) /\ Settled(scenario[s])
      /\ \A m \in Model : Signed(model[m])
  BY DEF IInv, ThreatTypeOK
<1>1. ASSUME NEW m \in Model
      PROVE  /\ model'[m] \in ModelRecord /\ Signed(model'[m])
             /\ model'[m].lifecycle_state = "Active" =>
                  model[m].lifecycle_state = "Active" /\ ScenariosOf(m) \cap HitBy(D) = {}
  <2> DEFINE y == [Stripped(model[m]) EXCEPT !.lifecycle_state = "Review"]
  <2>1. y \in ModelRecord /\ y.lifecycle_state = "Review"
    BY <1>0 DEF Stripped, ModelRecord, ThreatModelStates
  <2>2. model'[m] = IF ScenariosOf(m) \cap HitBy(D) # {} /\ model[m].lifecycle_state = "Active"
                    THEN y ELSE model[m]
    BY DEF ReopenScenarios
  <2> HIDE DEF y
  <2> QED
    BY <1>0, <2>1, <2>2 DEF Signed
<1>2. ASSUME NEW s \in Scenario
      PROVE  /\ scenario'[s] \in ScenarioRecord
             /\ scenario'[s].status = scenario[s].status \/ scenario[s].status = "Mitigated"
             /\ scenario'[s].component_id = scenario[s].component_id
             /\ s \in HitBy(D) => /\ scenario'[s].status = "Identified"
                                  /\ scenario'[s].promoted_risk_id = scenario[s].promoted_risk_id
             /\ s \notin HitBy(D) => scenario'[s] = scenario[s]
  BY <1>0, OpenedRecord DEF ReopenScenarios, HitBy
<1>3. ASSUME NEW s \in Scenario
      PROVE  (Earned(scenario[s]) /\ Settled(scenario[s]))'
  <2>1. CASE s \in HitBy(D)
    <3>1. Earned(scenario[s])'
      BY <1>0, <1>2, <2>1 DEF Earned, HitBy, Listed, Absent
    <3>2. ModelOf[scenario[s].component_id] \in Model
          /\ s \in ScenariosOf(ModelOf[scenario[s].component_id])
      BY <1>0, <2>1, ThreatAssumption DEF HitBy, Earned, ScenariosOf, Exists, Absent
    <3>3. Settled(scenario[s])'
      BY <1>1, <1>2, <2>1, <3>2 DEF Settled
    <3> QED
      BY <3>1, <3>3
  <2>2. CASE s \notin HitBy(D)
    <3>1. scenario'[s] = scenario[s]
      BY <1>2, <2>2
    <3>2. Earned(scenario[s])'
      <4>1. scenario[s].status = "Mitigated" /\ BackedByLive(scenario[s]) =>
              BackedByLive(scenario[s])'
        BY <2>2, <3>1 DEF HitBy, BackedByLive, LinkedTo
      <4> QED
        BY <1>0, <3>1, <4>1 DEF Earned, Listed
    <3>3. Settled(scenario[s])'
      BY <1>0, <1>1, <3>1, ThreatAssumption DEF Earned, Settled, Resolved, CarriedByRegister
    <3> QED
      BY <3>2, <3>3
  <2> QED
    BY <2>1, <2>2
<1>4. ThreatTypeOK'
  <2>1. model' \in [Model -> ModelRecord]
    BY <1>1 DEF ReopenScenarios
  <2>2. scenario' \in [Scenario -> ScenarioRecord]
    BY <1>2 DEF ReopenScenarios
  <2> QED
    BY <2>1, <2>2 DEF IInv, ThreatTypeOK
<1> QED
  BY <1>1, <1>3, <1>4 DEF IInv, Signed

LEMMA DeploymentStepKeeps ==
  ASSUME IInv, NEW d \in Deployment, DeploymentStep(d)
  PROVE  IInv'
<1>0. deployment \in [Deployment -> {"Out_Of_Service", "In_Service", "Decommissioned"}]
  BY DEF IInv, ThreatTypeOK
<1>1. CASE DeploymentFails(d)
  <2>1. PICK D \in {{d}, Siblings(d)} : ReopenScenarios(D)
    BY <1>1 DEF DeploymentFails
  <2>2. d \in D
    BY <2>1 DEF Siblings
  <2> QED
    BY <1>0, <1>1, <2>1, <2>2, ReopeningKeeps DEF DeploymentFails
<1>2. CASE DeploymentDecommissioned(d)
  BY <1>0, <1>2, ReopeningKeeps DEF DeploymentDecommissioned
<1>3. CASE DeploymentRestored(d)
  <2>1. /\ deployment' = [deployment EXCEPT ![d] = "In_Service"]
        /\ UNCHANGED <<model, component, scenario, register>>
    BY <1>3 DEF DeploymentRestored
  <2>2. ThreatTypeOK'
    BY <1>0, <2>1 DEF IInv, ThreatTypeOK
  <2>3. ASSUME NEW x, BackedByLive(x)
        PROVE  BackedByLive(x)'
    BY <1>0, <2>1, <2>3 DEF BackedByLive, LinkedTo
  <2>4. ASSUME NEW s \in Scenario
        PROVE  (Earned(scenario[s]) /\ Settled(scenario[s]))'
    BY <2>1, <2>3 DEF IInv, Earned, Settled, Listed, Resolved, CarriedByRegister,
                      FullyMitigated, LinkedTo
  <2> QED
    BY <2>1, <2>2, <2>4 DEF IInv, Signed
<1> QED
  BY <1>1, <1>2, <1>3 DEF DeploymentStep

LEMMA ObjectiveFailsKeeps ==
  ASSUME IInv, NEW o \in Objective, ObjectiveFails(o)
  PROVE  IInv'
<1>1. deployment' \in [Deployment -> {"Out_Of_Service", "In_Service", "Decommissioned"}]
  BY DEF ObjectiveFails, IInv, ThreatTypeOK
<1> QED
  BY <1>1, ReopeningKeeps DEF ObjectiveFails

LEMMA JobKeeps ==
  ASSUME IInv, PromotionJob
  PROVE  IInv'
<1> PICK f \in [DueForPromotion -> Unlisted] :
      /\ scenario' = [s \in Scenario |->
           IF s \in DueForPromotion
           THEN [scenario[s] EXCEPT !.status = "Promoted_To_Risk", !.promoted_risk_id = f[s]]
           ELSE scenario[s]]
      /\ register' = [r \in Risk |->
           IF \E s \in DueForPromotion : f[s] = r
           THEN CHOOSE s \in DueForPromotion : f[s] = r ELSE register[r]]
      /\ UNCHANGED <<model, component, deployment>>
  BY DEF PromotionJob
<1>0. /\ scenario \in [Scenario -> ScenarioRecord] /\ register \in [Risk -> Origins]
      /\ DueForPromotion \subseteq Scenario /\ Absent \notin Scenario
      /\ \A s \in Scenario : Earned(scenario[s]) /\ Settled(scenario[s])
  BY ThreatAssumption DEF IInv, ThreatTypeOK, DueForPromotion, Absent
<1>1. ASSUME NEW r \in Risk
      PROVE  /\ register'[r] \in Origins
             /\ Listed(r) => register'[r] # Absent
             /\ (\E s \in DueForPromotion : f[s] = r) => register'[r] # Absent
  <2>1. CASE \E s \in DueForPromotion : f[s] = r
    <3>1. register'[r] \in DueForPromotion
      BY <2>1
    <3> QED
      BY <1>0, <3>1 DEF Origins
  <2>2. CASE ~\E s \in DueForPromotion : f[s] = r
    BY <1>0, <2>2 DEF Listed
  <2> QED
    BY <2>1, <2>2
<1>2. ASSUME NEW s \in DueForPromotion
      PROVE  /\ scenario'[s] \in ScenarioRecord
             /\ scenario'[s].status = "Promoted_To_Risk"
             /\ scenario'[s].component_id = scenario[s].component_id
             /\ scenario'[s].promoted_risk_id = f[s]
             /\ f[s] \in Risk /\ scenario[s].status # Absent
  <2>1. f[s] \in Risk /\ scenario[s].status # Absent /\ s \in Scenario
    BY <1>0 DEF Unlisted, DueForPromotion, Stale, Absent
  <2> QED
    BY <1>0, <2>1 DEF ScenarioRecord
<1>3. ASSUME NEW s \in Scenario
      PROVE  scenario'[s] \in ScenarioRecord /\ (Earned(scenario[s]) /\ Settled(scenario[s]))'
  <2>1. CASE s \in DueForPromotion
    <3>1. Earned(scenario[s])'
      <4>1. scenario[s].component_id \in Component
        BY <1>0, <1>2, <2>1 DEF Earned
      <4>2. register'[f[s]] # Absent
        BY <1>1, <1>2, <2>1
      <4>3. /\ scenario'[s].status = "Promoted_To_Risk"
            /\ scenario'[s].component_id \in Component
            /\ scenario'[s].promoted_risk_id = f[s] /\ f[s] # Nobody
        BY <1>2, <2>1, <4>1, ThreatAssumption
      <4>4. register'[scenario'[s].promoted_risk_id] # Absent
        BY <4>2, <4>3
      <4> QED
        BY <4>3, <4>4 DEF Earned, Listed, Absent
    <3>2. Settled(scenario[s])'
      BY <1>2, <2>1 DEF Settled, Resolved, CarriedByRegister
    <3> QED
      BY <1>2, <2>1, <3>1, <3>2
  <2>2. CASE s \notin DueForPromotion
    <3>1. scenario'[s] = scenario[s] /\ scenario[s] \in ScenarioRecord
      BY <1>0, <2>2
    <3>2. scenario[s].promoted_risk_id \in Risk \cup {Nobody}
      BY <3>1 DEF ScenarioRecord
    <3>3. scenario[s].promoted_risk_id # Nobody => register'[scenario[s].promoted_risk_id] # Absent
      BY <1>0, <1>1, <3>2 DEF Earned
    <3>4. Earned(scenario[s])'
      BY <1>0, <3>1, <3>3 DEF Earned, BackedByLive, Listed
    <3>5. Settled(scenario[s])'
      BY <1>0, <3>1 DEF Settled, Resolved, CarriedByRegister
    <3> QED
      BY <3>1, <3>4, <3>5
  <2> QED
    BY <2>1, <2>2
<1>4. ThreatTypeOK'
  <2>1. scenario' \in [Scenario -> ScenarioRecord]
    BY <1>3
  <2>2. register' \in [Risk -> Origins]
    BY <1>1
  <2> QED
    BY <2>1, <2>2 DEF IInv, ThreatTypeOK
<1> QED
  BY <1>3, <1>4 DEF IInv, Signed

LEMMA StepKeeps ==
  ASSUME IInv, [Next]_vars
  PROVE  IInv'
<1>1. ASSUME NEW r \in Risk, CreateRisk(r)
      PROVE  IInv'
  <2>1. /\ register' \in [Risk -> Origins]
        /\ \A q \in Risk : Listed(q) => register'[q] # Absent
    BY <1>1 DEF CreateRisk, IInv, ThreatTypeOK, Origins, Listed, Absent
  <2> QED
    BY <1>1, <2>1, RegisterGrows DEF CreateRisk
<1>2. CASE UNCHANGED vars
  <2>1. register' \in [Risk -> Origins] /\ \A q \in Risk : Listed(q) => register'[q] # Absent
    BY <1>2 DEF vars, IInv, ThreatTypeOK, Listed
  <2> QED
    BY <1>2, <2>1, RegisterGrows DEF vars
<1> QED
  BY <1>1, <1>2, ModelStepKeeps, ComponentStepKeeps, ScenarioStepKeeps, RegisterLinkKeeps,
     ObjectiveFailsKeeps, DeploymentStepKeeps, JobKeeps
     DEF Next

LEMMA InitEstablishes == Init => IInv
<1>1. NewModel \in ModelRecord /\ NewModel.lifecycle_state = Absent
  BY DEF NewModel, ModelRecord
<1>2. /\ NewScenario \in ScenarioRecord /\ NewScenario.status = Absent
      /\ NewScenario.promoted_risk_id = Nobody
      /\ \A d \in Deployment : NewScenario.mitigations[d] = "None"
  BY DEF NewScenario, ScenarioRecord
<1>3. Earned(NewScenario) /\ Settled(NewScenario) /\ Signed(NewModel)
  BY <1>1, <1>2 DEF Earned, Settled, Signed, LinkedTo, Absent
<1> QED
  BY <1>1, <1>2, <1>3 DEF Init, IInv, ThreatTypeOK, Origins

-----------------------------------------------------------------------------
(* Theorems                                                                *)

\* Types, earned end states, settled and signed Active models together are
\* an inductive invariant of threat modelling.
THEOREM Inductive == Spec => []IInv
<1>1. IInv /\ [Next]_vars => IInv'
  BY StepKeeps
<1> QED
  BY <1>1, InitEstablishes, PTL DEF Spec

\* Types, with the roles of TINV-12 at rest.
THEOREM Typing == Spec => []ThreatTypeOK
<1>1. IInv => ThreatTypeOK
  BY DEF IInv
<1> QED
  BY <1>1, Inductive, PTL

\* TINV-3, TINV-4, TINV-6 and TM-PARTIAL at rest: a scenario's end state
\* rests on live controls, an acceptance or a risk the register lists.
THEOREM EndStatesStayEarned == Spec => []EndStatesAreEarned
  BY Inductive, InvariantSays, PTL

\* TINV-1 and the presence half of TINV-2 at rest: an Active model is
\* signed twice and leaves no scenario open.
THEOREM ActiveStaysSettled == Spec => []ActiveIsSettled
  BY Inductive, InvariantSays, PTL

-----------------------------------------------------------------------------
(* How a model moves                                                       *)

\* The declared transitions with a source of their own.
Declared ==
  {<<"Scope", "Decomposition">>, <<"Decomposition", "Threat_Analysis">>,
   <<"Threat_Analysis", "Mitigation_Design">>, <<"Mitigation_Design", "Review">>,
   <<"Review", "Mitigation_Design">>, <<"Review", "Active">>, <<"Active", "Review">>,
   <<"Active", "Deprecated">>}

\* A fall back from Active takes the signatures along.
Moved(x, y) ==
  /\ \/ y.lifecycle_state = x.lifecycle_state
     \/ x.lifecycle_state = Absent /\ y.lifecycle_state = "Scope"
     \/ <<x.lifecycle_state, y.lifecycle_state>> \in Declared
     \/ x.lifecycle_state \in ThreatModelStates /\ y.lifecycle_state = "Abandoned"
  /\ x.lifecycle_state = "Active" /\ y.lifecycle_state = "Review" =>
       y = [Stripped(x) EXCEPT !.lifecycle_state = "Review"]

LEMMA ModelStepMoves ==
  ASSUME IInv, NEW n \in Model, ModelStep(n), NEW m \in Model
  PROVE  Moved(model[m], model'[m])
<1> DEFINE x == model[n]
<1>0. model \in [Model -> ModelRecord] /\ x \in ModelRecord
  BY DEF IInv, ThreatTypeOK
<1>1. ASSUME NEW y, model' = [model EXCEPT ![n] = y], Moved(x, y)
      PROVE  Moved(model[m], model'[m])
  BY <1>0, <1>1 DEF Moved
<1>2. ASSUME NEW owner, NEW partner, CreateModel(n, owner, partner)
      PROVE  Moved(model[m], model'[m])
  <2> DEFINE y == [NewModel EXCEPT !.lifecycle_state = "Scope", !.system_owner_id = owner,
                                   !.appsec_partner_id = partner]
  <2>1. model' = [model EXCEPT ![n] = y] /\ x.lifecycle_state = Absent
    BY <1>2 DEF CreateModel, StoreModel
  <2>2. y.lifecycle_state = "Scope"
    BY DEF NewModel
  <2> HIDE DEF y
  <2> QED
    BY <1>1, <2>1, <2>2 DEF Moved, Absent
<1>3. ASSUME NEW y, model' = [model EXCEPT ![n] = y], y.lifecycle_state = x.lifecycle_state
      PROVE  Moved(model[m], model'[m])
  BY <1>1, <1>3 DEF Moved
<1>4. ASSUME NEW owner, NEW partner, UpdateModel(n, owner, partner)
      PROVE  Moved(model[m], model'[m])
  <2> DEFINE y == [x EXCEPT !.system_owner_id = owner, !.appsec_partner_id = partner]
  <2>1. model' = [model EXCEPT ![n] = y]
    BY <1>4 DEF UpdateModel, StoreModel
  <2>2. y.lifecycle_state = x.lifecycle_state
    BY <1>0 DEF ModelRecord
  <2> HIDE DEF y
  <2> QED
    BY <1>3, <2>1, <2>2
<1>5. ASSUME NEW actor, SignOffAppSec(n, actor) \/ SignOffOwner(n, actor)
      PROVE  Moved(model[m], model'[m])
  <2>1. PICK y \in {[x EXCEPT !.appsec_signoff_by = actor], [x EXCEPT !.owner_signoff_by = actor]} :
          model' = [model EXCEPT ![n] = y]
    BY <1>5 DEF SignOffAppSec, SignOffOwner
  <2>2. y.lifecycle_state = x.lifecycle_state
    BY <1>0, <2>1 DEF ModelRecord
  <2> QED
    BY <1>3, <2>1, <2>2
<1>6. ASSUME NEW source, NEW target, ModelGate(n, source, target),
             <<source, target>> \in Declared \ {<<"Active", "Review">>}
      PROVE  Moved(model[m], model'[m])
  <2> DEFINE y == [x EXCEPT !.lifecycle_state = target]
  <2>1. model' = [model EXCEPT ![n] = y] /\ x.lifecycle_state = source
    BY <1>6 DEF ModelGate, StoreModel
  <2>2. y.lifecycle_state = target
    BY <1>0 DEF ModelRecord
  <2> HIDE DEF y
  <2> QED
    BY <1>1, <1>6, <2>1, <2>2 DEF Moved
<1>7. CASE Decompose(n) \/ Analyse(n) \/ DesignMitigations(n) \/ SubmitForReview(n)
           \/ Rework(n) \/ Activate(n) \/ Deprecate(n)
  BY <1>6, <1>7 DEF Decompose, Analyse, DesignMitigations, SubmitForReview, Rework,
                    Activate, Deprecate, Declared
<1>8. CASE Reopen(n)
  <2> DEFINE y == [Stripped(x) EXCEPT !.lifecycle_state = "Review"]
  <2>1. model' = [model EXCEPT ![n] = y] /\ x.lifecycle_state = "Active"
    BY <1>8 DEF Reopen, StoreModel
  <2>2. y.lifecycle_state = "Review"
    BY <1>0 DEF Stripped, ModelRecord
  <2>3. Moved(x, y)
    BY <2>1, <2>2 DEF Moved, Declared
  <2> HIDE DEF y
  <2> QED
    BY <1>1, <2>1, <2>3
<1>9. CASE Abandon(n)
  <2> DEFINE y == [x EXCEPT !.lifecycle_state = "Abandoned"]
  <2>1. model' = [model EXCEPT ![n] = y] /\ x.lifecycle_state \in ThreatModelStates
    BY <1>0, <1>9 DEF Abandon, StoreModel, ModelRecord
  <2>2. y.lifecycle_state = "Abandoned"
    BY <1>0 DEF ModelRecord
  <2> HIDE DEF y
  <2> QED
    BY <1>1, <2>1, <2>2 DEF Moved
<1> QED
  BY <1>2, <1>4, <1>5, <1>7, <1>8, <1>9 DEF ModelStep

LEMMA StepMoves ==
  ASSUME IInv, [Next]_vars, NEW m \in Model
  PROVE  Moved(model[m], model'[m])
<1>1. UNCHANGED model => Moved(model[m], model'[m])
  BY DEF Moved
<1>2. ASSUME NEW D, ReopenScenarios(D)
      PROVE  Moved(model[m], model'[m])
  <2> DEFINE y == [Stripped(model[m]) EXCEPT !.lifecycle_state = "Review"]
  <2>1. \/ model'[m] = model[m]
        \/ model'[m] = y /\ model[m].lifecycle_state = "Active"
    BY <1>2 DEF ReopenScenarios
  <2>2. y.lifecycle_state = "Review"
    BY DEF IInv, ThreatTypeOK, Stripped, ModelRecord
  <2>3. model[m].lifecycle_state = "Active" => Moved(model[m], y)
    BY <2>2 DEF Moved, Declared
  <2> HIDE DEF y
  <2> QED
    BY <2>1, <2>3 DEF Moved
<1>3. ASSUME NEW n \in Model, ModelStep(n)
      PROVE  Moved(model[m], model'[m])
  BY <1>3, ModelStepMoves
<1>4. ASSUME NEW o \in Objective, ObjectiveFails(o)
      PROVE  Moved(model[m], model'[m])
  BY <1>2, <1>4 DEF ObjectiveFails
<1>5. ASSUME NEW d \in Deployment, DeploymentStep(d)
      PROVE  Moved(model[m], model'[m])
  BY <1>1, <1>2, <1>5 DEF DeploymentStep, DeploymentFails, DeploymentDecommissioned,
                          DeploymentRestored
<1>6. ASSUME NEW s \in Scenario, ScenarioStep(s)
      PROVE  UNCHANGED model
  BY <1>6 DEF ScenarioStep, AddScenario, UpdateScenario, Mitigate, UnlinkMitigation,
              AcceptLocally, ReopenScenario, WindowPasses, AcceptanceLapses, StoreScenario
<1>7. ASSUME NEW s \in Scenario, NEW r \in Risk, RegisterLink(s, r)
      PROVE  UNCHANGED model
  BY <1>7 DEF RegisterLink, LinkRisk, UnlinkRisk, PromoteToRisk, PromotionLost, StoreScenario
<1>8. ASSUME NEW c \in Component, ComponentStep(c)
      PROVE  UNCHANGED model
  BY <1>8 DEF ComponentStep, AddComponent, UpdateComponent, DeleteComponent, StoreComponent
<1>9. CASE PromotionJob \/ UNCHANGED vars \/ \E r \in Risk : CreateRisk(r)
  BY <1>1, <1>9 DEF PromotionJob, vars, CreateRisk
<1> QED
  BY <1>1, <1>3, <1>4, <1>5, <1>6, <1>7, <1>8, <1>9 DEF Next

\* A model that falls back from Active must be signed anew by both parties.
THEOREM FallingBackUnsigns == Spec => LeavingActiveUnsigns
<1>1. IInv /\ [Next]_vars =>
        [\A m \in Model :
           model[m].lifecycle_state = "Active" /\ model'[m].lifecycle_state = "Review" =>
             model'[m] = [Stripped(model[m]) EXCEPT !.lifecycle_state = "Review"]]_vars
  BY StepMoves DEF Moved
<1> QED
  BY <1>1, Inductive, PTL DEF Spec, LeavingActiveUnsigns

\* Requests and the cascades that write the column move every model along
\* one declared edge of the machine, or leave it.
THEOREM MachineFollowed == Spec => FollowsModelMachine
<1> DEFINE state == [m \in Model |-> model[m].lifecycle_state]
<1>1. Init => ModelEngine!Init
  BY DEF Init, NewModel, ModelEngine!Init
<1>2. IInv /\ [Next]_vars => [ModelEngine!Fire]_state
  <2> SUFFICES ASSUME IInv, [Next]_vars PROVE ModelEngine!Fire
    OBVIOUS
  <2>1. IInv'
    BY StepKeeps
  <2>2. ASSUME NEW m \in Model
        PROVE  /\ model'[m].lifecycle_state \in ThreatModelStates \cup {Absent}
               /\ ModelEngine!Moves(model[m].lifecycle_state, model'[m].lifecycle_state)
    <3>1. model[m] \in ModelRecord /\ model'[m] \in ModelRecord
      BY <2>1 DEF IInv, ThreatTypeOK
    <3>2. model'[m].lifecycle_state \in ThreatModelStates \cup {Absent}
      BY <3>1 DEF ModelRecord
    <3>3. Moved(model[m], model'[m])
      BY StepMoves
    <3> QED
      BY <3>2, <3>3 DEF Moved, Declared, ThreatModelStates, Absent, ModelEngine!Moves,
                        ModelEngine!Lookup
  <2> QED
    BY <2>2 DEF ModelEngine!Fire
<1> QED
  BY <1>1, <1>2, Inductive, PTL DEF Spec, FollowsModelMachine, ModelEngine!Spec

=============================================================================
