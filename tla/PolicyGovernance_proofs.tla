----------------------- MODULE PolicyGovernance_proofs -----------------------
(***************************************************************************)
(* Proofs about policies and about exceptions to them under the nightly    *)
(* run, for any number of policies, control objectives, users, bodies,     *)
(* exceptions and threat scenarios.                                        *)
(***************************************************************************)
EXTENDS PolicyLifecycle, NightlyRun, FiniteSetTheorems, TLAPS

(* Every operation writes one record, so the invariant is a property of    *)
(* each record and every operation is shown to leave a sound one.          *)
Backed(x) ==
  /\ x.lifecycle_state \in Enforceable => x.control_links # {}
  /\ x.lifecycle_state \in Enforceable \cup {"Approved", "Deprecated"} =>
       x.approved_by \in Seniors \ {x.policy_owner_id}

Owed(x) ==
  /\ Cardinality(x.realigning) <= x.realignment_pending
  /\ x.lifecycle_state = "Active" => x.realignment_pending = 0

Sound(x) ==
  /\ x \in PolicyRecord
  /\ x.realigning \subseteq x.control_links
  /\ Backed(x)
  /\ Owed(x)

IInv ==
  /\ policy \in [Policy -> PolicyRecord]
  /\ \A p \in Policy : Sound(policy[p])
  /\ blocking \in SUBSET Policy

\* A write keeps what it overwrites, if that was in force.
Kept(x, y) ==
  x.lifecycle_state \in Enforceable /\ y.body # x.body => x.body \in y.versions

LEMMA Sizes ==
  ASSUME NEW S \in SUBSET Objective
  PROVE  /\ IsFiniteSet(S)
         /\ Cardinality(S) \in 0..Cardinality(Objective)
         /\ \A T \in SUBSET S : Cardinality(T) \in Nat /\ Cardinality(T) <= Cardinality(S)
<1>1. IsFiniteSet(Objective)
  BY PolicyAssumption
<1>2. IsFiniteSet(S) /\ Cardinality(S) <= Cardinality(Objective)
  BY <1>1, FS_Subset
<1>3. Cardinality(S) \in Nat /\ Cardinality(Objective) \in Nat
  BY <1>1, <1>2, FS_CardinalityType
<1>4. ASSUME NEW T \in SUBSET S
      PROVE  Cardinality(T) \in Nat /\ Cardinality(T) <= Cardinality(S)
  BY <1>2, FS_Subset, FS_CardinalityType
<1> QED
  BY <1>2, <1>3, <1>4

LEMMA People == Seniors \subseteq Person /\ PolicyOwners \subseteq Person /\ Nobody \notin Seniors
  BY PolicyAssumption

LEMMA OneRecordWritten ==
  ASSUME IInv, NEW p \in Policy, NEW x, Store(p, x), Sound(x), Kept(policy[p], x)
  PROVE  IInv' /\ \A q \in Policy : Kept(policy[q], policy'[q])
<1>1. x \in PolicyRecord
  BY DEF Sound
<1>2. /\ policy' \in [Policy -> PolicyRecord] /\ blocking' = blocking
      /\ policy'[p] = x /\ \A q \in Policy \ {p} : policy'[q] = policy[q]
  BY <1>1 DEF IInv, Store
<1> QED
  BY <1>2 DEF IInv, Kept

\* What the rules of a save leave to be shown of the record it stores.
LEMMA SavedIsSound ==
  ASSUME NEW p \in Policy, NEW x \in PolicyRecord, Enforced(p, x),
         x.realigning \subseteq x.control_links, Owed(x),
         x.lifecycle_state \in Enforceable \cup {"Approved", "Deprecated"} =>
           x.approved_by # Nobody
  PROVE  Sound(x)
  BY DEF Sound, Backed, Enforced, PINV1, PINV5

-----------------------------------------------------------------------------
(* Edits                                                                   *)

LEMMA CreateKeeps ==
  ASSUME IInv, NEW p \in Policy, NEW owner \in Person \cup {Nobody},
         NEW text \in Text \cup {NoText}, NEW scope \in BOOLEAN,
         CreatePolicy(p, owner, text, scope)
  PROVE  IInv' /\ \A q \in Policy : Kept(policy[q], policy'[q])
<1> DEFINE x == Capture([NewPolicy EXCEPT !.lifecycle_state = "Draft",
                                          !.policy_owner_id = owner, !.body = text,
                                          !.scope = scope])
<1>1. Enforced(p, x) /\ Store(p, x)
  BY DEF CreatePolicy, Save
<1>2. owner \in PolicyOwners \cup {Nobody}
  BY <1>1 DEF Enforced, PINV10, Capture, NewPolicy
<1>3. Cardinality({}) = 0 /\ 0 \in 0..Cardinality(Objective)
  BY Sizes, FS_EmptySet
<1>4. /\ x \in PolicyRecord
      /\ x.lifecycle_state = "Draft" /\ x.realigning = {} /\ x.realignment_pending = 0
  BY <1>2, <1>3 DEF Capture, NewPolicy, PolicyRecord, PolicyStates
<1>5. Sound(x)
  BY <1>1, <1>3, <1>4, SavedIsSound DEF Owed, Enforceable
<1>6. Kept(policy[p], x)
  BY DEF CreatePolicy, Exists, Kept, Enforceable
<1> QED
  BY <1>1, <1>5, <1>6, OneRecordWritten

LEMMA UpdateKeeps ==
  ASSUME IInv, NEW p \in Policy, NEW owner \in Person \cup {Nobody},
         NEW text \in Text \cup {NoText}, NEW scope \in BOOLEAN, NEW effective \in BOOLEAN,
         NEW summary \in BOOLEAN, UpdatePolicy(p, owner, text, scope, effective, summary)
  PROVE  IInv' /\ \A q \in Policy : Kept(policy[q], policy'[q])
<1> DEFINE old == policy[p]
           e == Edited(old, text)
           x == [e EXCEPT !.policy_owner_id = owner, !.scope = scope,
                          !.effective = effective, !.change_summary = summary]
<1>1. Enforced(p, x) /\ Store(p, x)
  BY DEF UpdatePolicy, Save
<1>2. old \in PolicyRecord /\ Sound(old)
  BY DEF IInv
<1>3. /\ e \in PolicyRecord
      /\ e.lifecycle_state = old.lifecycle_state /\ e.approved_by = old.approved_by
      /\ e.control_links = old.control_links /\ e.realigning = old.realigning
      /\ e.realignment_pending = old.realignment_pending
      /\ Kept(old, e)
  BY <1>2 DEF Edited, Capture, PolicyRecord, Kept
<1>4. owner \in PolicyOwners \cup {Nobody}
  BY <1>1, <1>3 DEF Enforced, PINV10, PolicyRecord
<1>5. /\ x \in PolicyRecord
      /\ x.lifecycle_state = old.lifecycle_state /\ x.approved_by = old.approved_by
      /\ x.control_links = old.control_links /\ x.realigning = old.realigning
      /\ x.realignment_pending = old.realignment_pending
      /\ Kept(old, x)
  BY <1>3, <1>4 DEF PolicyRecord, Kept
<1>6. Sound(x)
  BY <1>1, <1>2, <1>5, People, SavedIsSound DEF Sound, Owed, Backed
<1> QED
  BY <1>1, <1>5, <1>6, OneRecordWritten

LEMMA ApproveKeeps ==
  ASSUME IInv, NEW p \in Policy, NEW actor \in Person, Approve(p, actor)
  PROVE  IInv' /\ \A q \in Policy : Kept(policy[q], policy'[q])
<1> DEFINE x == [policy[p] EXCEPT !.approved_by = actor]
<1>1. Store(p, x) /\ actor \in Seniors \ {policy[p].policy_owner_id}
  BY DEF Approve, Save
<1>2. policy[p] \in PolicyRecord /\ Sound(policy[p])
  BY DEF IInv
<1>3. Sound(x) /\ Kept(policy[p], x)
  BY <1>1, <1>2 DEF Sound, Backed, Owed, Kept, PolicyRecord
<1> QED
  BY <1>1, <1>3, OneRecordWritten

LEMMA LinkKeeps ==
  ASSUME IInv, NEW p \in Policy, NEW o \in Objective, LinkControl(p, o)
  PROVE  IInv' /\ \A q \in Policy : Kept(policy[q], policy'[q])
<1> DEFINE x == [policy[p] EXCEPT !.control_links = @ \cup {o}]
<1>1. Store(p, x)
  BY DEF LinkControl
<1>2. policy[p] \in PolicyRecord /\ Sound(policy[p])
  BY DEF IInv
<1>3. Sound(x) /\ Kept(policy[p], x)
  BY <1>2 DEF Sound, Backed, Owed, Kept, PolicyRecord
<1> QED
  BY <1>1, <1>3, OneRecordWritten

LEMMA UnlinkKeeps ==
  ASSUME IInv, NEW p \in Policy, NEW o \in Objective, UnlinkControl(p, o)
  PROVE  IInv' /\ \A q \in Policy : Kept(policy[q], policy'[q])
<1> DEFINE old == policy[p]
           x == [old EXCEPT !.control_links = @ \ {o}, !.realigning = @ \ {o}]
<1>1. Store(p, x) /\ MayUnlink(p, o)
  BY DEF UnlinkControl, RemoveLink
<1>2. old \in PolicyRecord /\ Sound(old)
  BY DEF IInv
<1>3. /\ x \in PolicyRecord
      /\ x.lifecycle_state = old.lifecycle_state /\ x.approved_by = old.approved_by
      /\ x.policy_owner_id = old.policy_owner_id /\ x.body = old.body
      /\ x.control_links = old.control_links \ {o} /\ x.realigning = old.realigning \ {o}
      /\ x.realignment_pending = old.realignment_pending
  BY <1>2 DEF PolicyRecord
<1>4. old.lifecycle_state \in Enforceable => old.control_links \ {o} # {}
  <2> SUFFICES ASSUME old.lifecycle_state \in Enforceable, old.control_links \ {o} = {}
               PROVE  FALSE
    OBVIOUS
  <2>1. old.control_links = {o} /\ Cardinality(old.control_links) > 1
    BY <1>1 DEF MayUnlink
  <2>2. Cardinality({o}) = 1
    BY FS_Singleton
  <2>3. Cardinality({o}) > 1
    BY <2>1
  <2> QED
    BY <2>2, <2>3
<1>5. Cardinality(x.realigning) <= old.realignment_pending
  <2>1. old.realigning \in SUBSET Objective /\ old.realignment_pending \in Nat
    BY <1>2 DEF PolicyRecord
  <2>2. /\ Cardinality(old.realigning \ {o}) \in Nat /\ Cardinality(old.realigning) \in Nat
        /\ Cardinality(old.realigning \ {o}) <= Cardinality(old.realigning)
    BY <2>1, Sizes
  <2> QED
    BY <1>2, <1>3, <2>1, <2>2 DEF Sound, Owed
<1>6. Sound(x)
  BY <1>2, <1>3, <1>4, <1>5 DEF Sound, Backed, Owed
<1> QED
  BY <1>1, <1>3, <1>6, OneRecordWritten DEF Kept

LEMMA ConfirmKeeps ==
  ASSUME IInv, NEW p \in Policy, NEW o \in Objective, ConfirmAlignment(p, o)
  PROVE  IInv' /\ \A q \in Policy : Kept(policy[q], policy'[q])
<1> DEFINE old == policy[p]
           n == Cardinality(old.realigning \ {o})
           x == [old EXCEPT !.realigning = @ \ {o}, !.realignment_pending = n]
<1>1. Store(p, x)
  BY DEF ConfirmAlignment
<1>2. old \in PolicyRecord /\ Sound(old)
  BY DEF IInv
<1>3. old.realigning \in SUBSET Objective /\ old.realignment_pending \in Nat
  BY <1>2 DEF PolicyRecord
<1>4. /\ n \in 0..Cardinality(Objective) /\ n \in Nat
      /\ n <= Cardinality(old.realigning) /\ Cardinality(old.realigning) \in Nat
  BY <1>3, Sizes
<1>5. /\ x \in PolicyRecord
      /\ x.lifecycle_state = old.lifecycle_state /\ x.approved_by = old.approved_by
      /\ x.policy_owner_id = old.policy_owner_id /\ x.body = old.body
      /\ x.control_links = old.control_links /\ x.realigning = old.realigning \ {o}
      /\ x.realignment_pending = n
  BY <1>2, <1>4 DEF PolicyRecord
<1>6. old.lifecycle_state = "Active" => n = 0
  BY <1>2, <1>3, <1>4 DEF Sound, Owed
<1>7. Sound(x)
  BY <1>2, <1>4, <1>5, <1>6 DEF Sound, Backed, Owed
<1> QED
  BY <1>1, <1>5, <1>7, OneRecordWritten DEF Kept

-----------------------------------------------------------------------------
(* Transitions                                                             *)

LEMMA MoveKeeps ==
  ASSUME IInv, NEW p \in Policy, NEW source, NEW target \in PolicyStates,
         NEW x \in PolicyRecord, Move(p, source, target, x),
         x.realigning \subseteq x.control_links,
         Cardinality(x.realigning) <= x.realignment_pending,
         target = "Active" => x.realignment_pending = 0,
         target \in Enforceable \cup {"Approved", "Deprecated"} => x.approved_by # Nobody,
         x.body = policy[p].body
  PROVE  IInv' /\ \A q \in Policy : Kept(policy[q], policy'[q])
<1> DEFINE y == [x EXCEPT !.lifecycle_state = target]
<1>1. Enforced(p, y) /\ Store(p, y)
  BY DEF Move, Save
<1>2. /\ y \in PolicyRecord /\ y.lifecycle_state = target
      /\ y.realigning = x.realigning /\ y.control_links = x.control_links
      /\ y.realignment_pending = x.realignment_pending
      /\ y.approved_by = x.approved_by /\ y.body = x.body
  BY DEF PolicyRecord
<1>3. Sound(y)
  BY <1>1, <1>2, SavedIsSound DEF Owed
<1> QED
  BY <1>1, <1>2, <1>3, OneRecordWritten DEF Kept

\* Transitions without a cascade: the record is soundly what it was.
LEMMA PlainMoveKeeps ==
  ASSUME IInv, NEW p \in Policy,
         \/ SubmitForReview(p) \/ ReturnToDraft(p) \/ ApproveReview(p)
         \/ ApproveRevision(p) \/ Reinstate(p)
  PROVE  IInv' /\ \A q \in Policy : Kept(policy[q], policy'[q])
<1> DEFINE x == policy[p]
<1>1. x \in PolicyRecord /\ Sound(x)
  BY DEF IInv
<1>2. x.realigning \subseteq x.control_links /\ Cardinality(x.realigning) <= x.realignment_pending
  BY <1>1 DEF Sound, Owed
<1>3. PICK source \in PolicyStates, target \in {"Under_Review", "Draft", "Approved"} :
        /\ Move(p, source, target, x)
        /\ target = "Approved" => x.approved_by # Nobody
  BY DEF SubmitForReview, ReturnToDraft, ApproveReview, ApproveRevision, Reinstate, Approvable,
         PolicyStates
<1> QED
  BY <1>1, <1>2, <1>3, MoveKeeps DEF PolicyStates, Enforceable

LEMMA ActivateKeeps ==
  ASSUME IInv, NEW p \in Policy, Activate(p)
  PROVE  IInv' /\ \A q \in Policy : Kept(policy[q], policy'[q])
<1> DEFINE old == policy[p]
           x == Aligned(old)
<1>1. old \in PolicyRecord
  BY DEF IInv
<1>2. Cardinality({}) = 0 /\ 0 \in 0..Cardinality(Objective)
  BY Sizes, FS_EmptySet
<1>3. /\ x \in PolicyRecord /\ x.realigning = {} /\ x.realignment_pending = 0
      /\ x.approved_by = old.approved_by /\ x.body = old.body
  BY <1>1, <1>2 DEF Aligned, PolicyRecord
<1>4. Move(p, "Approved", "Active", x) /\ old.approved_by # Nobody
  BY DEF Activate
<1> QED
  BY <1>2, <1>3, <1>4, MoveKeeps DEF PolicyStates

\* Opening a revision and retiring a policy: every link owes a check.
LEMMA OwingMoveKeeps ==
  ASSUME IInv, NEW p \in Policy, OpenRevision(p) \/ Deprecate(p)
  PROVE  IInv' /\ \A q \in Policy : Kept(policy[q], policy'[q])
<1> DEFINE old == policy[p]
<1>1. old \in PolicyRecord /\ Sound(old) /\ old.lifecycle_state = "Active"
  BY DEF IInv, OpenRevision, Deprecate, Move
<1>2. old.approved_by # Nobody
  BY <1>1, People DEF Sound, Backed, Enforceable
<1>3. ASSUME NEW base \in {old, Capture(old)}
      PROVE  /\ base \in PolicyRecord
             /\ base.control_links = old.control_links /\ base.approved_by = old.approved_by
             /\ base.body = old.body
  BY <1>1 DEF Capture, PolicyRecord
<1>4. ASSUME NEW base \in {old, Capture(old)}
      PROVE  /\ OweAlignment(base) \in PolicyRecord
             /\ OweAlignment(base).realigning = old.control_links
             /\ OweAlignment(base).control_links = old.control_links
             /\ OweAlignment(base).realignment_pending = Cardinality(old.control_links)
             /\ OweAlignment(base).approved_by # Nobody
             /\ OweAlignment(base).body = old.body
  <2>1. Cardinality(old.control_links) \in 0..Cardinality(Objective)
    BY <1>1, Sizes DEF PolicyRecord
  <2> QED
    BY <1>2, <1>3, <2>1 DEF OweAlignment, PolicyRecord
<1>5. Cardinality(old.control_links) \in Nat
  BY <1>1, Sizes DEF PolicyRecord
<1>6. CASE OpenRevision(p)
  <2> DEFINE x == OweAlignment(Capture(old))
  <2>1. Move(p, "Active", "Under_Revision", x)
    BY <1>6 DEF OpenRevision
  <2>2. /\ x \in PolicyRecord /\ x.realigning \subseteq x.control_links
        /\ Cardinality(x.realigning) <= x.realignment_pending
        /\ x.approved_by # Nobody /\ x.body = policy[p].body
    BY <1>4, <1>5
  <2> QED
    BY <2>1, <2>2, MoveKeeps DEF PolicyStates
<1>7. CASE Deprecate(p)
  <2> DEFINE x == OweAlignment(old)
  <2>1. Move(p, "Active", "Deprecated", x)
    BY <1>7 DEF Deprecate
  <2>2. /\ x \in PolicyRecord /\ x.realigning \subseteq x.control_links
        /\ Cardinality(x.realigning) <= x.realignment_pending
        /\ x.approved_by # Nobody /\ x.body = policy[p].body
    BY <1>4, <1>5
  <2> QED
    BY <2>1, <2>2, MoveKeeps DEF PolicyStates
<1> QED
  BY <1>6, <1>7

LEMMA StepsKeep ==
  ASSUME IInv, [Next]_vars
  PROVE  IInv' /\ \A q \in Policy : Kept(policy[q], policy'[q])
<1>1. CASE UNCHANGED vars
  BY <1>1 DEF vars, IInv, Kept
<1>2. ASSUME NEW p \in Policy, Edit(p)
      PROVE  IInv' /\ \A q \in Policy : Kept(policy[q], policy'[q])
  BY <1>2, CreateKeeps, UpdateKeeps, ApproveKeeps, LinkKeeps, UnlinkKeeps, ConfirmKeeps
     DEF Edit
<1>3. ASSUME NEW p \in Policy, Transition(p)
      PROVE  IInv' /\ \A q \in Policy : Kept(policy[q], policy'[q])
  BY <1>3, PlainMoveKeeps, ActivateKeeps, OwingMoveKeeps DEF Transition
<1>4. ASSUME NEW p \in Policy, RegisterMoves(p)
      PROVE  IInv' /\ \A q \in Policy : Kept(policy[q], policy'[q])
  BY <1>4 DEF RegisterMoves, IInv, Kept
<1> QED
  BY <1>1, <1>2, <1>3, <1>4 DEF Next

LEMMA InitEstablishes == Init => IInv
<1>1. Cardinality({}) = 0 /\ 0 \in 0..Cardinality(Objective)
  BY Sizes, FS_EmptySet
<1>2. /\ NewPolicy \in PolicyRecord /\ NewPolicy.realigning = {}
      /\ NewPolicy.control_links = {} /\ NewPolicy.realignment_pending = 0
      /\ NewPolicy.lifecycle_state = "Absent"
  BY <1>1 DEF NewPolicy, PolicyRecord
<1>3. Sound(NewPolicy)
  BY <1>1, <1>2 DEF Sound, Backed, Owed, Enforceable
<1> QED
  BY <1>2, <1>3 DEF Init, IInv

-----------------------------------------------------------------------------
(* Theorems                                                                *)

\* Sound records form an inductive invariant of the policy service.
THEOREM Inductive == Spec => []IInv
<1>1. IInv /\ [Next]_vars => IInv'
  BY StepsKeep
<1> QED
  BY <1>1, InitEstablishes, PTL DEF Spec

\* Types, and with them PINV-10: the owner named always holds the owner role.
THEOREM Typing == Spec => []PolicyTypeOK
<1>1. IInv => PolicyTypeOK
  BY DEF IInv, PolicyTypeOK, Sound
<1> QED
  BY <1>1, Inductive, PTL

\* PINV-1 and PINV-5 at rest, however links, owners and approvals are edited.
THEOREM EnforcedPoliciesAreBacked == Spec => []EnforcedPolicyIsBacked
<1>1. IInv => EnforcedPolicyIsBacked
  BY DEF IInv, EnforcedPolicyIsBacked, Sound, Backed
<1> QED
  BY <1>1, Inductive, PTL

\* PINV-7: the pending count of a policy covers every confirmation owed.
THEOREM AlignmentIsNeverUnderstated == Spec => []AlignmentNeverUnderstated
<1>1. IInv => AlignmentNeverUnderstated
  BY DEF IInv, AlignmentNeverUnderstated, Sound, Owed
<1> QED
  BY <1>1, Inductive, PTL

\* PINV-9 while in force: no write loses a body that was enforceable.  Nothing
\* is said of the scope, which a write may replace without a trace.
THEOREM BodiesInForceAreKept == Spec => BodyInForceKept
<1>1. IInv /\ [Next]_vars =>
        [\A p \in Policy :
           policy[p].lifecycle_state \in Enforceable /\ policy'[p].body # policy[p].body
           => policy[p].body \in policy'[p].versions]_vars
  BY StepsKeep DEF Kept
<1> QED
  BY <1>1, Inductive, PTL DEF Spec, BodyInForceKept

-----------------------------------------------------------------------------
(* Exceptions and the nightly run                                          *)

(* The count on a policy is maintained by single cascades and by one bulk  *)
(* expiry; what makes it exact is that a step changes which exceptions are *)
(* approved only among the policies it recounts.                           *)
NightlyInv == NightlyTypeOK /\ CountMatchesRegister

ApprovedIn(xs, e) == xs[e].lifecycle_state = "Approved"

LEMMA CountsAreBounded ==
  ASSUME NEW xs, NEW p
  PROVE  ActiveExceptions(xs, p) \in 0..Cardinality(Exception)
<1> DEFINE S == {e \in Exception : PolicyOf[e] = p /\ xs[e].lifecycle_state = "Approved"}
<1>1. IsFiniteSet(Exception)
  BY ExceptionAssumption
<1>2. IsFiniteSet(S) /\ Cardinality(S) <= Cardinality(Exception)
  BY <1>1, FS_Subset
<1>3. Cardinality(S) \in Nat /\ Cardinality(Exception) \in Nat
  BY <1>1, <1>2, FS_CardinalityType
<1> QED
  BY <1>2, <1>3 DEF ActiveExceptions

LEMMA NothingApprovedNothingCounted ==
  ASSUME NEW xs, NEW p, \A e \in Exception : ~ApprovedIn(xs, e)
  PROVE  ActiveExceptions(xs, p) = 0
<1>1. {e \in Exception : PolicyOf[e] = p /\ xs[e].lifecycle_state = "Approved"} = {}
  BY DEF ApprovedIn
<1> QED
  BY <1>1, FS_EmptySet DEF ActiveExceptions

\* A policy none of whose exceptions moved is counted as it was.
LEMMA CountUntouched ==
  ASSUME NEW xs, NEW ys, NEW p,
         \A e \in Exception : PolicyOf[e] = p => (ApprovedIn(xs, e) <=> ApprovedIn(ys, e))
  PROVE  ActiveExceptions(xs, p) = ActiveExceptions(ys, p)
<1>1. {e \in Exception : PolicyOf[e] = p /\ xs[e].lifecycle_state = "Approved"}
        = {e \in Exception : PolicyOf[e] = p /\ ys[e].lifecycle_state = "Approved"}
  BY DEF ApprovedIn
<1> QED
  BY <1>1 DEF ActiveExceptions

\* The cascade repairs every count that its step could have made wrong.
LEMMA RecountRepairs ==
  ASSUME CountMatchesRegister, exception_count \in [PolicyId -> 0..Cardinality(Exception)],
         NEW touched \in SUBSET Exception, Recount(exception', touched),
         \A e \in Exception \ touched : ApprovedIn(exception, e) <=> ApprovedIn(exception', e)
  PROVE  /\ CountMatchesRegister'
         /\ exception_count' \in [PolicyId -> 0..Cardinality(Exception)]
<1>1. ASSUME NEW p \in PolicyId
      PROVE  /\ exception_count'[p] = ActiveExceptions(exception', p)
             /\ exception_count'[p] \in 0..Cardinality(Exception)
  <2>1. CASE \E e \in touched : PolicyOf[e] = p
    BY <2>1, CountsAreBounded DEF Recount
  <2>2. CASE ~\E e \in touched : PolicyOf[e] = p
    <3>1. exception_count'[p] = exception_count[p]
      BY <2>2 DEF Recount
    <3>2. ActiveExceptions(exception', p) = ActiveExceptions(exception, p)
      BY <2>2, CountUntouched
    <3> QED
      BY <3>1, <3>2 DEF CountMatchesRegister
  <2> QED
    BY <2>1, <2>2
<1>2. exception_count' \in [PolicyId -> 0..Cardinality(Exception)]
  BY <1>1 DEF Recount
<1> QED
  BY <1>1, <1>2 DEF CountMatchesRegister

\* A write without a cascade neither grants nor withdraws an approval.
LEMMA QuietWriteKeeps ==
  ASSUME NightlyInv, NEW e \in Exception, NEW x \in ExceptionRecord,
         exception' = [exception EXCEPT ![e] = x], UNCHANGED <<exception_count, stale>>,
         x.lifecycle_state = "Approved" <=> exception[e].lifecycle_state = "Approved",
         x.lifecycle_state \in {"Approved", "Expired"} <=> x.approved_by # "Nobody"
  PROVE  NightlyInv'
<1>1. exception' \in [Exception -> ExceptionRecord]
  BY DEF NightlyInv, NightlyTypeOK, ExceptionTypeOK
<1>2. exception'[e] = x /\ \A f \in Exception \ {e} : exception'[f] = exception[f]
  BY DEF NightlyInv, NightlyTypeOK, ExceptionTypeOK
<1>3. \A p \in PolicyId : ActiveExceptions(exception', p) = ActiveExceptions(exception, p)
  <2>1. \A f \in Exception : ApprovedIn(exception', f) <=> ApprovedIn(exception, f)
    BY <1>2 DEF ApprovedIn
  <2> QED
    BY <2>1, CountUntouched
<1> QED
  BY <1>1, <1>2, <1>3
     DEF NightlyInv, NightlyTypeOK, ExceptionTypeOK, CountMatchesRegister

\* A transition recounts its policy.
LEMMA MoveExceptionKeeps ==
  ASSUME NightlyInv, NEW e \in Exception, NEW x \in ExceptionRecord,
         MoveException(e, x), UNCHANGED stale,
         x.lifecycle_state \in {"Approved", "Expired"} <=> x.approved_by # "Nobody"
  PROVE  NightlyInv'
<1>1. exception' = [exception EXCEPT ![e] = x] /\ Recount(exception', {e})
  BY DEF MoveException
<1>2. exception' \in [Exception -> ExceptionRecord]
  BY <1>1 DEF NightlyInv, NightlyTypeOK, ExceptionTypeOK
<1>3. exception'[e] = x /\ \A f \in Exception \ {e} : exception'[f] = exception[f]
  BY <1>1 DEF NightlyInv, NightlyTypeOK, ExceptionTypeOK
<1>4. CountMatchesRegister' /\ exception_count' \in [PolicyId -> 0..Cardinality(Exception)]
  BY <1>1, <1>3, RecountRepairs
     DEF ApprovedIn, NightlyInv, NightlyTypeOK, ExceptionTypeOK
<1> QED
  BY <1>2, <1>3, <1>4 DEF NightlyInv, NightlyTypeOK, ExceptionTypeOK

\* The job expires any number of exceptions of any policies at once.
LEMMA ExpireDueKeeps ==
  ASSUME NightlyInv, ExpireDue, stale' \in SUBSET Scenario
  PROVE  NightlyInv'
<1>1. \A e \in Due : exception[e].lifecycle_state = "Approved"
  BY DEF Due, Lapsed
<1>2. /\ exception' \in [Exception -> ExceptionRecord]
      /\ \A e \in Exception \ Due : exception'[e] = exception[e]
      /\ \A e \in Due : /\ exception'[e].lifecycle_state = "Expired"
                        /\ exception'[e].approved_by = exception[e].approved_by
  BY DEF ExpireDue, Due, NightlyInv, NightlyTypeOK, ExceptionTypeOK, ExceptionRecord,
         ExceptionStates
<1>3. Due \in SUBSET Exception
  BY DEF Due
<1>4. CountMatchesRegister' /\ exception_count' \in [PolicyId -> 0..Cardinality(Exception)]
  BY <1>2, <1>3, RecountRepairs
     DEF ApprovedIn, ExpireDue, NightlyInv, NightlyTypeOK, ExceptionTypeOK
<1>5. \A e \in Exception :
        exception'[e].lifecycle_state \in {"Approved", "Expired"} <=>
          exception'[e].approved_by # "Nobody"
  BY <1>1, <1>2 DEF NightlyInv, NightlyTypeOK, ExceptionTypeOK
<1> QED
  BY <1>2, <1>4, <1>5 DEF NightlyInv, NightlyTypeOK, ExceptionTypeOK

LEMMA RequestKeeps ==
  ASSUME NightlyInv, NEW e \in Exception, Request(e), UNCHANGED stale
  PROVE  NightlyInv'
<1> DEFINE x == exception[e]
<1>1. /\ x \in ExceptionRecord
      /\ x.lifecycle_state \in {"Approved", "Expired"} <=> x.approved_by # "Nobody"
  BY DEF NightlyInv, NightlyTypeOK, ExceptionTypeOK
<1>2. ASSUME NEW window \in Windows, NEW documented \in BOOLEAN,
             CreateException(e, window, documented)
      PROVE  NightlyInv'
  <2> DEFINE y == [x EXCEPT !.lifecycle_state = "Requested", !.expiry_date = window,
                            !.documented = documented]
  <2>1. y \in ExceptionRecord /\ y.lifecycle_state = "Requested" /\ y.approved_by = x.approved_by
    BY <1>1 DEF ExceptionRecord, ExceptionStates
  <2>2. exception' = [exception EXCEPT ![e] = y] /\ UNCHANGED exception_count
        /\ x.lifecycle_state = "Absent"
    BY <1>2 DEF CreateException, SaveException, Filed
  <2> QED
    BY <1>1, <2>1, <2>2, QuietWriteKeeps
<1>3. ASSUME NEW window \in Windows, NEW documented \in BOOLEAN,
             UpdateException(e, window, documented)
      PROVE  NightlyInv'
  <2> DEFINE y == [x EXCEPT !.expiry_date = window, !.documented = documented]
  <2>1. /\ y \in ExceptionRecord /\ y.lifecycle_state = x.lifecycle_state
        /\ y.approved_by = x.approved_by
    BY <1>1 DEF ExceptionRecord
  <2>2. exception' = [exception EXCEPT ![e] = y] /\ UNCHANGED exception_count
    BY <1>3 DEF UpdateException, SaveException
  <2> QED
    BY <1>1, <2>1, <2>2, QuietWriteKeeps
<1>4. ASSUME NEW actor \in {"Owner", "CISO"}, ApproveException(e, actor)
      PROVE  NightlyInv'
  <2> DEFINE y == [x EXCEPT !.lifecycle_state = "Approved", !.approved_by = actor]
  <2>1. y \in ExceptionRecord /\ y.lifecycle_state = "Approved" /\ y.approved_by = actor
    BY <1>1 DEF ExceptionRecord, ExceptionStates
  <2>2. MoveException(e, y)
    BY <1>4 DEF ApproveException
  <2> QED
    BY <2>1, <2>2, MoveExceptionKeeps
<1>5. CASE RejectException(e)
  <2> DEFINE y == [x EXCEPT !.lifecycle_state = "Rejected"]
  <2>1. y \in ExceptionRecord /\ y.lifecycle_state = "Rejected" /\ y.approved_by = x.approved_by
    BY <1>1 DEF ExceptionRecord, ExceptionStates
  <2>2. exception' = [exception EXCEPT ![e] = y] /\ UNCHANGED exception_count
        /\ x.lifecycle_state = "Requested"
    BY <1>5 DEF RejectException, SaveException
  <2> QED
    BY <1>1, <2>1, <2>2, QuietWriteKeeps
<1>6. CASE ExpireException(e)
  <2> DEFINE y == [x EXCEPT !.lifecycle_state = "Expired"]
  <2>1. y \in ExceptionRecord /\ y.lifecycle_state = "Expired" /\ y.approved_by = x.approved_by
    BY <1>1 DEF ExceptionRecord, ExceptionStates
  <2>2. MoveException(e, y) /\ x.lifecycle_state = "Approved"
    BY <1>6 DEF ExpireException
  <2> QED
    BY <1>1, <2>1, <2>2, MoveExceptionKeeps
<1> QED
  BY <1>2, <1>3, <1>4, <1>5, <1>6 DEF Request

LEMMA DayPassesKeeps ==
  ASSUME NightlyInv, NEW e \in Exception, DayPasses(e), UNCHANGED stale
  PROVE  NightlyInv'
<1> DEFINE x == exception[e]
           y == [x EXCEPT !.expiry_date = Nearer[@]]
<1>1. /\ x \in ExceptionRecord
      /\ x.lifecycle_state \in {"Approved", "Expired"} <=> x.approved_by # "Nobody"
  BY DEF NightlyInv, NightlyTypeOK, ExceptionTypeOK
<1>2. x.expiry_date \in Windows \ {"Past"}
  BY <1>1 DEF DayPasses, ExceptionRecord
<1>3. Nearer[x.expiry_date] \in Windows
  BY <1>2 DEF Windows, Nearer
<1>4. /\ y \in ExceptionRecord /\ y.lifecycle_state = x.lifecycle_state
      /\ y.approved_by = x.approved_by
  BY <1>1, <1>3 DEF ExceptionRecord
<1>5. exception' = [exception EXCEPT ![e] = y] /\ UNCHANGED exception_count
  BY DEF DayPasses
<1> QED
  BY <1>1, <1>4, <1>5, QuietWriteKeeps

LEMMA NightlyStepsKeep ==
  ASSUME NightlyInv, [NightlyNext]_nvars
  PROVE  NightlyInv'
<1>1. CASE UNCHANGED nvars
  BY <1>1 DEF nvars, NightlyInv, NightlyTypeOK, ExceptionTypeOK, CountMatchesRegister,
              ActiveExceptions
<1>2. CASE Register /\ UNCHANGED stale
  BY <1>2, RequestKeeps, DayPassesKeeps DEF Register
<1>3. CASE NightLands
  BY <1>3, ExpireDueKeeps DEF NightLands, NightlyInv, NightlyTypeOK
<1>4. CASE UNCHANGED evars /\ stale' \in SUBSET Scenario
  BY <1>4 DEF evars, NightlyInv, NightlyTypeOK, ExceptionTypeOK, CountMatchesRegister,
              ActiveExceptions
<1>5. CASE NightRolledBack
  BY <1>4, <1>5 DEF NightRolledBack, NightlyInv, NightlyTypeOK
<1>6. ASSUME NEW s \in Scenario, ScenarioMoves(s)
      PROVE  NightlyInv'
  BY <1>4, <1>6 DEF ScenarioMoves, NightlyInv, NightlyTypeOK
<1> QED
  BY <1>1, <1>2, <1>3, <1>5, <1>6 DEF NightlyNext, RunAll

\* The counts are exact in every state: an inductive invariant of requests,
\* days and nights, landed or rolled back.
THEOREM NightlyInductive == NightlySpec => []NightlyInv
<1>1. NightlyInit => NightlyInv
  <2> SUFFICES ASSUME NightlyInit PROVE NightlyInv
    OBVIOUS
  <2>1. \A e \in Exception : exception[e].lifecycle_state = "Absent"
    BY DEF NightlyInit, ExceptionInit
  <2>2. \A p \in PolicyId : ActiveExceptions(exception, p) = 0
    BY <2>1, NothingApprovedNothingCounted DEF ApprovedIn
  <2>3. \A p \in PolicyId : 0 \in 0..Cardinality(Exception)
    BY <2>2, CountsAreBounded
  <2> QED
    BY <2>2, <2>3 DEF NightlyInit, ExceptionInit, NightlyInv, NightlyTypeOK, ExceptionTypeOK,
       ExceptionRecord, ExceptionStates, Windows, CountMatchesRegister
<1>2. NightlyInv /\ [NightlyNext]_nvars => NightlyInv'
  BY NightlyStepsKeep
<1> QED
  BY <1>1, <1>2, PTL DEF NightlySpec

\* Types, and that who approved is on record exactly from the approval on.
THEOREM NightlyTyping == NightlySpec => []NightlyTypeOK
<1>1. NightlyInv => NightlyTypeOK
  BY DEF NightlyInv
<1> QED
  BY <1>1, NightlyInductive, PTL

\* The declared machine of exceptions, kept by requests and the bulk expiry.
THEOREM ExceptionMachineFollowed == NightlySpec => FollowsExceptionMachine
<1>1. NightlyInit => ExceptionEngine!Init
  BY DEF NightlyInit, ExceptionInit, ExceptionEngine!Init
<1>2. ASSUME NightlyInv, NightlyInv', [NightlyNext]_nvars
      PROVE  [ExceptionEngine!Fire]_[e \in Exception |-> exception[e].lifecycle_state]
  <2> SUFFICES ExceptionEngine!Fire
    OBVIOUS
  <2>1. /\ exception \in [Exception -> ExceptionRecord]
        /\ exception' \in [Exception -> ExceptionRecord]
    BY <1>2 DEF NightlyInv, NightlyTypeOK, ExceptionTypeOK
  <2>2. [e \in Exception |-> exception'[e].lifecycle_state]
          \in [Exception -> ExceptionStates \cup {"Absent"}]
    BY <2>1 DEF ExceptionRecord
  <2> SUFFICES ASSUME NEW f \in Exception
               PROVE  ExceptionEngine!Moves(exception[f].lifecycle_state,
                                            exception'[f].lifecycle_state)
    BY <2>2 DEF ExceptionEngine!Fire
  <2>3. CASE UNCHANGED exception
    BY <2>3 DEF ExceptionEngine!Moves
  <2>4. CASE ExpireDue
    <3>1. \/ exception'[f] = exception[f]
          \/ /\ exception[f].lifecycle_state = "Approved"
             /\ exception'[f].lifecycle_state = "Expired"
      BY <2>1, <2>4 DEF ExpireDue, Due, Lapsed, ExceptionRecord
    <3> QED
      BY <3>1 DEF ExceptionEngine!Moves, ExceptionEngine!Lookup, ExceptionStates
  <2>5. ASSUME NEW e \in Exception, Request(e) \/ DayPasses(e)
        PROVE  ExceptionEngine!Moves(exception[f].lifecycle_state,
                                     exception'[f].lifecycle_state)
    <3>1. ASSUME NEW x, exception' = [exception EXCEPT ![e] = x],
                 ExceptionEngine!Moves(exception[e].lifecycle_state, x.lifecycle_state)
          PROVE  ExceptionEngine!Moves(exception[f].lifecycle_state,
                                       exception'[f].lifecycle_state)
      BY <2>1, <3>1 DEF ExceptionEngine!Moves
    <3>2. exception[e] \in ExceptionRecord
      BY <2>1
    <3>3. ASSUME NEW window \in Windows, NEW documented \in BOOLEAN,
                 CreateException(e, window, documented) \/ UpdateException(e, window, documented)
          PROVE  ExceptionEngine!Moves(exception[f].lifecycle_state,
                                       exception'[f].lifecycle_state)
      BY <3>1, <3>2, <3>3 DEF CreateException, UpdateException, SaveException, Filed,
                              ExceptionRecord, ExceptionEngine!Moves
    <3>4. ASSUME NEW actor \in {"Owner", "CISO"}, ApproveException(e, actor)
          PROVE  ExceptionEngine!Moves(exception[f].lifecycle_state,
                                       exception'[f].lifecycle_state)
      BY <3>1, <3>2, <3>4 DEF ApproveException, MoveException, ExceptionRecord, ExceptionStates,
                              ExceptionEngine!Moves, ExceptionEngine!Lookup
    <3>5. CASE RejectException(e) \/ ExpireException(e)
      BY <3>1, <3>2, <3>5 DEF RejectException, ExpireException, SaveException, MoveException,
                              ExceptionRecord, ExceptionStates,
                              ExceptionEngine!Moves, ExceptionEngine!Lookup
    <3>6. CASE DayPasses(e)
      BY <3>1, <3>2, <3>6 DEF DayPasses, ExceptionRecord, ExceptionEngine!Moves
    <3> QED
      BY <2>5, <3>3, <3>4, <3>5, <3>6 DEF Request
  <2> QED
    BY <1>2, <2>3, <2>4, <2>5 DEF NightlyNext, Register, RunAll, NightLands, NightRolledBack,
                                  ScenarioMoves, nvars, evars
<1> QED
  BY <1>1, <1>2, NightlyInductive, PTL DEF NightlySpec, FollowsExceptionMachine,
                                          ExceptionEngine!Spec

\* The count that triggers an unscheduled review is the number of approved
\* exceptions, for any number of policies, exceptions and nights.
THEOREM CountsMatchTheRegister == NightlySpec => []CountMatchesRegister
<1>1. NightlyInv => CountMatchesRegister
  BY DEF NightlyInv
<1> QED
  BY <1>1, NightlyInductive, PTL

=============================================================================
