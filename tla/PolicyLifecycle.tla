--------------------------- MODULE PolicyLifecycle ---------------------------
(***************************************************************************)
(* Policies: drafted, approved by a senior person other than the owner,    *)
(* and in force while control objectives back them.  Opening a revision    *)
(* puts an obligation on every linked control to confirm it still aligns;  *)
(* each owner discharges it for one control.                               *)
(*                                                                         *)
(* The record can be edited and its links changed in any lifecycle state,  *)
(* so what the gates ask once has to survive the edits.                    *)
(***************************************************************************)
EXTENDS Integers, FiniteSets

CONSTANTS
  Policy,        \* policy records
  Objective,     \* control objectives that can be linked
  Person,        \* users
  Nobody,        \* an empty user column
  PolicyOwners,  \* holders of Policy_Owner or Admin
  Seniors,       \* people at the level of CISO or above
  Text,          \* bodies a policy can have
  NoText         \* an empty body

ASSUME PolicyAssumption ==
  /\ Nobody \notin Person
  /\ PolicyOwners \cup Seniors \subseteq Person
  /\ NoText \notin Text
  /\ IsFiniteSet(Objective)

VARIABLES
  policy,    \* the policy records
  blocking   \* the policies some linked risk keeps from being retired

vars == <<policy, blocking>>

PolicyStates ==
  {"Draft", "Under_Review", "Approved", "Active", "Under_Revision", "Deprecated"}

Enforceable == {"Active", "Under_Revision"}

PolicyRecord ==
  [lifecycle_state     : PolicyStates \cup {"Absent"},
   policy_owner_id     : PolicyOwners \cup {Nobody},
   approved_by         : Seniors \cup {Nobody},
   body                : Text \cup {NoText},
   scope               : BOOLEAN,      \* one is filled in
   versions            : SUBSET (Text \cup {NoText}),   \* the captured bodies
   effective           : BOOLEAN,      \* effective_date is set and reached
   change_summary      : BOOLEAN,      \* one is recorded
   control_links       : SUBSET Objective,
   realigning          : SUBSET Objective,   \* links with realignment_required
   realignment_pending : 0..Cardinality(Objective)]

\* PINV-10 at rest is part of the types: an owner holds the owner role.
PolicyTypeOK ==
  /\ policy \in [Policy -> PolicyRecord]
  /\ \A p \in Policy : policy[p].realigning \subseteq policy[p].control_links
  /\ blocking \in SUBSET Policy

NewPolicy ==
  [lifecycle_state |-> "Absent", policy_owner_id |-> Nobody,
   approved_by |-> Nobody, body |-> NoText, scope |-> FALSE, versions |-> {},
   effective |-> FALSE, change_summary |-> FALSE, control_links |-> {},
   realigning |-> {}, realignment_pending |-> 0]

Init ==
  /\ policy = [p \in Policy |-> NewPolicy]
  /\ blocking = {}

-----------------------------------------------------------------------------
(* Writes                                                                  *)

Exists(p) == policy[p].lifecycle_state # "Absent"

\* Slip: any user may be named.
PINV10AnyUser(x) == x.policy_owner_id \in Person \cup {Nobody}

\* PINV-10
PINV10(x) == x.policy_owner_id \in PolicyOwners \cup {Nobody}

\* PINV-1
PINV1(x) == x.lifecycle_state \in Enforceable => x.control_links # {}

\* PINV-5; two empty columns are no self-approval.
PINV5(x) ==
  x.approved_by = Nobody \/ x.approved_by \in Seniors \ {x.policy_owner_id}

\* PINV-8
PINV8(p, x) == x.lifecycle_state = "Deprecated" => p \notin blocking

Enforced(p, x) == PINV10(x) /\ PINV1(x) /\ PINV5(x) /\ PINV8(p, x)

Store(p, x) ==
  /\ policy' = [policy EXCEPT ![p] = x]
  /\ UNCHANGED blocking

\* A write through the service enforces the rules on the record it leaves.
Save(p, x) == Enforced(p, x) /\ Store(p, x)

\* A version row keeps the body; the scope has no column in it.
Capture(x) == [x EXCEPT !.versions = @ \cup {x.body}]

-----------------------------------------------------------------------------
(* Operations of the policy service                                        *)

CreatePolicy(p, owner, text, scope) ==
  /\ ~Exists(p)
  /\ Save(p, Capture([NewPolicy EXCEPT !.lifecycle_state = "Draft",
                                       !.policy_owner_id = owner,
                                       !.body = text,
                                       !.scope = scope]))

\* Slip: opening the revision is taken to have captured what is edited.
EditedActiveOnly(x, text) ==
  [IF text # x.body /\ x.lifecycle_state = "Active" THEN Capture(x) ELSE x
     EXCEPT !.body = text]

\* A new body in an enforceable policy captures the old one first.
Edited(x, text) ==
  [IF text # x.body /\ x.lifecycle_state \in Enforceable THEN Capture(x) ELSE x
     EXCEPT !.body = text]

\* An edit, in any lifecycle state; a new scope alone captures nothing.
UpdatePolicy(p, owner, text, scope, effective, summary) ==
  /\ Exists(p)
  /\ Save(p, [Edited(policy[p], text) EXCEPT !.policy_owner_id = owner,
                                             !.scope = scope,
                                             !.effective = effective,
                                             !.change_summary = summary])

\* An approval is recorded by the approver, in any lifecycle state.
Approve(p, actor) ==
  /\ Exists(p)
  /\ actor \in Seniors \ {policy[p].policy_owner_id}
  /\ Save(p, [policy[p] EXCEPT !.approved_by = actor])

\* Link edits enforce no rule; the removal checks PINV-1 for itself.
LinkControl(p, o) ==
  /\ Exists(p)
  /\ o \notin policy[p].control_links
  /\ Store(p, [policy[p] EXCEPT !.control_links = @ \cup {o}])

\* Slip: only an active policy keeps its last link.
MayUnlinkFromRevision(p, o) ==
  /\ o \in policy[p].control_links
  /\ policy[p].lifecycle_state = "Active" => Cardinality(policy[p].control_links) > 1

MayUnlink(p, o) ==
  /\ o \in policy[p].control_links
  /\ policy[p].lifecycle_state \in Enforceable =>
       Cardinality(policy[p].control_links) > 1

RemoveLink(p, o) ==
  Store(p, [policy[p] EXCEPT !.control_links = @ \ {o}, !.realigning = @ \ {o}])

UnlinkControl(p, o) == MayUnlink(p, o) /\ RemoveLink(p, o)

\* Slip: one less is pending, whatever the link said.
ConfirmAlignmentCountingDown(p, o) ==
  LET x == policy[p] IN
  /\ o \in x.control_links
  /\ Store(p, [x EXCEPT !.realigning = @ \ {o},
                        !.realignment_pending = IF @ = 0 THEN 0 ELSE @ - 1])

\* The control's side of the obligation; what is pending is counted anew.
ConfirmAlignment(p, o) ==
  LET x == policy[p] IN
  /\ o \in x.control_links
  /\ Store(p, [x EXCEPT !.realigning = @ \ {o},
                        !.realignment_pending = Cardinality(x.realigning \ {o})])

-----------------------------------------------------------------------------
(* The lifecycle                                                           *)

Approvable(x) == x.approved_by # Nobody /\ PINV5(x)

\* policy.revision_opened and policy.deprecated: every link owes a check.
OweAlignment(x) ==
  [x EXCEPT !.realigning = x.control_links,
            !.realignment_pending = Cardinality(x.control_links)]

\* policy.activated discharges every obligation, confirmed or not.
Aligned(x) == [x EXCEPT !.realigning = {}, !.realignment_pending = 0]

\* One gated transition: the effect of its hook and cascade is x.
Move(p, source, target, x) ==
  /\ policy[p].lifecycle_state = source
  /\ Save(p, [x EXCEPT !.lifecycle_state = target])

SubmitForReview(p) ==
  /\ policy[p].body # NoText
  /\ policy[p].scope
  /\ Move(p, "Draft", "Under_Review", policy[p])

ReturnToDraft(p) == Move(p, "Under_Review", "Draft", policy[p])

ApproveReview(p) ==
  /\ Approvable(policy[p])
  /\ Move(p, "Under_Review", "Approved", policy[p])

Activate(p) ==
  /\ policy[p].control_links # {}
  /\ policy[p].effective
  /\ policy[p].approved_by # Nobody
  /\ Move(p, "Approved", "Active", Aligned(policy[p]))

\* The hook captures the body in force; the trigger may be given as a reason.
OpenRevision(p) == Move(p, "Active", "Under_Revision", OweAlignment(Capture(policy[p])))

\* The request can always name the new version, which settles PL-4's other half.
ApproveRevision(p) ==
  /\ policy[p].change_summary
  /\ Approvable(policy[p])
  /\ Move(p, "Under_Revision", "Approved", policy[p])

Deprecate(p) ==
  /\ policy[p].change_summary
  /\ p \notin blocking
  /\ Move(p, "Active", "Deprecated", OweAlignment(policy[p]))

Reinstate(p) == Move(p, "Deprecated", "Under_Review", policy[p])

\* The register: a risk that blocks retirement appears or is dealt with.
RegisterMoves(p) ==
  /\ blocking' \in {blocking \cup {p}, blocking \ {p}}
  /\ UNCHANGED policy

-----------------------------------------------------------------------------
(* The specification                                                       *)

Edit(p) ==
  \/ \E owner \in Person \cup {Nobody}, text \in Text \cup {NoText}, scope \in BOOLEAN :
       \/ CreatePolicy(p, owner, text, scope)
       \/ \E effective, summary \in BOOLEAN :
            UpdatePolicy(p, owner, text, scope, effective, summary)
  \/ \E actor \in Person : Approve(p, actor)
  \/ \E o \in Objective :
       LinkControl(p, o) \/ UnlinkControl(p, o) \/ ConfirmAlignment(p, o)

Transition(p) ==
  \/ SubmitForReview(p) \/ ReturnToDraft(p) \/ ApproveReview(p) \/ Activate(p)
  \/ OpenRevision(p) \/ ApproveRevision(p) \/ Deprecate(p) \/ Reinstate(p)

Next == \E p \in Policy : Edit(p) \/ Transition(p) \/ RegisterMoves(p)

Spec == Init /\ [][Next]_vars

-----------------------------------------------------------------------------
(* Properties that hold                                                    *)

\* PINV-1 and PINV-5 at rest.  However owners, links and approvals are edited
\* afterwards, a policy in force is linked to a control, and one that passed
\* approval carries that of a senior person who is not its owner.
EnforcedPolicyIsBacked ==
  \A p \in Policy :
    /\ policy[p].lifecycle_state \in Enforceable => policy[p].control_links # {}
    /\ policy[p].lifecycle_state \in Enforceable \cup {"Approved", "Deprecated"} =>
         policy[p].approved_by \in Seniors \ {policy[p].policy_owner_id}

\* PINV-7.  Links come and go while a revision is open, so the count on the
\* policy may be too high; it never reports less than the controls still owe,
\* and an active policy owes nothing by either account.
AlignmentNeverUnderstated ==
  \A p \in Policy :
    /\ Cardinality(policy[p].realigning) <= policy[p].realignment_pending
    /\ policy[p].lifecycle_state = "Active" => policy[p].realignment_pending = 0

\* PINV-9 while in force, for the body: one that was enforceable, or drafted
\* in an open revision, is never overwritten without a captured copy.  The
\* scope and the purpose beside it have no versions at all.
BodyInForceKept ==
  [][\A p \in Policy :
       policy[p].lifecycle_state \in Enforceable /\ policy'[p].body # policy[p].body
       => policy[p].body \in policy'[p].versions]_vars

-----------------------------------------------------------------------------
(* What the documents say and the code does not do                         *)

\* "A body change on a policy that has ever been Active captures an immutable
\* version first, so the prior text is always recoverable": a deprecated
\* policy has been active.
PriorTextRecoverable ==
  [][\A p \in Policy :
       /\ policy[p].lifecycle_state \in Enforceable \cup {"Deprecated"}
       /\ policy'[p].body # policy[p].body
       => policy[p].body \in policy'[p].versions]_vars

=============================================================================
