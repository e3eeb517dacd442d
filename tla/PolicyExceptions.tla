-------------------------- MODULE PolicyExceptions --------------------------
(***************************************************************************)
(* Exceptions to policies: a deviation requested, approved for a bounded   *)
(* time, and expired by the nightly job once its date has passed.          *)
(*                                                                         *)
(* A date matters through the windows its distance from today falls in, so *)
(* an exception keeps its window and the days move it to the next.         *)
(***************************************************************************)
EXTENDS Integers, FiniteSets

CONSTANTS
  PolicyId,    \* policies.id
  Exception,
  PolicyOf     \* policy_exceptions.policy_id

ASSUME ExceptionAssumption ==
  /\ PolicyOf \in [Exception -> PolicyId]
  /\ IsFiniteSet(Exception)

VARIABLES
  exception,        \* the exception records
  exception_count   \* the column of the same name, by policy

evars == <<exception, exception_count>>

ExceptionStates == {"Requested", "Approved", "Rejected", "Expired"}

\* Past, today, within a year, within two, and later.
Windows == {"Past", "Today", "Standard", "Extended", "Beyond"}

Nearer ==
  [Beyond |-> "Extended", Extended |-> "Standard", Standard |-> "Today", Today |-> "Past"]

ExceptionRecord ==
  [lifecycle_state : ExceptionStates \cup {"Absent"},
   expiry_date     : Windows,
   documented      : BOOLEAN,    \* justification and risk statement
   approved_by     : {"Nobody", "Owner", "CISO"}]

\* Who approved is on record from the act of approving, and only from it.
ExceptionTypeOK ==
  /\ exception \in [Exception -> ExceptionRecord]
  /\ \A e \in Exception :
       exception[e].lifecycle_state \in {"Approved", "Expired"} <=>
         exception[e].approved_by # "Nobody"
  /\ exception_count \in [PolicyId -> 0..Cardinality(Exception)]

ExceptionInit ==
  /\ exception = [e \in Exception |->
       [lifecycle_state |-> "Absent", expiry_date |-> "Past",
        documented |-> FALSE, approved_by |-> "Nobody"]]
  /\ exception_count = [p \in PolicyId |-> 0]

-----------------------------------------------------------------------------
(* Writes                                                                  *)

Filed(e) == exception[e].lifecycle_state # "Absent"

\* PE-5: what a write leaves approved has not run out.
PE5(x) == x.lifecycle_state = "Approved" => x.expiry_date # "Past"

\* active_exception_count, over the records xs.
ActiveExceptions(xs, p) ==
  Cardinality({e \in Exception : PolicyOf[e] = p /\ xs[e].lifecycle_state = "Approved"})

\* A write that fires no cascade leaves the count alone.
SaveException(e, x) ==
  /\ PE5(x)
  /\ exception' = [exception EXCEPT ![e] = x]
  /\ UNCHANGED exception_count

\* Slip: the count is taken before the records move.
RecountEarly(xs, touched) ==
  exception_count' =
    [p \in PolicyId |-> IF \E e \in touched : PolicyOf[e] = p
                      THEN ActiveExceptions(exception, p) ELSE exception_count[p]]

\* exception.approved and exception.expired recount the policy of what moved.
Recount(xs, touched) ==
  exception_count' =
    [p \in PolicyId |-> IF \E e \in touched : PolicyOf[e] = p
                      THEN ActiveExceptions(xs, p) ELSE exception_count[p]]

\* A transition with its cascade.
MoveException(e, x) ==
  /\ PE5(x)
  /\ exception' = [exception EXCEPT ![e] = x]
  /\ Recount(exception', {e})

-----------------------------------------------------------------------------
(* Requests                                                                *)

CreateException(e, window, documented) ==
  /\ ~Filed(e)
  /\ window \notin {"Past", "Today"}
  /\ SaveException(e, [exception[e] EXCEPT !.lifecycle_state = "Requested",
                                           !.expiry_date = window,
                                           !.documented = documented])

\* An edit in any lifecycle state; no window is compared with a limit.
UpdateException(e, window, documented) ==
  /\ Filed(e)
  /\ SaveException(e, [exception[e] EXCEPT !.expiry_date = window, !.documented = documented])

\* PE-1: a year, or two with the CISO.
WithinLimit(window, actor) ==
  window = "Standard" \/ (window = "Extended" /\ actor = "CISO")

\* Slip: the approver is left to an edit.
ApproveAnonymously(e, actor) ==
  /\ exception[e].lifecycle_state = "Requested"
  /\ WithinLimit(exception[e].expiry_date, actor)
  /\ exception[e].documented
  /\ MoveException(e, [exception[e] EXCEPT !.lifecycle_state = "Approved"])

ApproveException(e, actor) ==
  /\ exception[e].lifecycle_state = "Requested"
  /\ WithinLimit(exception[e].expiry_date, actor)
  /\ exception[e].documented
  /\ MoveException(e, [exception[e] EXCEPT !.lifecycle_state = "Approved", !.approved_by = actor])

\* The rationale may be the reason of the request, so one is always there.
RejectException(e) ==
  /\ exception[e].lifecycle_state = "Requested"
  /\ SaveException(e, [exception[e] EXCEPT !.lifecycle_state = "Rejected"])

\* Open to anyone, at any time.
ExpireException(e) ==
  /\ exception[e].lifecycle_state = "Approved"
  /\ MoveException(e, [exception[e] EXCEPT !.lifecycle_state = "Expired"])

-----------------------------------------------------------------------------
(* Time and the job                                                        *)

DayPasses(e) ==
  /\ Filed(e) /\ exception[e].expiry_date # "Past"
  /\ exception' = [exception EXCEPT ![e].expiry_date = Nearer[@]]
  /\ UNCHANGED exception_count

Lapsed(e) ==
  exception[e].lifecycle_state = "Approved" /\ exception[e].expiry_date = "Past"

\* Slip: what a senior person approved is left to them.
DueOfOwners == {e \in Exception : Lapsed(e) /\ exception[e].approved_by = "Owner"}

Due == {e \in Exception : Lapsed(e)}

\* expire_policy_exceptions, committed.
ExpireDue ==
  /\ exception' = [e \in Exception |->
       IF e \in Due THEN [exception[e] EXCEPT !.lifecycle_state = "Expired"]
       ELSE exception[e]]
  /\ Recount(exception', Due)

-----------------------------------------------------------------------------
(* The specification                                                       *)

Request(e) ==
  \/ \E window \in Windows, documented \in BOOLEAN :
       CreateException(e, window, documented) \/ UpdateException(e, window, documented)
  \/ \E actor \in {"Owner", "CISO"} : ApproveException(e, actor)
  \/ RejectException(e)
  \/ ExpireException(e)

-----------------------------------------------------------------------------
(* Properties                                                              *)

\* The volume that triggers an unscheduled review is counted by the cascades
\* of single exceptions; between them it never drifts from the register.
CountMatchesRegister ==
  \A p \in PolicyId : exception_count[p] = ActiveExceptions(exception, p)

\* The engine's contract for exceptions.  Nothing declared leads out of an
\* end state, and the bulk expiry keeps to the edges as the requests do.
ExceptionEngine ==
  INSTANCE LifecycleEngine WITH
    Entity    <- Exception,
    Absent    <- "Absent",
    Initial   <- "Requested",
    States    <- ExceptionStates,
    Terminal  <- {"Expired", "Rejected"},
    Edges     <- {<<"Requested", "Approved">>, <<"Requested", "Rejected">>,
                  <<"Approved", "Expired">>},
    Wildcards <- {},
    state     <- [e \in Exception |-> exception[e].lifecycle_state]

\* An expired or rejected exception never comes back: a renewal is a new one.
FollowsExceptionMachine == ExceptionEngine!Spec

\* PE-1, "ALWAYS time-bound (max 1yr; CISO approval for 2yr)".  An approved
\* exception can be edited to any later date, so the code does not keep it.
ExceptionsStayBounded ==
  \A e \in Exception :
    exception[e].lifecycle_state = "Approved" =>
      /\ exception[e].expiry_date # "Beyond"
      /\ exception[e].expiry_date = "Extended" => exception[e].approved_by = "CISO"

=============================================================================
