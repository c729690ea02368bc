--------------------------------- MODULE Leaves ---------------------------------
(***************************************************************************)
(* The leave requests of one member of staff: leave.service.js.  A request *)
(* checks the document (status, overlap with other leaves), and later      *)
(* writes; updateById reads the document again before it saves.  On a      *)
(* replica set both are one transaction, which a concurrent write aborts;  *)
(* when runTransaction meets a server without transactions it runs the     *)
(* same operation without a session.                                       *)
(***************************************************************************)
EXTENDS Integers, FiniteSets

CONSTANTS
  LeaveIds,     \* leave requests that may be filed
  LastDay,      \* days are 0..LastDay
  Managers, Employee,   \* users: those who may manage leaves, and the staff member
  MaxFilings    \* bound on the requests under way

ASSUME LeaveAssumption ==
  /\ LastDay \in Nat /\ MaxFilings \in Nat
  /\ Employee \notin Managers

VARIABLES
  leave,       \* the documents
  filing,      \* requests that have passed their checks
  leaveTxn     \* whether the database has transactions: fixed at start

leaveVars == <<leave, filing, leaveTxn>>

Blocking == {"pending", "approved"}
NoLeave == [status |-> "absent", days |-> {}, by |-> Employee]

Users == Managers \cup {Employee}

\* buildDateRange, and enumerateDates.
Periods == {p \in SUBSET (0..LastDay) :
              p # {} /\ \A d \in 0..LastDay : (\E a, b \in p : a <= d /\ d <= b) => d \in p}

\* findOverlapping
Overlapping(l, days) ==
  \E k \in LeaveIds \ {l} : leave[k].status \in Blocking /\ leave[k].days \cap days # {}

\* Mutant of DatesUnique: there is no unique index.
DatesAny(documents) == TRUE

\* The partial unique index on staffId and dates.
DatesUnique(documents) ==
  \A k, l \in LeaveIds :
    k # l /\ documents[k].status \in Blocking /\ documents[l].status \in Blocking
      => documents[k].days \cap documents[l].days = {}

-----------------------------------------------------------------------------
\* Who may make which change to the copy that was read.
MayReview(x, actor) == x.status = "pending" /\ actor \in Managers /\ actor # x.by

MayCancel(x, actor) ==
  \/ x.status = "pending" /\ (actor = x.by \/ actor \in Managers)
  \/ x.status = "approved" /\ actor \in Managers

MayUpdate(x, actor) == x.status = "pending" /\ (actor = x.by \/ actor \in Managers)

Changes(l, actor) ==
  LET x == leave[l]
  IN  (IF MayReview(x, actor) THEN {[status |-> "approved"], [status |-> "rejected"]} ELSE {})
      \cup (IF MayCancel(x, actor) THEN {[status |-> "cancelled"]} ELSE {})
      \cup (IF MayUpdate(x, actor)
              THEN {[days |-> p] : p \in {q \in Periods : ~Overlapping(l, q)}} ELSE {})

LeaveInit ==
  /\ leave = [l \in LeaveIds |-> NoLeave]
  /\ filing = {}
  /\ leaveTxn \in BOOLEAN

File(l, set) ==
  /\ Cardinality(filing) < MaxFilings
  /\ filing' = filing \cup {[on |-> l, set |-> set, current |-> TRUE]}
  /\ UNCHANGED <<leave, leaveTxn>>

\* createLeave
CreateLeave(l, actor, days) ==
  /\ leave[l].status = "absent"
  /\ ~Overlapping(l, days)
  /\ File(l, [status |-> "pending", days |-> days, by |-> actor])

\* approveLeave, rejectLeave, cancelLeave, updateLeave, up to the write
ChangeLeave(l, actor, set) ==
  /\ set \in Changes(l, actor)
  /\ File(l, set)

\* Mutant of Current: the copy that was checked is not compared.
CurrentAny(f) == TRUE

\* A transaction saves only what nobody has changed since it read it.
Current(f) == leaveTxn => f.current

\* The other requests, whose copies of the saved document are out of date.
Outdated(f) == {[g EXCEPT !.current = @ /\ g.on # f.on] : g \in filing \ {f}}

\* Object.assign: the document with the fields of a request.
Amended(x, set) == [k \in DOMAIN x |-> IF k \in DOMAIN set THEN set[k] ELSE x[k]]

\* The save: the index, and within a transaction the version, may refuse it.
SaveLeave(f) ==
  /\ LET new == [leave EXCEPT ![f.on] = Amended(@, f.set)]
     IN  IF Current(f) /\ DatesUnique(new)
           THEN leave' = new /\ filing' = Outdated(f)
           ELSE leave' = leave /\ filing' = filing \ {f}
  /\ UNCHANGED leaveTxn

LeaveNext ==
  \/ \E l \in LeaveIds, actor \in Users :
       \/ \E days \in Periods : CreateLeave(l, actor, days)
       \/ \E set \in Changes(l, actor) : ChangeLeave(l, actor, set)
  \/ \E f \in filing : SaveLeave(f)

LeaveSpec == LeaveInit /\ [][LeaveNext]_leaveVars

-----------------------------------------------------------------------------
(* Properties *)

\* Types, with what the index and the checks secure between them: periods of
\* whole days, no pending or approved leave on a day of another one.
LeaveTypeOK ==
  \A l \in LeaveIds :
    /\ leave[l].status \in {"absent", "rejected", "cancelled"} \cup Blocking
    /\ leave[l].status # "absent" => leave[l].days \in Periods
    /\ \A k \in LeaveIds \ {l} :
         {leave[k].status, leave[l].status} \subseteq Blocking
           => leave[k].days \cap leave[l].days = {}

\* With transactions a decision stands: a rejected or cancelled leave never
\* changes again, and an approved one keeps its days and can only be cancelled.
DecisionStands ==
  [][leaveTxn => \A l \in LeaveIds :
       /\ leave[l].status \in {"rejected", "cancelled"} => leave'[l] = leave[l]
       /\ leave[l].status = "approved" /\ leave'[l] # leave[l] =>
            leave'[l].status = "cancelled" /\ leave'[l].days = leave[l].days]_leaveVars
=============================================================================
