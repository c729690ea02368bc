------------------------------ MODULE Scheduling ------------------------------
(***************************************************************************)
(* Appointments of one branch on one day: booking, rescheduling, change of *)
(* services, assignment of staff, status, deletion, and the cascade that   *)
(* shifts later appointments when one is extended (appointment.service.js).*)
(*                                                                         *)
(* Every handler but the cascade reads the document, computes a partial    *)
(* update and writes it with an unconditional $set; a unique multikey      *)
(* index on (staff, minute) refuses a write that would share a minute.     *)
(* Only the cascade looks at, and moves, the field `version`.              *)
(*                                                                         *)
(* Staff who are on leave or suspended, the past, opening hours and the    *)
(* early-start window only refuse requests: here nobody makes those.       *)
(***************************************************************************)
EXTENDS Integers, SequencesExt, FiniteSets

CONSTANTS
  Bookings,            \* appointments that may be made: numbers, used in order
  Stylists, NoStylist, \* staff, and the staffId of an unassigned appointment
  DayEnd,              \* the day is the minutes 0..DayEnd-1
  Lengths,             \* total durations of a choice of services
  MaxRequests,         \* bound on the requests under way
  MaxBookVersion,      \* bound on cascades through one appointment
  Shared               \* whether requests about one appointment may race freely

ASSUME SchedulingAssumption ==
  /\ {DayEnd, MaxRequests, MaxBookVersion} \subseteq Nat \ {0}
  /\ Lengths \subseteq Nat \ {0}
  /\ Bookings \subseteq Nat /\ IsFiniteSet(Bookings) /\ NoStylist \notin Stylists
  /\ Shared \in BOOLEAN

VARIABLES
  book,    \* the appointment documents
  desk     \* requests under way: what each is about to write

bookVars == <<book, desk>>

Ongoing == {"scheduled", "in_progress"}

\* generateSlotMinutes
Slots(from, till) == from..(till - 1)

SlotsFor(stylist, from, till) == IF stylist = NoStylist THEN {} ELSE Slots(from, till)

Unbooked ==
  [status |-> "absent", stylist |-> NoStylist, from |-> 0, till |-> 0, length |-> 0,
   slots |-> {}, version |-> 1]

\* Mutant of Admitted: no unique index.
AdmittedAny(documents) == TRUE

\* The partial unique index on staff and slotMinutes.
Admitted(documents) ==
  \A a, b \in Bookings :
    /\ a # b
    /\ documents[a].status \in Ongoing /\ documents[b].status \in Ongoing
    /\ documents[a].stylist = documents[b].stylist /\ documents[a].stylist # NoStylist
    => documents[a].slots \cap documents[b].slots = {}

-----------------------------------------------------------------------------
(* Updates: the fields a handler sets, computed from the copy it read *)

\* rescheduleAppointment: the duration stays, and the end must be the same day.
Rescheduled(x) ==
  {[from |-> t, till |-> t + x.length, slots |-> SlotsFor(x.stylist, t, t + x.length)]
     : t \in 0..(DayEnd - x.length)}

\* assignStaff: a walk-in whose time has passed is moved to now.
Assigned(x) ==
  {[stylist |-> s, from |-> x.from, till |-> x.till, slots |-> SlotsFor(s, x.from, x.till)]
     : s \in Stylists \cup {NoStylist}}
  \cup {[stylist |-> s, from |-> t, till |-> t + x.length, slots |-> SlotsFor(s, t, t + x.length)]
          : s \in Stylists \cup {NoStylist}, t \in (x.from + 1)..(DayEnd - 1)}

\* updateAppointment with services, and with another member of staff as well.
ServicesChanged(x) ==
  (IF x.stylist = NoStylist
     THEN {[length |-> n, till |-> x.from + n] : n \in Lengths}
     ELSE {[length |-> n, till |-> x.from + n, slots |-> Slots(x.from, x.from + n)] : n \in Lengths})
  \cup {[length |-> n, till |-> x.from + n, stylist |-> s,
         slots |-> SlotsFor(s, x.from, x.from + n)]
          : n \in Lengths, s \in Stylists \cup {NoStylist}}

\* updateAppointment with another member of staff only.
StylistChanged(x) ==
  {[stylist |-> s, slots |-> SlotsFor(s, x.from, x.till)] : s \in Stylists \cup {NoStylist}}

\* updateStatus.  Cancelled, completed and no_show end an appointment alike.
StatusChanged(x) ==
  (IF x.status = "scheduled" /\ x.stylist # NoStylist
     THEN {[status |-> "in_progress"]} ELSE {})
  \cup {[status |-> "scheduled"], [status |-> "closed", slots |-> {}]}

\* What may be written to an appointment that is not over.
TimeChanged(x) == Rescheduled(x) \cup Assigned(x) \cup ServicesChanged(x) \cup StylistChanged(x)

Updates(x) ==
  CASE x.status \in Ongoing -> TimeChanged(x) \cup StatusChanged(x) \cup {[status |-> "deleted"]}
    [] x.status = "closed" -> {[status |-> "deleted"]}
    [] OTHER -> {}

\* $set: the document with the fields of an update.
Written(x, update) == [k \in DOMAIN x |-> IF k \in DOMAIN update THEN update[k] ELSE x[k]]

-----------------------------------------------------------------------------
(* The cascade *)

\* Mutant of ChainAt: the calendar day is not checked.
ChainOvernight(chain, b) ==
  LET x == book[b]
  IN  IF chain.stopped \/ x.from >= chain.end THEN chain
      ELSE IF x.status = "in_progress" THEN [chain EXCEPT !.stopped = TRUE]
        ELSE [chain EXCEPT
                !.end = @ + x.length,
                !.moves = Append(@, [on |-> b, from |-> chain.end, length |-> x.length,
                                     version |-> x.version])]

\* One appointment of the same staff and day, met in order of its start: it is
\* moved behind the chain if it starts before the chain ends; one in progress, or
\* one that would leave the day, is a conflict, which ends the chain.
ChainAt(chain, b) ==
  LET x == book[b]
  IN  IF chain.stopped \/ x.from >= chain.end THEN chain
      ELSE IF x.status = "in_progress" \/ chain.end + x.length > DayEnd
        THEN [chain EXCEPT !.stopped = TRUE]
        ELSE [chain EXCEPT
                !.end = @ + x.length,
                !.moves = Append(@, [on |-> b, from |-> chain.end, length |-> x.length,
                                     version |-> x.version])]

\* The other appointments of the same staff and day, in order of their start; the
\* sort leaves open who comes first of two that start together.
Subsequent(a) ==
  LET others == {b \in Bookings \ {a} : book[b].status \in Ongoing
                                         /\ book[b].stylist = book[a].stylist}
  IN  {met \in SetToSeqs(others) :
         \A i \in 2..Len(met) : book[met[i - 1]].from <= book[met[i]].from}

\* previewServiceModification: the new end of a, and where those it meets go.
Preview(a, n, till, met) ==
  LET x == book[a]
      start == [end |-> till, stopped |-> FALSE, moves |-> <<>>]
  IN  [kind |-> "commit", about |-> "time", on |-> a, stylist |-> x.stylist,
       from |-> x.from, till |-> till, length |-> n, version |-> x.version,
       moves |-> IF x.stylist = NoStylist \/ till <= x.till THEN <<>>
                 ELSE FoldLeft(ChainAt, start, met).moves]

\* Mutant of MoveApplies: the shift is filtered by version only.
MoveOnVersion(x, move) == x.version = move.version

MoveApplies(x, move) == x.version = move.version /\ x.status = "scheduled"

Moved(x, move) ==
  [x EXCEPT !.from = move.from, !.till = move.from + move.length,
            !.slots = Slots(move.from, move.from + move.length), !.version = @ + 1]

\* The version of the extended appointment and of all it moves, or nothing.
CommitApplies(plan) ==
  /\ book[plan.on].version = plan.version
  /\ \A i \in DOMAIN plan.moves : MoveApplies(book[plan.moves[i].on], plan.moves[i])

\* The documents the transaction of commitServiceModification leaves.
Committed(plan) ==
  [b \in Bookings |->
     LET mine == {i \in DOMAIN plan.moves : plan.moves[i].on = b}
     IN  IF b = plan.on
           THEN [book[b] EXCEPT !.length = plan.length, !.till = plan.till,
                                !.slots = SlotsFor(plan.stylist, plan.from, plan.till),
                                !.version = @ + 1]
           ELSE IF mine = {} THEN book[b]
                ELSE Moved(book[b], plan.moves[CHOOSE i \in mine : TRUE])]

-----------------------------------------------------------------------------
BookInit ==
  /\ book = [b \in Bookings |-> Unbooked]
  /\ desk = {}

CreateAppointment(b, s, from, n) ==
  /\ book[b].status = "absent"
  /\ \A earlier \in Bookings : earlier < b => book[earlier].status # "absent"
  /\ from + n <= DayEnd
  /\ LET made == [status |-> "scheduled", stylist |-> s, from |-> from, till |-> from + n,
                  length |-> n, slots |-> SlotsFor(s, from, from + n), version |-> 1]
     IN  book' = [book EXCEPT ![b] = made]
  /\ Admitted(book')
  /\ UNCHANGED desk

\* The appointments a request is about.
Touched(request) == {request.on} \cup {request.moves[i].on : i \in DOMAIN request.moves}

\* Unless Shared, of the requests under way at most one sets the status of an
\* appointment and at most one its time, staff or services.
Begin(request) ==
  /\ Cardinality(desk) < MaxRequests
  /\ ~Shared => \A other \in desk :
       Touched(other) \cap Touched(request) # {} => request.about # other.about
  /\ desk' = desk \cup {request}
  /\ UNCHANGED book

\* A handler has read the appointment and computed what it will write.
ReadAppointment(b, update) ==
  Begin([kind |-> "write", on |-> b, moves |-> <<>>, update |-> update,
            about |-> IF "status" \in DOMAIN update THEN "status" ELSE "time"])

\* Unless racing requests can revive what is over, only its status matters; and
\* the versions, which no two commits can then compare, restart.
Settled(documents) ==
  IF Shared THEN documents
  ELSE [b \in Bookings |-> IF documents[b].status \in Ongoing
                             THEN [documents[b] EXCEPT !.version = 1]
                             ELSE [Unbooked EXCEPT !.status = documents[b].status]]

\* The unconditional write, unless the appointment was deleted or the index refuses.
WriteAppointment(request) ==
  /\ request.kind = "write"
  /\ LET b == request.on
         new == [book EXCEPT ![b] = Written(@, request.update)]
     IN  book' = IF book[b].status # "deleted" /\ Admitted(new) THEN Settled(new) ELSE book
  /\ desk' = desk \ {request}

\* The fresh preview a commit computes; an extension may also be the time an
\* appointment in progress has already taken.
PreviewServiceModification(b, n, till) ==
  /\ book[b].status \in Ongoing
  /\ \/ till = book[b].from + n
     \/ till >= book[b].from + n /\ book[b].status = "in_progress"
  /\ \E met \in Subsequent(b) : Begin(Preview(b, n, till, met))

\* All documents change together, or none does.
CommitServiceModification(plan) ==
  /\ plan.kind = "commit"
  /\ LET new == Committed(plan)
     IN  /\ \A b \in Bookings : new[b].version <= MaxBookVersion
         /\ book' = IF CommitApplies(plan) /\ Admitted(new) THEN Settled(new) ELSE book
  /\ desk' = desk \ {plan}

BookNext ==
  \/ \E b \in Bookings, s \in Stylists \cup {NoStylist}, from \in 0..(DayEnd - 1), n \in Lengths :
       CreateAppointment(b, s, from, n)
  \/ \E b \in Bookings :
       \/ \E update \in Updates(book[b]) : ReadAppointment(b, update)
       \/ \E n \in Lengths, till \in 1..DayEnd : PreviewServiceModification(b, n, till)
  \/ \E request \in desk : WriteAppointment(request) \/ CommitServiceModification(request)

BookSpec == BookInit /\ [][BookNext]_bookVars

-----------------------------------------------------------------------------
(* Properties *)

\* What a preview plans are whole minutes, and takes some time.
PlansSound ==
  \A plan \in desk : \A i \in DOMAIN plan.moves :
    plan.moves[i].from \in Nat /\ plan.moves[i].length \in Nat \ {0}

BookTypeOK ==
  /\ \A b \in Bookings :
       /\ book[b].status \in Ongoing \cup {"absent", "closed", "deleted"}
       /\ book[b].stylist \in Stylists \cup {NoStylist}
       /\ book[b].from \in 0..(DayEnd - 1) /\ book[b].till \in Nat
       /\ book[b].slots \subseteq Nat
       /\ book[b].version \in 1..MaxBookVersion
  /\ PlansSound

Busy(b, s) == book[b].status \in Ongoing /\ book[b].stylist = s

Overlap(a, b) == book[a].from < book[b].till /\ book[b].from < book[a].till

\* Nobody is booked twice for one minute, however requests about different
\* appointments, cascades through them and changes of status interleave, as long
\* as two requests do not set the status, or the time, of one appointment at once.
NoDoubleBooking ==
  ~Shared => \A a, b \in Bookings, s \in Stylists :
               a # b /\ Busy(a, s) /\ Busy(b, s) => ~Overlap(a, b)

\* "Do not silently shift in_progress appointments": when a cascade commits, what
\* it moved had not been started since the preview.
StartedStaysPut ==
  [][\A plan \in desk : CommitServiceModification(plan) =>
       \A b \in Bookings : b # plan.on /\ book[b].status = "in_progress" =>
         book'[b] = book[b]]_bookVars

\* "Subsequent bookings" are shifted: an appointment that a cascade moves starts
\* no earlier than the one that was extended.
OnlyLaterShifted ==
  [][\A plan \in desk : ~Shared /\ CommitServiceModification(plan) =>
       \A b \in Bookings : b # plan.on /\ book'[b].from # book[b].from =>
         book[b].from >= book[plan.on].from]_bookVars

\* "Minute-level covered bucket array for atomic concurrency index": the index keeps
\* a member of staff from being booked twice, whatever requests overlap.
NeverDoubleBooked ==
  \A a, b \in Bookings, s \in Stylists :
    a # b /\ Busy(a, s) /\ Busy(b, s) => ~Overlap(a, b)
=============================================================================
