------------------------- MODULE Operations_proofs --------------------------
(***************************************************************************)
(* What is proved about running the salon: appointments, their reminders,  *)
(* and leaves.  The three models share no variable; each has its own       *)
(* invariant.                                                              *)
(***************************************************************************)
EXTENDS Scheduling, FiniteSetTheorems, Reminders, Leaves, TLAPS

-----------------------------------------------------------------------------
(***************************************************************************)
(* Proofs about Scheduling, for any appointments, stylists, durations and  *)
(* number of requests.                                                     *)
(*                                                                         *)
(* The index admits no two ongoing appointments of a stylist that share a  *)
(* minute slot; it protects the stylist only as far as slots and times     *)
(* agree.  The inductive invariant says that they do, and that the update  *)
(* of every request under way still fits the document it is about, because *)
(* nobody else is setting the same part of it.  Whether or not requests    *)
(* race freely, documents and plans keep their shape: the plan of a        *)
(* preview is a fold, and every step of it keeps the shape of the chain.   *)
(***************************************************************************)


Statuses == Ongoing \cup {"absent", "closed", "deleted"}
Doc == [status : Statuses, stylist : Stylists \cup {NoStylist}, from : Nat, till : Nat,
        length : Nat, slots : SUBSET Int, version : Nat]

\* The slots of an appointment are its minutes.
Timed(x) ==
  /\ x.from < x.till /\ x.length > 0
  /\ x.stylist # NoStylist => x.slots = Slots(x.from, x.till)

SameTime(x, y) ==
  x.stylist = y.stylist /\ x.from = y.from /\ x.till = y.till /\ x.length = y.length

BookSound ==
  /\ book \in [Bookings -> Doc]
  /\ \A b \in Bookings : book[b].version = 1 /\ (book[b].status \in Ongoing => Timed(book[b]))
  /\ Admitted(book)

StatusUpdates ==
  {[status |-> s] : s \in {"in_progress", "scheduled", "deleted"}}
    \cup {[status |-> "closed", slots |-> {}]}

\* The update of a request fits the document d it is about.
SetsStatus(r, d) ==
  /\ r.kind = "write" /\ r.about = "status"
  /\ r.update \in StatusUpdates
  /\ r.update.status \in Ongoing => d.status \in Ongoing

SetsTime(r, d) ==
  /\ r.kind = "write" /\ r.about = "time" /\ "status" \notin DOMAIN r.update
  /\ d.status \in Ongoing => r.update \in TimeChanged(d)

Extends(r, d) ==
  /\ r.kind = "commit" /\ r.about = "time"
  /\ r.length \in Nat \ {0} /\ r.from \in Nat /\ r.till \in Nat /\ r.from < r.till
  /\ d.status \in Ongoing => r.stylist = d.stylist /\ r.from = d.from

Fits(r, d) == SetsStatus(r, d) \/ SetsTime(r, d) \/ Extends(r, d)

DeskSound ==
  \A r \in desk : r.on \in Bookings /\ book[r.on].status # "absent" /\ Fits(r, book[r.on])

\* Of the requests under way, one sets the status of an appointment, and one its time.
Exclusive ==
  \A r, q \in desk : r # q /\ Touched(r) \cap Touched(q) # {} => r.about # q.about

BookInv == ~Shared => BookSound /\ DeskSound /\ Exclusive

\* The types, in either mode.
Shape == [status : Statuses, stylist : Stylists \cup {NoStylist}, from : 0..(DayEnd - 1),
          till : Nat, length : Nat, slots : SUBSET Nat, version : 1..MaxBookVersion]

BookShapes ==
  /\ book \in [Bookings -> Shape]
  /\ Shared => \A b \in Bookings : book[b].status # "absent" => book[b].length > 0

\* The fields an update may set.
Fields(u) ==
  /\ "version" \notin DOMAIN u
  /\ "status" \in DOMAIN u => u.status \in Statuses \ {"absent"}
  /\ "stylist" \in DOMAIN u => u.stylist \in Stylists \cup {NoStylist}
  /\ "from" \in DOMAIN u => u.from \in 0..(DayEnd - 1)
  /\ "till" \in DOMAIN u => u.till \in Nat
  /\ "length" \in DOMAIN u => u.length \in Nat /\ u.length > 0
  /\ "slots" \in DOMAIN u => u.slots \in SUBSET Nat

Shifts == [on : Bookings, from : 0..(DayEnd - 1), length : Nat \ {0}, version : 1..MaxBookVersion]
Chains == [end : Nat, stopped : BOOLEAN, moves : Seq(Shifts)]

Shaped(r) ==
  /\ r.on \in Bookings /\ r.moves \in Seq(Shifts)
  /\ r.kind = "write" => Fields(r.update)
  /\ r.kind = "commit" => /\ r.from \in 0..(DayEnd - 1) /\ r.till \in Nat
                          /\ r.length \in Nat /\ r.length > 0

DeskShapes == \A r \in desk : Shaped(r) /\ book[r.on].status # "absent"

-----------------------------------------------------------------------------
\* The constants are numbers.
LEMMA Numbers ==
  DayEnd \in Nat \ {0} /\ Lengths \subseteq Nat \ {0} /\ NoStylist \notin Stylists
  BY SchedulingAssumption

\* The minutes of a period.
LEMMA SlotsAreMinutes ==
  ASSUME NEW from \in Nat, NEW till \in Nat, NEW s
  PROVE  /\ Slots(from, till) \in SUBSET Int /\ SlotsFor(s, from, till) \in SUBSET Int
         /\ s # NoStylist => SlotsFor(s, from, till) = Slots(from, till)
  BY DEF Slots, SlotsFor

\* An update of the time, written to the document it was computed from.
LEMMA TimeWritten ==
  ASSUME NEW x \in Doc, Timed(x), NEW u \in TimeChanged(x)
  PROVE  /\ Written(x, u) \in Doc /\ Timed(Written(x, u))
         /\ Written(x, u).status = x.status /\ Written(x, u).version = x.version
<1> DEFINE w == Written(x, u)
<1>1. /\ x.stylist \in Stylists \cup {NoStylist} /\ x.from \in Nat /\ x.till \in Nat
      /\ x.length \in Nat /\ x.length > 0 /\ x.from < x.till /\ x.slots \in SUBSET Int
      /\ x.stylist # NoStylist => x.slots = Slots(x.from, x.till)
  BY DEF Doc, Timed
<1>2. ASSUME NEW s \in Stylists \cup {NoStylist}, NEW from \in Nat, NEW till \in Nat,
             NEW n \in Nat, NEW t \in SUBSET Int, from < till, n > 0,
             s # NoStylist => t = Slots(from, till),
             w = [status |-> x.status, stylist |-> s, from |-> from, till |-> till,
                  length |-> n, slots |-> t, version |-> x.version]
      PROVE  w \in Doc /\ Timed(w) /\ w.status = x.status /\ w.version = x.version
  BY <1>2 DEF Doc, Timed
<1> HIDE DEF w
<1>3. CASE u \in Rescheduled(x)
  <2>1. PICK t \in 0..(DayEnd - x.length) :
          u = [from |-> t, till |-> t + x.length, slots |-> SlotsFor(x.stylist, t, t + x.length)]
    BY <1>3 DEF Rescheduled
  <2>2. w = [status |-> x.status, stylist |-> x.stylist, from |-> t, till |-> t + x.length,
             length |-> x.length, slots |-> SlotsFor(x.stylist, t, t + x.length),
             version |-> x.version]
    BY <2>1 DEF w, Written, Doc
  <2>3. t \in Nat /\ t + x.length \in Nat /\ t < t + x.length
    BY <1>1, <2>1, Numbers
  <2> QED
    BY <1>1, <1>2, <2>2, <2>3, SlotsAreMinutes DEF w
<1>4. CASE u \in Assigned(x)
  <2>1. PICK s \in Stylists \cup {NoStylist}, t \in Nat, e \in Nat :
          t < e /\ u = [stylist |-> s, from |-> t, till |-> e, slots |-> SlotsFor(s, t, e)]
    <3>1. CASE \E s \in Stylists \cup {NoStylist} :
                 u = [stylist |-> s, from |-> x.from, till |-> x.till,
                      slots |-> SlotsFor(s, x.from, x.till)]
      BY <1>1, <3>1
    <3>2. CASE \E s \in Stylists \cup {NoStylist}, t \in (x.from + 1)..(DayEnd - 1) :
                 u = [stylist |-> s, from |-> t, till |-> t + x.length,
                      slots |-> SlotsFor(s, t, t + x.length)]
      <4>1. \A t \in (x.from + 1)..(DayEnd - 1) :
              t \in Nat /\ t + x.length \in Nat /\ t < t + x.length
        BY <1>1, Numbers
      <4> QED
        BY <3>2, <4>1
    <3> QED
      BY <1>4, <3>1, <3>2 DEF Assigned
  <2>2. w = [status |-> x.status, stylist |-> s, from |-> t, till |-> e,
             length |-> x.length, slots |-> SlotsFor(s, t, e), version |-> x.version]
    BY <2>1 DEF w, Written, Doc
  <2> QED
    BY <1>1, <1>2, <2>1, <2>2, SlotsAreMinutes DEF w
<1>5. CASE u \in ServicesChanged(x)
  <2>1. \A n \in Lengths : n \in Nat /\ n > 0 /\ x.from + n \in Nat /\ x.from < x.from + n
    BY <1>1, Numbers
  <2>2. CASE x.stylist = NoStylist /\ \E n \in Lengths : u = [length |-> n, till |-> x.from + n]
    <3>1. PICK n \in Lengths : u = [length |-> n, till |-> x.from + n]
      BY <2>2
    <3>2. w = [status |-> x.status, stylist |-> x.stylist, from |-> x.from, till |-> x.from + n,
               length |-> n, slots |-> x.slots, version |-> x.version]
      BY <3>1 DEF w, Written, Doc
    <3> QED
      BY <1>1, <1>2, <2>1, <2>2, <3>2 DEF w
  <2>3. CASE \E n \in Lengths : u = [length |-> n, till |-> x.from + n,
                                     slots |-> Slots(x.from, x.from + n)]
    <3>1. PICK n \in Lengths : u = [length |-> n, till |-> x.from + n,
                                    slots |-> Slots(x.from, x.from + n)]
      BY <2>3
    <3>2. w = [status |-> x.status, stylist |-> x.stylist, from |-> x.from, till |-> x.from + n,
               length |-> n, slots |-> Slots(x.from, x.from + n), version |-> x.version]
      BY <3>1 DEF w, Written, Doc
    <3>3. Slots(x.from, x.from + n) \in SUBSET Int
      BY <1>1, <2>1, SlotsAreMinutes
    <3> QED
      BY <1>1, <1>2, <2>1, <3>2, <3>3 DEF w
  <2>4. CASE \E n \in Lengths, s \in Stylists \cup {NoStylist} :
               u = [length |-> n, till |-> x.from + n, stylist |-> s,
                    slots |-> SlotsFor(s, x.from, x.from + n)]
    <3>1. PICK n \in Lengths, s \in Stylists \cup {NoStylist} :
               u = [length |-> n, till |-> x.from + n, stylist |-> s,
                    slots |-> SlotsFor(s, x.from, x.from + n)]
      BY <2>4
    <3>2. w = [status |-> x.status, stylist |-> s, from |-> x.from, till |-> x.from + n,
               length |-> n, slots |-> SlotsFor(s, x.from, x.from + n), version |-> x.version]
      BY <3>1 DEF w, Written, Doc
    <3> QED
      BY <1>1, <1>2, <2>1, <3>2, SlotsAreMinutes DEF w
  <2> QED
    BY <1>5, <2>2, <2>3, <2>4 DEF ServicesChanged
<1>6. CASE u \in StylistChanged(x)
  <2>1. PICK s \in Stylists \cup {NoStylist} :
          u = [stylist |-> s, slots |-> SlotsFor(s, x.from, x.till)]
    BY <1>6 DEF StylistChanged
  <2>2. w = [status |-> x.status, stylist |-> s, from |-> x.from, till |-> x.till,
             length |-> x.length, slots |-> SlotsFor(s, x.from, x.till), version |-> x.version]
    BY <2>1 DEF w, Written, Doc
  <2> QED
    BY <1>1, <1>2, <2>2, SlotsAreMinutes DEF w
<1> QED
  BY <1>3, <1>4, <1>5, <1>6 DEF TimeChanged, w

\* An update of the status leaves the rest, but for the slots of a closed one.
LEMMA StatusWritten ==
  ASSUME NEW x \in Doc, NEW u \in StatusUpdates
  PROVE  /\ Written(x, u) \in Doc /\ Written(x, u).status = u.status
         /\ Written(x, u).version = x.version /\ u.status # "absent"
         /\ u.status \in Ongoing => SameTime(Written(x, u), x) /\ Written(x, u).slots = x.slots
<1>1. ASSUME NEW s \in {"in_progress", "scheduled", "deleted"}, u = [status |-> s]
      PROVE  Written(x, u) = [status |-> s, stylist |-> x.stylist, from |-> x.from, till |-> x.till,
                              length |-> x.length, slots |-> x.slots, version |-> x.version]
  BY <1>1 DEF Written, Doc
<1>2. ASSUME u = [status |-> "closed", slots |-> {}]
      PROVE  Written(x, u) = [status |-> "closed", stylist |-> x.stylist, from |-> x.from,
                              till |-> x.till, length |-> x.length, slots |-> {},
                              version |-> x.version]
  BY <1>2 DEF Written, Doc
<1>3. CASE \E s \in {"in_progress", "scheduled", "deleted"} : u = [status |-> s]
  <2>1. PICK s \in {"in_progress", "scheduled", "deleted"} : u = [status |-> s]
    BY <1>3
  <2> QED
    BY <1>1, <2>1 DEF Doc, Statuses, SameTime, Ongoing
<1>4. CASE u = [status |-> "closed", slots |-> {}]
  BY <1>2, <1>4 DEF Doc, Statuses, Ongoing
<1> QED
  BY <1>3, <1>4 DEF StatusUpdates

\* What may be written depends on the times of a document only.
LEMMA SameTimeSameChanges ==
  ASSUME NEW x, NEW y, SameTime(x, y)
  PROVE  TimeChanged(x) = TimeChanged(y)
  BY DEF SameTime, TimeChanged, Rescheduled, Assigned, ServicesChanged, StylistChanged

\* A request goes on fitting a document of which others set another part.
LEMMA StillFits ==
  ASSUME NEW r, NEW x, NEW y, Fits(r, x),
         r.about = "status" => (x.status \in Ongoing => y.status \in Ongoing),
         r.about = "time" => (y.status \in Ongoing => x.status \in Ongoing /\ SameTime(x, y))
  PROVE  Fits(r, y)
<1>1. CASE SetsStatus(r, x)
  BY <1>1 DEF SetsStatus, Fits
<1>2. CASE SetsTime(r, x)
  BY <1>2, SameTimeSameChanges DEF SetsTime, Fits
<1>3. CASE Extends(r, x)
  BY <1>3 DEF Extends, Fits, SameTime
<1> QED
  BY <1>1, <1>2, <1>3 DEF Fits

\* An index that agrees with the times keeps appointments apart.
LEMMA SlotsKeepApart ==
  ASSUME BookSound, NEW a \in Bookings, NEW b \in Bookings, NEW s \in Stylists,
         a # b, Busy(a, s), Busy(b, s)
  PROVE  ~Overlap(a, b)
<1>1. /\ book[a] \in Doc /\ book[b] \in Doc /\ s # NoStylist
      /\ book[a].stylist = s /\ book[b].stylist = s
      /\ book[a].status \in Ongoing /\ book[b].status \in Ongoing
  BY Numbers DEF BookSound, Busy
<1>2. /\ book[a].from \in Nat /\ book[a].till \in Nat /\ book[a].from < book[a].till
      /\ book[b].from \in Nat /\ book[b].till \in Nat /\ book[b].from < book[b].till
      /\ book[a].slots = book[a].from..(book[a].till - 1)
      /\ book[b].slots = book[b].from..(book[b].till - 1)
  BY <1>1 DEF BookSound, Timed, Doc, Slots
<1>3. book[a].slots \cap book[b].slots = {}
  BY <1>1 DEF BookSound, Admitted
<1>4. SUFFICES ASSUME book[a].from < book[b].till, book[b].from < book[a].till PROVE FALSE
  BY DEF Overlap
<1>5. CASE book[a].from <= book[b].from
  <2>1. book[b].from \in book[a].slots \cap book[b].slots
    BY <1>2, <1>4, <1>5
  <2> QED
    BY <1>3, <2>1
<1>6. CASE book[b].from <= book[a].from
  <2>1. book[a].from \in book[a].slots \cap book[b].slots
    BY <1>2, <1>4, <1>6
  <2> QED
    BY <1>3, <2>1
<1> QED
  BY <1>2, <1>5, <1>6

-----------------------------------------------------------------------------
(* The steps, unless requests race freely *)

\* The invariant holds before anything is booked.
LEMMA InitBookInv == BookInit => BookInv
<1> SUFFICES ASSUME BookInit PROVE BookSound /\ DeskSound /\ Exclusive
  BY DEF BookInv
<1>1. Unbooked \in Doc /\ Unbooked.version = 1 /\ Unbooked.status = "absent"
  BY DEF Unbooked, Doc, Statuses
<1>2. book = [b \in Bookings |-> Unbooked] /\ desk = {}
  BY DEF BookInit
<1>3. BookSound
  BY <1>1, <1>2 DEF BookSound, Admitted, Ongoing
<1> QED
  BY <1>2, <1>3 DEF DeskSound, Exclusive

\* A new appointment is one no request is about.
LEMMA CreateKeepsBookInv ==
  ASSUME BookSound, DeskSound, Exclusive,
         NEW b \in Bookings, NEW s \in Stylists \cup {NoStylist},
         NEW from \in 0..(DayEnd - 1), NEW n \in Lengths, CreateAppointment(b, s, from, n)
  PROVE  BookSound' /\ DeskSound' /\ Exclusive'
<1> DEFINE made == [status |-> "scheduled", stylist |-> s, from |-> from, till |-> from + n,
                    length |-> n, slots |-> SlotsFor(s, from, from + n), version |-> 1]
<1>1. /\ book[b].status = "absent" /\ book' = [book EXCEPT ![b] = made]
      /\ Admitted(book') /\ desk' = desk
  BY DEF CreateAppointment
<1>2. from \in Nat /\ n \in Nat /\ n > 0 /\ from + n \in Nat /\ from < from + n
  BY Numbers
<1>3. made \in Doc /\ made.version = 1 /\ Timed(made)
  <2>1. /\ SlotsFor(s, from, from + n) \in SUBSET Int
        /\ s # NoStylist => SlotsFor(s, from, from + n) = Slots(from, from + n)
    BY <1>2, SlotsAreMinutes
  <2> QED
    BY <1>2, <2>1 DEF Doc, Statuses, Ongoing, Timed
<1> HIDE DEF made
<1>4. BookSound'
  BY <1>1, <1>3 DEF BookSound
<1>5. \A r \in desk : r.on # b /\ book'[r.on] = book[r.on]
  BY <1>1 DEF DeskSound, BookSound
<1> QED
  BY <1>1, <1>4, <1>5 DEF DeskSound, Exclusive, Touched

\* A request begins when nobody else sets the same part of what it touches.
LEMMA BeginKeepsBookInv ==
  ASSUME ~Shared, BookSound, DeskSound, Exclusive, NEW request, Begin(request),
         request.on \in Bookings, book[request.on].status # "absent",
         Fits(request, book[request.on])
  PROVE  BookSound' /\ DeskSound' /\ Exclusive'
<1>1. book' = book /\ desk' = desk \cup {request}
  BY DEF Begin
<1>2. \A q \in desk : Touched(q) \cap Touched(request) # {} => request.about # q.about
  BY DEF Begin
<1>3. Exclusive'
  <2>1. \A r, q \in desk' : r # q /\ Touched(r) \cap Touched(q) # {} => r.about # q.about
    BY <1>1, <1>2 DEF Exclusive
  <2> QED
    BY <2>1 DEF Exclusive, Touched
<1>4. BookSound'
  BY <1>1 DEF BookSound
<1>5. DeskSound'
  BY <1>1 DEF DeskSound
<1> QED
  BY <1>3, <1>4, <1>5

\* Statuses are not times.
LEMMA UpdateKinds ==
  ASSUME NEW x, NEW u
  PROVE  /\ u \in TimeChanged(x) => "status" \notin DOMAIN u
         /\ u \in StatusUpdates => "status" \in DOMAIN u
<1>1. ASSUME u \in TimeChanged(x) PROVE "status" \notin DOMAIN u
  <2>1. CASE u \in Rescheduled(x)
    BY <2>1 DEF Rescheduled
  <2>2. CASE u \in Assigned(x)
    BY <2>2 DEF Assigned
  <2>3. CASE u \in ServicesChanged(x)
    BY <2>3 DEF ServicesChanged
  <2>4. CASE u \in StylistChanged(x)
    BY <2>4 DEF StylistChanged
  <2> QED
    BY <1>1, <2>1, <2>2, <2>3, <2>4 DEF TimeChanged
<1>2. ASSUME u \in StatusUpdates PROVE "status" \in DOMAIN u
  BY <1>2 DEF StatusUpdates
<1> QED
  BY <1>1, <1>2

\* A handler reads an appointment and computes its update.
LEMMA ReadKeepsBookInv ==
  ASSUME ~Shared, BookSound, DeskSound, Exclusive,
         NEW b \in Bookings, NEW u \in Updates(book[b]), ReadAppointment(b, u)
  PROVE  BookSound' /\ DeskSound' /\ Exclusive'
<1> DEFINE request == [kind |-> "write", on |-> b, moves |-> <<>>, update |-> u,
                       about |-> IF "status" \in DOMAIN u THEN "status" ELSE "time"]
<1>1. Begin(request)
  BY DEF ReadAppointment
<1>2. /\ book[b].status # "absent"
      /\ \/ book[b].status \in Ongoing /\ u \in TimeChanged(book[b])
         \/ u \in StatusUpdates /\ (u.status \in Ongoing => book[b].status \in Ongoing)
  <2>1. CASE book[b].status \in Ongoing
    <3>1. u \in TimeChanged(book[b]) \cup StatusChanged(book[b]) \cup {[status |-> "deleted"]}
      BY <2>1 DEF Updates, Ongoing
    <3>2. u \in StatusChanged(book[b]) \cup {[status |-> "deleted"]} => u \in StatusUpdates
      BY DEF StatusChanged, StatusUpdates
    <3> QED
      BY <2>1, <3>1, <3>2 DEF Ongoing
  <2>2. CASE book[b].status \notin Ongoing
    <3>1. book[b].status = "closed" /\ u = [status |-> "deleted"]
      BY <2>2 DEF Updates
    <3> QED
      BY <3>1 DEF StatusUpdates, Ongoing
  <2> QED
    BY <2>1, <2>2
<1>3. Fits(request, book[b])
  BY <1>2, UpdateKinds DEF Fits, SetsTime, SetsStatus
<1> QED
  BY <1>1, <1>2, <1>3, BeginKeepsBookInv

\* A preview is computed from the appointment it extends.
LEMMA PreviewKeepsBookInv ==
  ASSUME ~Shared, BookSound, DeskSound, Exclusive,
         NEW b \in Bookings, NEW n \in Lengths, NEW till \in 1..DayEnd,
         PreviewServiceModification(b, n, till)
  PROVE  BookSound' /\ DeskSound' /\ Exclusive'
<1>0. PICK met \in Subsequent(b) : Begin(Preview(b, n, till, met))
  BY DEF PreviewServiceModification
<1>1. /\ book[b].status \in Ongoing /\ Begin(Preview(b, n, till, met))
      /\ till = book[b].from + n \/ till >= book[b].from + n
  BY <1>0 DEF PreviewServiceModification
<1>2. /\ Preview(b, n, till, met).kind = "commit" /\ Preview(b, n, till, met).about = "time"
      /\ Preview(b, n, till, met).on = b /\ Preview(b, n, till, met).stylist = book[b].stylist
      /\ Preview(b, n, till, met).from = book[b].from /\ Preview(b, n, till, met).till = till
      /\ Preview(b, n, till, met).length = n
  BY DEF Preview
<1>3. /\ book[b].from \in Nat /\ n \in Nat \ {0} /\ till \in Nat /\ book[b].from < till
  <2>1. book[b].from \in Nat /\ n \in Nat /\ n > 0 /\ till \in Nat
    BY Numbers DEF BookSound, Doc
  <2> QED
    BY <1>1, <2>1
<1>4. Fits(Preview(b, n, till, met), book[b])
  BY <1>2, <1>3 DEF Fits, Extends
<1> QED
  BY <1>1, <1>2, <1>4, BeginKeepsBookInv DEF Ongoing

\* Settling a document keeps its status and, while it goes on, its time.
LEMMA SettledDocument ==
  ASSUME ~Shared, NEW new, NEW b \in Bookings, new[b].status \in Statuses,
         new[b].status \in Ongoing => new[b] \in Doc
  PROVE  /\ Settled(new)[b] \in Doc /\ Settled(new)[b].version = 1
         /\ Settled(new)[b].status = new[b].status
         /\ new[b].status \in Ongoing =>
              SameTime(Settled(new)[b], new[b]) /\ Settled(new)[b].slots = new[b].slots
<1>1. CASE new[b].status \in Ongoing
  <2>1. Settled(new)[b] = [new[b] EXCEPT !.version = 1]
    BY <1>1 DEF Settled
  <2> QED
    BY <1>1, <2>1 DEF Doc, SameTime
<1>2. CASE new[b].status \notin Ongoing
  <2>1. Settled(new)[b] = [Unbooked EXCEPT !.status = new[b].status]
    BY <1>2 DEF Settled
  <2> QED
    BY <1>2, <2>1 DEF Doc, Unbooked
<1> QED
  BY <1>1, <1>2

\* Documents that were admitted are a sound book once settled.
LEMMA SettledIsSound ==
  ASSUME ~Shared, NEW new, Admitted(new), book' = Settled(new),
         \A b \in Bookings : /\ new[b].status \in Statuses
                             /\ new[b].status \in Ongoing => new[b] \in Doc /\ Timed(new[b])
  PROVE  BookSound'
<1>1. \A b \in Bookings :
        /\ book'[b] \in Doc /\ book'[b].version = 1 /\ book'[b].status = new[b].status
        /\ new[b].status \in Ongoing =>
             SameTime(book'[b], new[b]) /\ book'[b].slots = new[b].slots
  BY SettledDocument
<1>2. book' \in [Bookings -> Doc]
  <2>1. book' = [b \in Bookings |-> book'[b]]
    BY DEF Settled
  <2> QED
    BY <1>1, <2>1
<1>3. \A b \in Bookings : book'[b].status \in Ongoing => Timed(book'[b])
  BY <1>1 DEF Timed, SameTime
<1>4. Admitted(book')
  BY <1>1 DEF Admitted, SameTime
<1> QED
  BY <1>1, <1>2, <1>3, <1>4 DEF BookSound

\* When a request has written, the others still fit, if it left alone what they set.
LEMMA OthersStillFit ==
  ASSUME ~Shared, DeskSound, Exclusive, NEW r \in desk, desk' = desk \ {r}, NEW new,
         book' = Settled(new),
         \A b \in Bookings :
           /\ new[b].status \in Statuses /\ (new[b].status \in Ongoing => new[b] \in Doc)
           /\ book[b].status # "absent" => new[b].status # "absent"
           /\ r.about # "status" \/ b \notin Touched(r) =>
                (book[b].status \in Ongoing => new[b].status \in Ongoing)
           /\ r.about # "time" \/ b \notin Touched(r) =>
                (new[b].status \in Ongoing =>
                   book[b].status \in Ongoing /\ SameTime(book[b], new[b]))
  PROVE  DeskSound' /\ Exclusive'
<1>1. ASSUME NEW q \in desk', NEW b, b = q.on
      PROVE  b \in Bookings /\ book'[b].status # "absent" /\ Fits(q, book'[b])
  <2>1. /\ q \in desk /\ q # r /\ b \in Bookings /\ book[b].status # "absent"
        /\ Fits(q, book[b])
    BY <1>1 DEF DeskSound
  <2>2. b \in Touched(r) => q.about # r.about
    BY <1>1, <2>1 DEF Exclusive, Touched
  <2>3. /\ book'[b].status = new[b].status
        /\ new[b].status \in Ongoing => SameTime(book'[b], new[b])
    BY <2>1, SettledDocument
  <2>4. q.about = "status" => (book[b].status \in Ongoing => book'[b].status \in Ongoing)
    BY <2>1, <2>2, <2>3
  <2>5. q.about = "time" =>
          (book'[b].status \in Ongoing => book[b].status \in Ongoing /\ SameTime(book[b], book'[b]))
    BY <2>1, <2>2, <2>3 DEF SameTime
  <2>6. Fits(q, book'[b])
    BY <2>1, <2>4, <2>5, StillFits
  <2> QED
    BY <2>1, <2>3, <2>6
<1>2. DeskSound'
  BY <1>1 DEF DeskSound
<1>3. Exclusive'
  BY DEF Exclusive, Touched
<1> QED
  BY <1>2, <1>3

\* A request that changes nothing leaves the desk.
LEMMA LeavingKeepsBookInv ==
  ASSUME BookSound, DeskSound, Exclusive, NEW r \in desk, desk' = desk \ {r}, book' = book
  PROVE  BookSound' /\ DeskSound' /\ Exclusive'
<1>1. BookSound'
  BY DEF BookSound
<1>2. DeskSound'
  BY DEF DeskSound
<1>3. Exclusive'
  BY DEF Exclusive, Touched
<1> QED
  BY <1>1, <1>2, <1>3

\* A handler writes what it computed, if the appointment still exists and the index admits it.
LEMMA WriteKeepsBookInv ==
  ASSUME ~Shared, BookSound, DeskSound, Exclusive, NEW r \in desk, WriteAppointment(r)
  PROVE  BookSound' /\ DeskSound' /\ Exclusive'
<1> DEFINE b == r.on
           x == book[b]
           w == Written(x, r.update)
           new == [book EXCEPT ![b] = w]
<1>1. /\ r.kind = "write" /\ desk' = desk \ {r}
      /\ book' = IF x.status # "deleted" /\ Admitted(new) THEN Settled(new) ELSE book
  BY DEF WriteAppointment
<1>2. /\ b \in Bookings /\ x \in Doc /\ x.status # "absent" /\ x.version = 1
      /\ x.status \in Ongoing => Timed(x)
      /\ SetsStatus(r, x) \/ SetsTime(r, x)
  BY <1>1 DEF DeskSound, BookSound, Fits, Extends
<1>3. SUFFICES ASSUME Admitted(new), book' = Settled(new) PROVE BookSound' /\ DeskSound' /\ Exclusive'
  BY <1>1, LeavingKeepsBookInv
<1>4. /\ w.status \in Statuses \ {"absent"}
      /\ w.status \in Ongoing => w \in Doc /\ Timed(w) /\ x.status \in Ongoing
      /\ r.about # "status" => (x.status \in Ongoing => w.status \in Ongoing)
      /\ r.about # "time" => (w.status \in Ongoing => SameTime(x, w))
  <2>1. CASE SetsStatus(r, x)
    <3>1. r.about = "status" /\ r.update \in StatusUpdates
          /\ (r.update.status \in Ongoing => x.status \in Ongoing)
      BY <2>1 DEF SetsStatus
    <3>2. /\ w \in Doc /\ w.status = r.update.status /\ w.status # "absent"
          /\ w.status \in Ongoing => SameTime(w, x) /\ w.slots = x.slots
      BY <1>2, <3>1, StatusWritten
    <3> HIDE DEF w, x
    <3> QED
      BY <1>2, <3>1, <3>2 DEF Timed, SameTime, Doc
  <2>2. CASE SetsTime(r, x)
    <3>1. r.about = "time" /\ "status" \notin DOMAIN r.update
          /\ (x.status \in Ongoing => r.update \in TimeChanged(x))
      BY <2>2 DEF SetsTime
    <3>2. w.status = x.status
      BY <1>2, <3>1 DEF Written, Doc
    <3>3. x.status \in Ongoing => w \in Doc /\ Timed(w)
      BY <1>2, <3>1, TimeWritten
    <3> HIDE DEF w, x
    <3> QED
      BY <1>2, <3>1, <3>2, <3>3 DEF Doc
  <2> QED
    BY <1>2, <2>1, <2>2
<1> HIDE DEF w
<1>5. \A c \in Bookings : new[c] = IF c = b THEN w ELSE book[c]
  BY DEF BookSound
<1>6. \A c \in Bookings : book[c] \in Doc /\ (book[c].status \in Ongoing => Timed(book[c]))
  BY DEF BookSound
<1>7. b \in Touched(r)
  BY DEF Touched
<1> HIDE DEF new
<1>8. \A c \in Bookings : /\ new[c].status \in Statuses
                          /\ new[c].status \in Ongoing => new[c] \in Doc /\ Timed(new[c])
  BY <1>4, <1>5, <1>6 DEF Doc
<1>9. BookSound'
  BY <1>3, <1>8, SettledIsSound
<1>10. \A c \in Bookings :
           /\ book[c].status # "absent" => new[c].status # "absent"
           /\ r.about # "status" \/ c \notin Touched(r) =>
                (book[c].status \in Ongoing => new[c].status \in Ongoing)
           /\ r.about # "time" \/ c \notin Touched(r) =>
                (new[c].status \in Ongoing =>
                   book[c].status \in Ongoing /\ SameTime(book[c], new[c]))
  BY <1>4, <1>5, <1>7 DEF SameTime
<1>11. DeskSound' /\ Exclusive'
  BY <1>1, <1>3, <1>8, <1>10, OthersStillFit
<1> QED
  BY <1>9, <1>11

\* A commit that applies leaves what it neither extends nor moves, and it moves only
\* what has not been started.
LEMMA UntouchedDocument ==
  ASSUME NEW plan, CommitApplies(plan), NEW b \in Bookings, b # plan.on,
         b \notin Touched(plan) \/ book[b].status = "in_progress"
  PROVE  Committed(plan)[b] = book[b]
<1>1. ASSUME NEW i \in DOMAIN plan.moves PROVE plan.moves[i].on # b
  BY <1>1 DEF Touched, CommitApplies, MoveApplies
<1>2. {i \in DOMAIN plan.moves : plan.moves[i].on = b} = {}
  BY <1>1
<1> QED
  BY <1>2 DEF Committed

\* What a commit leaves of one document, when the versions match.
LEMMA CommittedDocument ==
  ASSUME BookSound, DeskSound, PlansSound, NEW plan \in desk, plan.kind = "commit",
         CommitApplies(plan), NEW b \in Bookings
  PROVE  /\ Committed(plan)[b] \in Doc
         /\ Committed(plan)[b].status = book[b].status
         /\ book[b].status \in Ongoing => Timed(Committed(plan)[b])
         /\ b \notin Touched(plan) => Committed(plan)[b] = book[b]
<1> DEFINE x == book[b]
           y == Committed(plan)[b]
           mine == {i \in DOMAIN plan.moves : plan.moves[i].on = b}
<1>1. /\ x \in Doc /\ x.version = 1 /\ (x.status \in Ongoing => Timed(x))
      /\ Extends(plan, book[plan.on])
  BY DEF BookSound, DeskSound, Fits, SetsStatus, SetsTime
<1>2. /\ x.from \in Nat /\ x.till \in Nat /\ x.length \in Nat /\ x.slots \in SUBSET Int
      /\ x.stylist \in Stylists \cup {NoStylist} /\ x.status \in Statuses
  BY <1>1 DEF Doc
<1> DEFINE At(from, till, n, t) ==
             [status |-> x.status, stylist |-> x.stylist, from |-> from, till |-> till,
              length |-> n, slots |-> t, version |-> x.version + 1]
<1>3. ASSUME NEW from \in Nat, NEW till \in Nat, NEW n \in Nat, NEW t \in SUBSET Int
      PROVE  /\ At(from, till, n, t) \in Doc /\ At(from, till, n, t).status = x.status
             /\ from < till /\ n > 0 /\ (x.stylist # NoStylist => t = Slots(from, till))
                  => Timed(At(from, till, n, t))
  <2> HIDE DEF x
  <2>1. x.version + 1 \in Nat
    BY <1>1
  <2> QED
    BY <1>2, <2>1 DEF Doc, Timed
<1>4. CASE b = plan.on
  <2>1. y = [x EXCEPT !.length = plan.length, !.till = plan.till,
                      !.slots = SlotsFor(plan.stylist, plan.from, plan.till),
                      !.version = x.version + 1]
    BY <1>4 DEF Committed
  <2>2. /\ plan.length \in Nat /\ plan.length > 0 /\ plan.from \in Nat /\ plan.till \in Nat
        /\ plan.from < plan.till
        /\ x.status \in Ongoing => plan.stylist = x.stylist /\ plan.from = x.from
    BY <1>1, <1>4 DEF Extends
  <2>3. /\ SlotsFor(plan.stylist, plan.from, plan.till) \in SUBSET Int
        /\ plan.stylist # NoStylist =>
             SlotsFor(plan.stylist, plan.from, plan.till) = Slots(plan.from, plan.till)
    BY <2>2, SlotsAreMinutes
  <2>4. y = At(x.from, plan.till, plan.length, SlotsFor(plan.stylist, plan.from, plan.till))
    BY <1>1, <2>1 DEF Doc
  <2>5. b \in Touched(plan)
    BY <1>4 DEF Touched
  <2> HIDE DEF y, x, At
  <2>6. /\ y \in Doc /\ y.status = x.status
        /\ /\ x.from < plan.till /\ plan.length > 0
           /\ x.stylist # NoStylist =>
                SlotsFor(plan.stylist, plan.from, plan.till) = Slots(x.from, plan.till)
           => Timed(y)
    BY <1>2, <1>3, <2>2, <2>3, <2>4
  <2>7. x.status \in Ongoing => Timed(y)
    BY <2>2, <2>3, <2>6
  <2> QED
    BY <2>5, <2>6, <2>7 DEF x, y
<1>5. CASE b # plan.on /\ mine = {}
  <2>1. y = x
    BY <1>5 DEF Committed
  <2> QED
    BY <1>1, <2>1
<1>6. CASE b # plan.on /\ mine # {}
  <2>1. PICK i \in DOMAIN plan.moves :
          plan.moves[i].on = b /\ y = Moved(x, plan.moves[i])
    BY <1>6 DEF Committed
  <2> DEFINE m == plan.moves[i]
             from == m.from
             till == m.from + m.length
  <2>2. m.from \in Nat /\ m.length \in Nat /\ m.length > 0
    BY <2>1 DEF PlansSound
  <2>3. x.status = "scheduled"
    BY <2>1 DEF CommitApplies, MoveApplies
  <2>4. b \in Touched(plan)
    BY <2>1 DEF Touched
  <2>5. y = At(from, till, x.length, Slots(from, till))
    BY <1>1, <2>1 DEF Moved, Doc
  <2>6. from \in Nat /\ till \in Nat /\ from < till
    BY <2>2
  <2> HIDE DEF from, till
  <2>7. Slots(from, till) \in SUBSET Int
    BY <2>6, SlotsAreMinutes
  <2>8. x.length > 0
    BY <1>1, <2>3 DEF Timed, Ongoing
  <2> HIDE DEF x, y, At
  <2>9. y \in Doc /\ y.status = x.status /\ Timed(y)
    BY <1>2, <1>3, <2>5, <2>6, <2>7, <2>8
  <2> QED
    BY <2>4, <2>9 DEF x, y
<1> QED
  BY <1>4, <1>5, <1>6

\* A commit changes all its documents, if none has changed, or nothing.
LEMMA CommitKeepsBookInv ==
  ASSUME ~Shared, BookSound, DeskSound, Exclusive, PlansSound, NEW plan \in desk,
         CommitServiceModification(plan)
  PROVE  BookSound' /\ DeskSound' /\ Exclusive'
<1> DEFINE new == Committed(plan)
<1>1. /\ plan.kind = "commit" /\ desk' = desk \ {plan}
      /\ book' = IF CommitApplies(plan) /\ Admitted(new) THEN Settled(new) ELSE book
  BY DEF CommitServiceModification
<1>2. SUFFICES ASSUME CommitApplies(plan), Admitted(new), book' = Settled(new)
               PROVE  BookSound' /\ DeskSound' /\ Exclusive'
  BY <1>1, LeavingKeepsBookInv
<1>3. plan.about = "time"
  BY <1>1 DEF DeskSound, Fits, SetsStatus, SetsTime, Extends
<1>4. \A b \in Bookings :
        /\ new[b] \in Doc /\ new[b].status = book[b].status
        /\ book[b].status \in Ongoing => Timed(new[b])
        /\ b \notin Touched(plan) => new[b] = book[b]
  BY <1>1, <1>2, CommittedDocument
<1> HIDE DEF new
<1>5. \A b \in Bookings : /\ new[b].status \in Statuses
                          /\ new[b].status \in Ongoing => new[b] \in Doc /\ Timed(new[b])
  BY <1>4 DEF Doc
<1>6. BookSound'
  BY <1>2, <1>5, SettledIsSound
<1>7. \A b \in Bookings :
        /\ book[b].status # "absent" => new[b].status # "absent"
        /\ plan.about # "status" \/ b \notin Touched(plan) =>
             (book[b].status \in Ongoing => new[b].status \in Ongoing)
        /\ plan.about # "time" \/ b \notin Touched(plan) =>
             (new[b].status \in Ongoing =>
                book[b].status \in Ongoing /\ SameTime(book[b], new[b]))
  BY <1>3, <1>4 DEF SameTime
<1>8. DeskSound' /\ Exclusive'
  BY <1>1, <1>2, <1>5, <1>7, OthersStillFit
<1> QED
  BY <1>6, <1>8

\* Every step keeps the invariant.
LEMMA StepKeepsBookInv ==
  ASSUME BookInv, PlansSound, [BookNext]_bookVars
  PROVE  BookInv'
<1> SUFFICES ASSUME ~Shared PROVE BookSound' /\ DeskSound' /\ Exclusive'
  BY DEF BookInv
<1>1. BookSound /\ DeskSound /\ Exclusive
  BY DEF BookInv
<1>2. CASE UNCHANGED bookVars
  <2>1. book' = book /\ desk' = desk
    BY <1>2 DEF bookVars
  <2> QED
    BY <1>1, <2>1 DEF BookSound, DeskSound, Exclusive, Touched
<1>3. ASSUME NEW b \in Bookings, NEW s \in Stylists \cup {NoStylist},
             NEW from \in 0..(DayEnd - 1), NEW n \in Lengths, CreateAppointment(b, s, from, n)
      PROVE  BookSound' /\ DeskSound' /\ Exclusive'
  BY <1>1, <1>3, CreateKeepsBookInv
<1>4. ASSUME NEW b \in Bookings, NEW u \in Updates(book[b]), ReadAppointment(b, u)
      PROVE  BookSound' /\ DeskSound' /\ Exclusive'
  BY <1>1, <1>4, ReadKeepsBookInv
<1>5. ASSUME NEW b \in Bookings, NEW n \in Lengths, NEW till \in 1..DayEnd,
             PreviewServiceModification(b, n, till)
      PROVE  BookSound' /\ DeskSound' /\ Exclusive'
  BY <1>1, <1>5, PreviewKeepsBookInv
<1>6. ASSUME NEW r \in desk, WriteAppointment(r) PROVE BookSound' /\ DeskSound' /\ Exclusive'
  BY <1>1, <1>6, WriteKeepsBookInv
<1>7. ASSUME NEW r \in desk, CommitServiceModification(r)
      PROVE  BookSound' /\ DeskSound' /\ Exclusive'
  BY <1>1, <1>7, CommitKeepsBookInv
<1> QED
  BY <1>2, <1>3, <1>4, <1>5, <1>6, <1>7 DEF BookNext

-----------------------------------------------------------------------------
(* The shapes of documents and plans, in either mode *)

\* The chain of a preview is a fold, and so a run of single steps.
Chain == INSTANCE FoldSteps WITH Op <- ChainAt

\* The constants once more.
LEMMA ConstantsOfShapes ==
  /\ DayEnd \in Nat \ {0} /\ MaxBookVersion \in Nat \ {0} /\ Lengths \subseteq Nat \ {0}
  /\ IsFiniteSet(Bookings)
  BY SchedulingAssumption

\* An appointment that is met takes its time in the chain, or ends it.
LEMMA ChainStep ==
  ASSUME NEW c \in Chains, NEW b \in Bookings, book[b] \in Shape, book[b].length > 0
  PROVE  ChainAt(c, b) \in Chains
<1> DEFINE x == book[b]
           move == [on |-> b, from |-> c.end, length |-> x.length, version |-> x.version]
<1>1. /\ c.end \in Nat /\ c.moves \in Seq(Shifts) /\ x.length \in Nat /\ x.length > 0
      /\ x.version \in 1..MaxBookVersion
  BY DEF Chains, Shape
<1>2. CASE ChainAt(c, b) = c
  BY <1>2
<1>3. CASE ChainAt(c, b) = [c EXCEPT !.stopped = TRUE]
  BY <1>3 DEF Chains
<1>4. CASE /\ c.end + x.length <= DayEnd
           /\ ChainAt(c, b) = [c EXCEPT !.end = @ + x.length, !.moves = Append(@, move)]
  <2>1. c.end + x.length \in Nat /\ c.end \in 0..(DayEnd - 1)
    BY <1>1, <1>4, ConstantsOfShapes
  <2>2. move \in Shifts
    BY <1>1, <2>1 DEF Shifts
  <2> HIDE DEF move
  <2>3. Append(c.moves, move) \in Seq(Shifts)
    BY <1>1, <2>2
  <2> QED
    BY <1>4, <2>1, <2>3 DEF Chains
<1> HIDE DEF move
<1>5. \/ ChainAt(c, b) = c
      \/ ChainAt(c, b) = [c EXCEPT !.stopped = TRUE]
      \/ /\ ~(c.end + x.length > DayEnd)
         /\ ChainAt(c, b) = [c EXCEPT !.end = @ + x.length, !.moves = Append(@, move)]
  BY DEF ChainAt, move
<1>6. c.end + x.length > DayEnd \/ c.end + x.length <= DayEnd
  BY <1>1, ConstantsOfShapes
<1> QED
  BY <1>2, <1>3, <1>4, <1>5, <1>6

\* Whatever it meets in whatever order, a preview plans whole minutes of the day.
LEMMA ChainIsPlan ==
  ASSUME book \in [Bookings -> Shape],
         \A b \in Bookings : book[b].status \in Ongoing => book[b].length > 0,
         NEW a \in Bookings, NEW met \in Subsequent(a), NEW start \in Chains
  PROVE  FoldLeft(ChainAt, start, met) \in Chains
<1> DEFINE others == {b \in Bookings \ {a} : book[b].status \in Ongoing
                                              /\ book[b].stylist = book[a].stylist}
           n == Cardinality(others)
<1>1. IsFiniteSet(others) /\ n \in Nat
  BY ConstantsOfShapes, FS_Subset, FS_CardinalityType
<1>2. met \in [1..n -> others]
  BY DEF Subsequent, SetToSeqs
<1> HIDE DEF n
<1>3. FoldLeft(ChainAt, start, met) = Chain!Folded(start, met, 1..n)
  <2>1. FoldLeft(ChainAt, start, met) = (CHOOSE g : g = [T \in SUBSET (DOMAIN met) |->
          IF T = {} THEN start ELSE ChainAt(g[T \ {Max(T)}], met[Max(T)])])[DOMAIN met]
    BY DEF FoldLeft, MapThenFoldSet
  <2>2. DOMAIN met = 1..n
    BY <1>2
  <2> QED
    BY <2>1, <2>2, Zenon DEF Chain!Folded, Chain!IsFoldOn, Chain!FoldStep, Chain!Greatest, Max
<1>4. PICK v : /\ v[0] = start
               /\ \A k \in 1..n : v[k] = ChainAt(v[k - 1], met[k])
               /\ Chain!Folded(start, met, 1..n) = v[n]
  BY <1>1, Chain!FoldIsRun DEF Chain!IsRun
<1> DEFINE T == {k \in Nat : k <= n => v[k] \in Chains}
<1>5. 0 \in T
  BY <1>4
<1>6. ASSUME NEW k \in Nat, k \in T PROVE k + 1 \in T
  <2> SUFFICES ASSUME k + 1 <= n PROVE v[k + 1] \in Chains
    OBVIOUS
  <2>1. k + 1 \in 1..n /\ (k + 1) - 1 = k /\ k <= n
    BY <1>1
  <2>2. v[k] \in Chains /\ v[k + 1] = ChainAt(v[k], met[k + 1])
    BY <1>4, <1>6, <2>1
  <2>3. met[k + 1] \in others
    BY <1>2, <2>1
  <2>4. /\ met[k + 1] \in Bookings /\ book[met[k + 1]] \in Shape
        /\ book[met[k + 1]].length > 0
    BY <2>3
  <2> QED
    BY <2>2, <2>4, ChainStep
<1>7. Nat \subseteq T
  <2> HIDE DEF T
  <2> QED
    BY <1>5, <1>6, Chain!Induction
<1>8. v[n] \in Chains
  BY <1>1, <1>7
<1> QED
  BY <1>3, <1>4, <1>8

\* The updates computed from a document that takes some time are well formed.
LEMMA UpdatesAreFields ==
  ASSUME NEW x \in Shape, x.status \in Ongoing => x.length > 0, NEW u \in Updates(x)
  PROVE  Fields(u) /\ x.status # "absent"
<1>1. /\ x.stylist \in Stylists \cup {NoStylist} /\ x.from \in 0..(DayEnd - 1)
      /\ x.till \in Nat /\ x.length \in Nat
  BY DEF Shape
<1>2. ASSUME NEW s, NEW from \in Nat, NEW till \in Nat
      PROVE  Slots(from, till) \in SUBSET Nat /\ SlotsFor(s, from, till) \in SUBSET Nat
  BY DEF Slots, SlotsFor
<1>3. \A n \in Lengths : n \in Nat /\ n > 0 /\ x.from + n \in Nat
  BY <1>1, ConstantsOfShapes
<1>a. \/ /\ x.status \in Ongoing
         /\ u \in TimeChanged(x) \cup StatusChanged(x) \cup {[status |-> "deleted"]}
      \/ x.status = "closed" /\ u = [status |-> "deleted"]
  BY DEF Updates, Ongoing
<1> SUFFICES Fields(u)
  BY <1>a DEF Ongoing
\* the kinds of updates
<1> DEFINE Staffs == Stylists \cup {NoStylist}
           Minutes == 0..(DayEnd - 1)
<1>4. ASSUME NEW from \in Minutes, NEW till \in Nat, NEW t \in SUBSET Nat,
             u = [from |-> from, till |-> till, slots |-> t]
      PROVE  Fields(u)
  BY <1>4 DEF Fields
<1>5. ASSUME NEW s \in Staffs, NEW from \in Minutes, NEW till \in Nat, NEW t \in SUBSET Nat,
             u = [stylist |-> s, from |-> from, till |-> till, slots |-> t]
      PROVE  Fields(u)
  BY <1>5 DEF Fields
<1>6. ASSUME NEW n \in Nat, n > 0, NEW till \in Nat, u = [length |-> n, till |-> till]
      PROVE  Fields(u)
  BY <1>6 DEF Fields
<1>7. ASSUME NEW n \in Nat, n > 0, NEW till \in Nat, NEW t \in SUBSET Nat,
             u = [length |-> n, till |-> till, slots |-> t]
      PROVE  Fields(u)
  BY <1>7 DEF Fields
<1>8. ASSUME NEW n \in Nat, n > 0, NEW till \in Nat, NEW s \in Staffs, NEW t \in SUBSET Nat,
             u = [length |-> n, till |-> till, stylist |-> s, slots |-> t]
      PROVE  Fields(u)
  BY <1>8 DEF Fields
<1>9. ASSUME NEW s \in Staffs, NEW t \in SUBSET Nat, u = [stylist |-> s, slots |-> t]
      PROVE  Fields(u)
  BY <1>9 DEF Fields
<1>10. ASSUME NEW s \in Statuses \ {"absent"},
              u = [status |-> s] \/ u = [status |-> s, slots |-> {}]
       PROVE  Fields(u)
  <2>1. CASE u = [status |-> s]
    BY <2>1 DEF Fields
  <2>2. CASE u = [status |-> s, slots |-> {}]
    BY <2>2 DEF Fields
  <2> QED
    BY <1>10, <2>1, <2>2
<1>11. CASE x.status \in Ongoing /\ u \in Rescheduled(x)
  <2>1. PICK t \in 0..(DayEnd - x.length) :
          u = [from |-> t, till |-> t + x.length, slots |-> SlotsFor(x.stylist, t, t + x.length)]
    BY <1>11 DEF Rescheduled
  <2>2. t \in Minutes /\ t \in Nat /\ t + x.length \in Nat
    BY <1>1, <1>11, ConstantsOfShapes
  <2> QED
    BY <1>2, <1>4, <2>1, <2>2
<1>12. CASE u \in Assigned(x)
  <2>1. CASE \E s \in Staffs : u = [stylist |-> s, from |-> x.from, till |-> x.till,
                                    slots |-> SlotsFor(s, x.from, x.till)]
    <3>1. x.from \in Minutes /\ x.from \in Nat
      BY <1>1
    <3>2. PICK s \in Staffs, t \in SUBSET Nat :
            u = [stylist |-> s, from |-> x.from, till |-> x.till, slots |-> t]
      BY <1>1, <1>2, <2>1, <3>1
    <3> QED
      BY <1>1, <1>5, <3>1, <3>2
  <2>2. CASE \E s \in Staffs, t \in (x.from + 1)..(DayEnd - 1) :
               u = [stylist |-> s, from |-> t, till |-> t + x.length,
                    slots |-> SlotsFor(s, t, t + x.length)]
    <3>1. PICK s \in Staffs, t \in (x.from + 1)..(DayEnd - 1) :
               u = [stylist |-> s, from |-> t, till |-> t + x.length,
                    slots |-> SlotsFor(s, t, t + x.length)]
      BY <2>2
    <3>2. t \in Minutes /\ t \in Nat /\ t + x.length \in Nat
      BY <1>1, ConstantsOfShapes
    <3> QED
      BY <1>2, <1>5, <3>1, <3>2
  <2> QED
    BY <1>12, <2>1, <2>2 DEF Assigned
<1>13. CASE u \in ServicesChanged(x)
  <2>1. PICK n \in Lengths :
          \/ u = [length |-> n, till |-> x.from + n]
          \/ u = [length |-> n, till |-> x.from + n, slots |-> Slots(x.from, x.from + n)]
          \/ \E s \in Staffs : u = [length |-> n, till |-> x.from + n, stylist |-> s,
                                    slots |-> SlotsFor(s, x.from, x.from + n)]
    BY <1>13 DEF ServicesChanged
  <2>2. x.from \in Nat /\ n \in Nat /\ n > 0 /\ x.from + n \in Nat
    BY <1>1, <1>3
  <2> QED
    BY <1>2, <1>6, <1>7, <1>8, <2>1, <2>2
<1>14. CASE u \in StylistChanged(x)
  BY <1>1, <1>2, <1>9, <1>14 DEF StylistChanged
<1>15. CASE u \in StatusChanged(x) \cup {[status |-> "deleted"]}
  BY <1>10, <1>15 DEF StatusChanged, Ongoing, Statuses
<1> HIDE DEF Staffs, Minutes
<1> QED
  BY <1>11, <1>12, <1>13, <1>14, <1>15, <1>a DEF TimeChanged

\* Documents of the right shape keep it once settled.
LEMMA SettledShapes ==
  ASSUME NEW new \in [Bookings -> Shape], book' = Settled(new),
         Shared => \A b \in Bookings : new[b].status # "absent" => new[b].length > 0
  PROVE  BookShapes' /\ \A b \in Bookings : book'[b].status = new[b].status
<1>1. CASE Shared
  BY <1>1 DEF Settled, BookShapes
<1>2. CASE ~Shared
  <2>1. ASSUME NEW b \in Bookings
        PROVE  /\ [new[b] EXCEPT !.version = 1] \in Shape
               /\ [Unbooked EXCEPT !.status = new[b].status] \in Shape
               /\ [new[b] EXCEPT !.version = 1].status = new[b].status
               /\ [Unbooked EXCEPT !.status = new[b].status].status = new[b].status
    BY ConstantsOfShapes DEF Shape, Unbooked
  <2> QED
    BY <1>2, <2>1 DEF Settled, BookShapes
<1> QED
  BY <1>1, <1>2

\* A request that leaves the desk, whatever it wrote.
LEMMA LeavingKeepsShapes ==
  ASSUME DeskShapes, NEW r, desk' = desk \ {r},
         \A b \in Bookings : book'[b].status = "absent" => book[b].status = "absent"
  PROVE  DeskShapes'
<1>1. \A q \in desk' : Shaped(q) /\ q.on \in Bookings /\ book'[q.on].status # "absent"
  BY DEF DeskShapes, Shaped
<1> QED
  BY <1>1 DEF DeskShapes

\* A request of the right shape begins.
LEMMA BeginKeepsShapes ==
  ASSUME BookShapes, DeskShapes, NEW request, Begin(request), Shaped(request),
         book[request.on].status # "absent"
  PROVE  BookShapes' /\ DeskShapes'
<1>1. book' = book /\ desk' = desk \cup {request}
  BY DEF Begin
<1>2. BookShapes'
  BY <1>1 DEF BookShapes
<1>3. \A q \in desk' : Shaped(q) /\ book'[q.on].status # "absent"
  BY <1>1 DEF DeskShapes
<1> QED
  BY <1>2, <1>3 DEF DeskShapes

\* What an update leaves of a document.
LEMMA WrittenShape ==
  ASSUME NEW x \in Shape, x.status # "absent", NEW u, Fields(u)
  PROVE  /\ Written(x, u) \in Shape /\ Written(x, u).status # "absent"
         /\ x.length > 0 => Written(x, u).length > 0
<1> DEFINE Of(k, old) == IF k \in DOMAIN u THEN u[k] ELSE old
<1>1. Written(x, u) = [status |-> Of("status", x.status), stylist |-> Of("stylist", x.stylist),
                       from |-> Of("from", x.from), till |-> Of("till", x.till),
                       length |-> Of("length", x.length), slots |-> Of("slots", x.slots),
                       version |-> x.version]
  BY DEF Written, Shape, Fields
<1>2. /\ x.status \in Statuses /\ x.stylist \in Stylists \cup {NoStylist}
      /\ x.from \in 0..(DayEnd - 1) /\ x.till \in Nat /\ x.length \in Nat
      /\ x.slots \in SUBSET Nat /\ x.version \in 1..MaxBookVersion
  BY DEF Shape
<1>3. /\ Of("status", x.status) \in Statuses \ {"absent"}
      /\ Of("stylist", x.stylist) \in Stylists \cup {NoStylist}
      /\ Of("from", x.from) \in 0..(DayEnd - 1) /\ Of("till", x.till) \in Nat
      /\ Of("length", x.length) \in Nat /\ (x.length > 0 => Of("length", x.length) > 0)
      /\ Of("slots", x.slots) \in SUBSET Nat
  BY <1>2 DEF Fields
<1> HIDE DEF Of
<1> QED
  BY <1>1, <1>2, <1>3 DEF Shape

\* What a commit leaves of a document, if its version stays within the bound.
LEMMA CommittedShape ==
  ASSUME BookShapes, NEW plan, Shaped(plan), plan.kind = "commit", NEW b \in Bookings,
         Committed(plan)[b].version <= MaxBookVersion
  PROVE  /\ Committed(plan)[b] \in Shape /\ Committed(plan)[b].status = book[b].status
         /\ book[b].length > 0 => Committed(plan)[b].length > 0
<1> DEFINE x == book[b]
           y == Committed(plan)[b]
           mine == {i \in DOMAIN plan.moves : plan.moves[i].on = b}
<1>1. /\ x \in Shape /\ x.status \in Statuses /\ x.stylist \in Stylists \cup {NoStylist}
      /\ x.from \in 0..(DayEnd - 1) /\ x.till \in Nat /\ x.length \in Nat
      /\ x.slots \in SUBSET Nat /\ x.version \in 1..MaxBookVersion
  BY DEF BookShapes, Shape
<1>2. CASE b = plan.on
  <2>1. y = [x EXCEPT !.length = plan.length, !.till = plan.till,
                      !.slots = SlotsFor(plan.stylist, plan.from, plan.till),
                      !.version = x.version + 1]
    BY <1>2 DEF Committed
  <2>2. /\ plan.length \in Nat /\ plan.length > 0 /\ plan.till \in Nat /\ plan.from \in Nat
    BY DEF Shaped
  <2>3. SlotsFor(plan.stylist, plan.from, plan.till) \in SUBSET Nat
    BY <2>2 DEF SlotsFor, Slots
  <2>4. y = [status |-> x.status, stylist |-> x.stylist, from |-> x.from, till |-> plan.till,
             length |-> plan.length, slots |-> SlotsFor(plan.stylist, plan.from, plan.till),
             version |-> x.version + 1]
    BY <1>1, <2>1 DEF Shape
  <2>5. x.version + 1 \in 1..MaxBookVersion
    BY <1>1, <2>4, ConstantsOfShapes
  <2> HIDE DEF x, y
  <2>6. y \in Shape /\ y.status = x.status /\ y.length > 0
    BY <1>1, <2>2, <2>3, <2>4, <2>5 DEF Shape
  <2> QED
    BY <2>6 DEF x, y
<1>3. CASE b # plan.on /\ mine = {}
  <2>1. y = x
    BY <1>3 DEF Committed
  <2> QED
    BY <1>1, <2>1
<1>4. CASE b # plan.on /\ mine # {}
  <2>1. PICK i \in DOMAIN plan.moves : y = Moved(x, plan.moves[i])
    BY <1>4 DEF Committed
  <2>2. PICK m \in Shifts : y = Moved(x, m)
    BY <2>1 DEF Shaped
  <2>3. /\ m.from \in 0..(DayEnd - 1) /\ m.length \in Nat /\ m.from \in Nat
        /\ m.from + m.length \in Nat
    BY DEF Shifts
  <2>4. Slots(m.from, m.from + m.length) \in SUBSET Nat
    BY <2>3 DEF Slots
  <2>5. y = [status |-> x.status, stylist |-> x.stylist, from |-> m.from,
             till |-> m.from + m.length, length |-> x.length,
             slots |-> Slots(m.from, m.from + m.length), version |-> x.version + 1]
    BY <1>1, <2>2 DEF Moved, Shape
  <2>6. x.version + 1 \in 1..MaxBookVersion
    BY <1>1, <2>5, ConstantsOfShapes
  <2> HIDE DEF x, y
  <2>7. y \in Shape /\ y.status = x.status /\ y.length = x.length
    BY <1>1, <2>3, <2>4, <2>5, <2>6 DEF Shape
  <2> QED
    BY <2>7 DEF x, y
<1> QED
  BY <1>2, <1>3, <1>4


\* Whatever goes on takes some time.
LEMMA OngoingTakesTime ==
  ASSUME BookInv, BookShapes, NEW b \in Bookings, book[b].status \in Ongoing
  PROVE  book[b].length > 0
<1>1. CASE Shared
  BY <1>1 DEF BookShapes, Ongoing
<1>2. CASE ~Shared
  BY <1>2 DEF BookInv, BookSound, Timed
<1> QED
  BY <1>1, <1>2

\* The shapes hold before anything is booked.
LEMMA InitShapes == BookInit => BookShapes /\ DeskShapes
<1>1. Unbooked \in Shape /\ Unbooked.status = "absent"
  BY ConstantsOfShapes DEF Unbooked, Shape, Statuses
<1> QED
  BY <1>1 DEF BookInit, BookShapes, DeskShapes

\* Every step keeps the shapes.
LEMMA StepKeepsShapes ==
  ASSUME BookInv, BookShapes, DeskShapes, [BookNext]_bookVars
  PROVE  BookShapes' /\ DeskShapes'
<1>1. book \in [Bookings -> Shape]
  BY DEF BookShapes
<1>2. CASE UNCHANGED bookVars
  BY <1>2 DEF bookVars, BookShapes, DeskShapes
<1>3. ASSUME NEW b \in Bookings, NEW s \in Stylists \cup {NoStylist},
             NEW from \in 0..(DayEnd - 1), NEW n \in Lengths, CreateAppointment(b, s, from, n)
      PROVE  BookShapes' /\ DeskShapes'
  <2> DEFINE made == [status |-> "scheduled", stylist |-> s, from |-> from, till |-> from + n,
                      length |-> n, slots |-> SlotsFor(s, from, from + n), version |-> 1]
  <2>1. book' = [book EXCEPT ![b] = made] /\ desk' = desk
    BY <1>3 DEF CreateAppointment
  <2>2. from \in Nat /\ n \in Nat /\ n > 0 /\ from + n \in Nat
    BY ConstantsOfShapes
  <2>3. SlotsFor(s, from, from + n) \in SUBSET Nat
    BY <2>2 DEF SlotsFor, Slots
  <2>4. made \in Shape /\ made.status # "absent" /\ made.length > 0
    BY <2>2, <2>3, ConstantsOfShapes DEF Shape, Statuses, Ongoing
  <2> HIDE DEF made
  <2>5. \A c \in Bookings : book'[c] = IF c = b THEN made ELSE book[c]
    BY <1>1, <2>1
  <2>6. BookShapes'
    BY <1>1, <2>1, <2>4, <2>5 DEF BookShapes
  <2>7. \A q \in desk : Shaped(q) /\ q.on \in Bookings /\ book'[q.on].status # "absent"
    BY <2>4, <2>5 DEF DeskShapes, Shaped
  <2> QED
    BY <2>1, <2>6, <2>7 DEF DeskShapes
<1>4. ASSUME NEW b \in Bookings, NEW u \in Updates(book[b]), ReadAppointment(b, u)
      PROVE  BookShapes' /\ DeskShapes'
  <2>1. Fields(u) /\ book[b].status # "absent"
    BY <1>1, OngoingTakesTime, UpdatesAreFields
  <2> DEFINE request == [kind |-> "write", on |-> b, moves |-> <<>>, update |-> u,
                         about |-> IF "status" \in DOMAIN u THEN "status" ELSE "time"]
  <2>2. Begin(request)
    BY <1>4 DEF ReadAppointment
  <2>3. request.on = b /\ Shaped(request)
    BY <2>1 DEF Shaped
  <2> HIDE DEF request
  <2> QED
    BY <2>1, <2>2, <2>3, BeginKeepsShapes
<1>5. ASSUME NEW b \in Bookings, NEW n \in Lengths, NEW till \in 1..DayEnd,
             PreviewServiceModification(b, n, till)
      PROVE  BookShapes' /\ DeskShapes'
  <2>1. PICK met \in Subsequent(b) : Begin(Preview(b, n, till, met))
    BY <1>5 DEF PreviewServiceModification
  <2> DEFINE plan == Preview(b, n, till, met)
             start == [end |-> till, stopped |-> FALSE, moves |-> <<>>]
  <2>2. start \in Chains
    BY DEF Chains
  <2>3. FoldLeft(ChainAt, start, met) \in Chains
    <3> HIDE DEF start
    <3> QED
      BY <1>1, <2>2, OngoingTakesTime, ChainIsPlan
  <2>4. /\ plan.kind = "commit" /\ plan.on = b /\ plan.from = book[b].from
        /\ plan.till = till /\ plan.length = n
        /\ plan.moves = <<>> \/ plan.moves = FoldLeft(ChainAt, start, met).moves
    BY DEF Preview
  <2>5. plan.moves \in Seq(Shifts)
    <3> HIDE DEF plan, start
    <3>1. PICK chain \in Chains : plan.moves = <<>> \/ plan.moves = chain.moves
      BY <2>3, <2>4, Zenon
    <3>2. chain.moves \in Seq(Shifts) /\ <<>> \in Seq(Shifts)
      BY DEF Chains
    <3> QED
      BY <3>1, <3>2
  <2>6. book[b].from \in 0..(DayEnd - 1) /\ till \in Nat /\ n \in Nat /\ n > 0
    BY <1>1, ConstantsOfShapes DEF Shape
  <2>7. book[b].status # "absent"
    BY <1>5 DEF PreviewServiceModification, Ongoing
  <2> HIDE DEF plan
  <2>8. Shaped(plan)
    BY <2>4, <2>5, <2>6 DEF Shaped
  <2> QED
    BY <2>1, <2>4, <2>7, <2>8, BeginKeepsShapes DEF plan
<1>6. ASSUME NEW r \in desk, WriteAppointment(r) PROVE BookShapes' /\ DeskShapes'
  <2> DEFINE w == Written(book[r.on], r.update)
             new == [book EXCEPT ![r.on] = w]
  <2>1. /\ r.kind = "write" /\ desk' = desk \ {r}
        /\ book' = book \/ book' = Settled(new)
    BY <1>6 DEF WriteAppointment
  <2>2. r.on \in Bookings /\ book[r.on].status # "absent" /\ Fields(r.update)
    BY <2>1 DEF DeskShapes, Shaped
  <2>3. w \in Shape /\ w.status # "absent" /\ (book[r.on].length > 0 => w.length > 0)
    BY <1>1, <2>2, WrittenShape
  <2> HIDE DEF w
  <2>4. \A c \in Bookings : new[c] = IF c = r.on THEN w ELSE book[c]
    BY <1>1
  <2>5. new \in [Bookings -> Shape]
    BY <1>1, <2>3
  <2> HIDE DEF new
  <2>6. /\ \A b \in Bookings : new[b].status = "absent" => book[b].status = "absent"
        /\ Shared => \A b \in Bookings : new[b].status # "absent" => new[b].length > 0
    BY <2>2, <2>3, <2>4 DEF BookShapes
  <2>7. BookShapes' /\ \A b \in Bookings : book'[b].status = "absent" => book[b].status = "absent"
    <3>1. CASE book' = book
      BY <3>1 DEF BookShapes
    <3>2. CASE book' = Settled(new)
      BY <2>5, <2>6, <3>2, SettledShapes
    <3> QED
      BY <2>1, <3>1, <3>2
  <2> QED
    BY <2>1, <2>7, LeavingKeepsShapes
<1>7. ASSUME NEW r \in desk, CommitServiceModification(r) PROVE BookShapes' /\ DeskShapes'
  <2> DEFINE new == Committed(r)
  <2>1. /\ r.kind = "commit" /\ desk' = desk \ {r}
        /\ book' = book \/ book' = Settled(new)
        /\ \A b \in Bookings : new[b].version <= MaxBookVersion
    BY <1>7 DEF CommitServiceModification
  <2>2. Shaped(r)
    BY DEF DeskShapes
  <2>3. \A b \in Bookings :
          /\ new[b] \in Shape /\ new[b].status = book[b].status
          /\ book[b].length > 0 => new[b].length > 0
    BY <2>1, <2>2, CommittedShape
  <2>4. new = [b \in Bookings |-> new[b]]
    BY DEF Committed
  <2> HIDE DEF new
  <2>5. new \in [Bookings -> Shape]
    BY <2>3, <2>4
  <2>6. Shared => \A b \in Bookings : new[b].status # "absent" => new[b].length > 0
    BY <2>3 DEF BookShapes
  <2>7. BookShapes' /\ \A b \in Bookings : book'[b].status = "absent" => book[b].status = "absent"
    <3>1. CASE book' = book
      BY <3>1 DEF BookShapes
    <3>2. CASE book' = Settled(new)
      BY <2>3, <2>5, <2>6, <3>2, SettledShapes
    <3> QED
      BY <2>1, <3>1, <3>2
  <2> QED
    BY <2>1, <2>7, LeavingKeepsShapes
<1> QED
  BY <1>2, <1>3, <1>4, <1>5, <1>6, <1>7 DEF BookNext

\* Plans of the right shape are sound.
LEMMA ShapedPlans == DeskShapes => PlansSound
<1> SUFFICES ASSUME DeskShapes, NEW plan \in desk, NEW i \in DOMAIN plan.moves
             PROVE  plan.moves[i].from \in Nat /\ plan.moves[i].length \in Nat \ {0}
  BY DEF PlansSound
<1>1. plan.moves[i] \in Shifts
  BY DEF DeskShapes, Shaped
<1>2. \A m \in Shifts : m.from \in Nat /\ m.length \in Nat \ {0}
  BY DEF Shifts
<1> QED
  BY <1>1, <1>2

\* All of it together.
AppointmentsInv == BookInv /\ BookShapes /\ DeskShapes

\* It always holds.
LEMMA AppointmentsInvariant == BookSpec => []AppointmentsInv
<1>1. BookInit => AppointmentsInv
  BY InitBookInv, InitShapes DEF AppointmentsInv
<1>2. AppointmentsInv /\ [BookNext]_bookVars => AppointmentsInv'
  <2> SUFFICES ASSUME AppointmentsInv, [BookNext]_bookVars PROVE AppointmentsInv'
    OBVIOUS
  <2>1. BookInv /\ BookShapes /\ DeskShapes /\ PlansSound
    BY ShapedPlans DEF AppointmentsInv
  <2>2. BookInv'
    BY <2>1, StepKeepsBookInv
  <2>3. BookShapes' /\ DeskShapes'
    BY <2>1, StepKeepsShapes
  <2> QED
    BY <2>2, <2>3 DEF AppointmentsInv
<1> QED
  BY <1>1, <1>2, PTL DEF BookSpec

-----------------------------------------------------------------------------
\* Documents and plans stay within the day: whatever requests race, previews plan
\* whole minutes of one day, and every appointment starts on it.
THEOREM DayIsKept == BookSpec => []BookTypeOK
<1>1. AppointmentsInv => BookTypeOK
  <2> SUFFICES ASSUME AppointmentsInv PROVE BookTypeOK
    OBVIOUS
  <2>1. PlansSound /\ \A b \in Bookings : book[b] \in Shape
    BY ShapedPlans DEF AppointmentsInv, BookShapes
  <2> QED
    BY <2>1 DEF BookTypeOK, Shape, Statuses
<1> QED
  BY <1>1, AppointmentsInvariant, PTL

\* Nobody is booked twice for one minute: for any number of requests, appointments
\* and staff, and any choice of services.
THEOREM NobodyIsBookedTwice == BookSpec => []NoDoubleBooking
<1>1. AppointmentsInv => NoDoubleBooking
  BY SlotsKeepApart DEF AppointmentsInv, BookInv, NoDoubleBooking
<1> QED
  BY <1>1, AppointmentsInvariant, PTL

\* Whether or not requests race freely: a commit leaves an appointment in progress
\* as it is, whatever happened since its preview.
THEOREM StartedAreLeft == BookSpec => StartedStaysPut
<1> DEFINE Left == \A plan \in desk : CommitServiceModification(plan) =>
                     \A b \in Bookings : b # plan.on /\ book[b].status = "in_progress" =>
                       book'[b] = book[b]
<1>1. AppointmentsInv /\ [BookNext]_bookVars => [Left]_bookVars
  <2> SUFFICES ASSUME BookInv, NEW plan \in desk, CommitServiceModification(plan),
                      NEW b \in Bookings, b # plan.on, book[b].status = "in_progress"
               PROVE  book'[b] = book[b]
    BY DEF AppointmentsInv
  <2>1. CASE book' = book
    BY <2>1
  <2>2. CASE CommitApplies(plan) /\ book' = Settled(Committed(plan))
    <3>1. Committed(plan)[b] = book[b]
      BY <2>2, UntouchedDocument
    <3>2. CASE Shared
      BY <2>2, <3>1, <3>2 DEF Settled
    <3>3. CASE ~Shared
      <4>1. book'[b] = [book[b] EXCEPT !.version = 1]
        BY <2>2, <3>1, <3>3 DEF Settled, Ongoing
      <4>2. book[b] \in Doc /\ book[b].version = 1
        BY <3>3 DEF BookInv, BookSound
      <4> QED
        BY <4>1, <4>2 DEF Doc
    <3> QED
      BY <3>2, <3>3
  <2> QED
    BY <2>1, <2>2 DEF CommitServiceModification
<1> HIDE DEF Left
<1>2. BookSpec => [][Left]_bookVars
  BY <1>1, AppointmentsInvariant, PTL DEF BookSpec
<1> QED
  BY <1>2 DEF StartedStaysPut, Left

-----------------------------------------------------------------------------
(***************************************************************************)
(* Proofs about Reminders, for any channels, offset and number of          *)
(* attempts.                                                               *)
(*                                                                         *)
(* The inductive invariant says of each channel what its job, its status,  *)
(* its worker and its messages say of each other.  The status alone does   *)
(* not protect the customer: a failed reminder may be claimed again.  What *)
(* does is that a reminder that was delivered is left "processing" or      *)
(* "sent" until its job is over, unless a request writes the status.       *)
(***************************************************************************)


ReminderStatuses == {"pending", "scheduled", "processing", "sent", "failed", "cancelled"}
Phases == {"none", "waiting", "running", "failed"}
Job == [phase : Phases, due : Nat, tries : 0..Attempts]
Visit == [status : {"absent", "scheduled", "closed"}, start : 0..LastMinute,
          enabled : BOOLEAN, channel : [Channels -> ReminderStatuses]]

ReminderShapes ==
  /\ minute \in 0..LastMinute /\ visit \in Visit
  /\ job \in [Channels -> Job]
  /\ sender \in [Channels -> {"idle", "claimed", "sent"}]
  /\ told \in [Channels -> Nat]
  /\ disturbed \in [Channels -> BOOLEAN]
  /\ edit # NoEdit => edit \in [Channels -> ReminderStatuses]

\* How far a job is, and what its worker does.
Paired(j, s) ==
  /\ j.phase = "none" => j.tries = 0
  /\ j.phase = "waiting" => j.tries < Attempts
  /\ j.phase = "failed" => j.tries > 0
  /\ s = "idle" <=> j.phase # "running"
  /\ s # "idle" => j.tries > 0

\* What a status that no request has rewritten says of the messages: j the job, k the
\* status, s the worker, t the messages delivered.
Told(j, k, s, t) ==
  /\ t <= 1
  /\ s # "idle" => k = "processing"
  /\ s = "claimed" => t = 0
  /\ s = "idle" /\ t = 1 => j.phase = "none" \/ (j.tries > 0 /\ k \in {"processing", "sent"})

ChannelSound(c) ==
  /\ Paired(job[c], sender[c])
  /\ ~disturbed[c] => Told(job[c], visit.channel[c], sender[c], told[c])

ReminderInv == ReminderShapes /\ \A c \in Channels : ChannelSound(c)

-----------------------------------------------------------------------------
\* The constants are numbers, and a job has at least one attempt.
LEMMA ReminderNumbers == Offset \in Nat /\ LastMinute \in Nat /\ Attempts \in Nat /\ Attempts > 0
  BY ReminderAssumption

\* The job that is not there has no attempts behind it.
LEMMA NoJobIsJob == NoJob \in Job /\ NoJob.phase = "none" /\ NoJob.tries = 0
  BY ReminderNumbers DEF NoJob, Job, Phases

\* The invariant holds before the appointment is booked.
LEMMA InitReminderInv == ReminderInit => ReminderInv
<1> SUFFICES ASSUME ReminderInit PROVE ReminderInv
  OBVIOUS
<1>1. ReminderShapes
  BY NoJobIsJob, ReminderNumbers DEF ReminderInit, ReminderShapes, Visit, ReminderStatuses, NoEdit
<1>2. ASSUME NEW c \in Channels PROVE ChannelSound(c)
  BY <1>2, NoJobIsJob DEF ReminderInit, ChannelSound, Paired, Told
<1> QED
  BY <1>1, <1>2 DEF ReminderInv

\* What the steps make of a job.
LEMMA JobMoves ==
  ASSUME NEW j \in Job, NEW m \in Nat
  PROVE  /\ [j EXCEPT !.phase = "failed"] \in Job
         /\ [j EXCEPT !.phase = "failed"].phase = "failed"
         /\ [j EXCEPT !.phase = "failed"].tries = j.tries
         /\ [j EXCEPT !.phase = "waiting", !.due = m] \in Job
         /\ [j EXCEPT !.phase = "waiting", !.due = m].phase = "waiting"
         /\ [j EXCEPT !.phase = "waiting", !.due = m].tries = j.tries
  BY DEF Job, Phases

\* A job a worker takes has one more attempt behind it.
LEMMA JobTaken ==
  ASSUME NEW j \in Job, j.tries < Attempts
  PROVE  /\ [j EXCEPT !.phase = "running", !.tries = @ + 1] \in Job
         /\ [j EXCEPT !.phase = "running", !.tries = @ + 1].phase = "running"
         /\ [j EXCEPT !.phase = "running", !.tries = @ + 1].tries > 0
<1>1. PICK p \in Phases, d \in Nat, n \in 0..Attempts : j = [phase |-> p, due |-> d, tries |-> n]
  BY DEF Job
<1> DEFINE m == n + 1
<1>2. m \in 0..Attempts /\ m > 0 /\ j.tries + 1 = m
  BY <1>1, ReminderNumbers
<1> HIDE DEF m
<1>3. /\ [j EXCEPT !.phase = "running", !.tries = m] \in Job
      /\ [j EXCEPT !.phase = "running", !.tries = m].phase = "running"
      /\ [j EXCEPT !.phase = "running", !.tries = m].tries = m
  BY <1>2 DEF Job, Phases
<1>4. /\ [j EXCEPT !.phase = "running", !.tries = j.tries + 1] \in Job
      /\ [j EXCEPT !.phase = "running", !.tries = j.tries + 1].phase = "running"
      /\ [j EXCEPT !.phase = "running", !.tries = j.tries + 1].tries = m
  BY <1>2, <1>3, Zenon
<1> QED
  BY <1>2, <1>4

-----------------------------------------------------------------------------
(* Requests *)

\* scheduleReminders adds jobs that no worker has met, and starts the count again.
LEMMA ScheduleKeepsReminderInv ==
  ASSUME ReminderInv, NEW start \in 0..LastMinute, NEW enabled \in BOOLEAN,
         Schedule(start, enabled)
  PROVE  ReminderInv'
<1> DEFINE late == ~enabled \/ start - Offset <= minute
           due == start - Offset
<1>1. /\ visit' = [status |-> "scheduled", start |-> start, enabled |-> enabled,
                   channel |-> [c \in Channels |-> IF late THEN "cancelled" ELSE "scheduled"]]
      /\ job' = IF late THEN job ELSE Added(due)
      /\ told' = [c \in Channels |-> 0]
      /\ disturbed' = [c \in Channels |-> Unfinished(c)]
      /\ UNCHANGED <<minute, sender, edit>>
  BY DEF Schedule
<1>2. ~late => due \in Nat
  BY ReminderNumbers DEF ReminderInv, ReminderShapes
<1>3. ASSUME NEW c \in Channels
      PROVE  /\ job'[c] \in Job /\ job'[c].tries = job[c].tries
             /\ \/ job'[c] = job[c]
                \/ job[c].phase = "none" /\ job'[c].phase = "waiting"
  <2>1. job[c] \in Job /\ (job[c].phase = "none" => job[c].tries = 0)
    BY DEF ReminderInv, ReminderShapes, ChannelSound, Paired
  <2>2. CASE late
    BY <1>1, <2>1, <2>2
  <2>3. CASE ~late
    <3>1. due \in Nat
      BY <1>2, <2>3
    <3> HIDE DEF due
    <3>2. job'[c] = IF job[c].phase = "none" THEN [phase |-> "waiting", due |-> due, tries |-> 0]
                                             ELSE job[c]
      BY <1>1, <2>3 DEF Added
    <3> QED
      BY <2>1, <3>1, <3>2, ReminderNumbers DEF Job, Phases
  <2> QED
    BY <2>2, <2>3
<1>4. DOMAIN job' = Channels
  BY <1>1 DEF ReminderInv, ReminderShapes, Added
<1>5. job' \in [Channels -> Job]
  <2>1. job' = [c \in Channels |-> job'[c]]
    BY <1>1 DEF ReminderInv, ReminderShapes, Added
  <2> QED
    BY <1>3, <2>1
<1>6. visit' \in Visit
  BY <1>1 DEF Visit, ReminderStatuses
<1>7. ReminderShapes'
  <2>1. disturbed' \in [Channels -> BOOLEAN]
    BY <1>1 DEF Unfinished
  <2> QED
    BY <1>1, <1>5, <1>6, <2>1 DEF ReminderInv, ReminderShapes
<1>8. ASSUME NEW c \in Channels PROVE ChannelSound(c)'
  <2>1. Paired(job[c], sender[c]) /\ job[c] \in Job /\ sender'[c] = sender[c]
    BY <1>1 DEF ReminderInv, ReminderShapes, ChannelSound
  <2>2. told'[c] = 0 /\ (disturbed'[c] <=> job[c].tries > 0)
    BY <1>1 DEF Unfinished
  <2>3. Paired(job'[c], sender'[c])
    BY <1>3, <2>1, ReminderNumbers DEF Paired
  <2>4. ~disturbed'[c] => Told(job'[c], visit'.channel[c], sender'[c], told'[c])
    BY <2>1, <2>2 DEF Paired, Told
  <2> QED
    BY <2>3, <2>4 DEF ChannelSound
<1> QED
  BY <1>7, <1>8 DEF ReminderInv

\* A request that writes a status while the job is unfinished marks it as disturbed.
LEMMA RewritingKeepsSound ==
  ASSUME ReminderInv, NEW c \in Channels,
         job'[c] = job[c], sender'[c] = sender[c], told'[c] = told[c],
         disturbed'[c] = (disturbed[c] \/ Unfinished(c))
  PROVE  ChannelSound(c)'
<1>1. Paired(job[c], sender[c]) /\ job[c] \in Job /\ told[c] \in Nat
  BY DEF ReminderInv, ReminderShapes, ChannelSound
<1>2. ASSUME ~disturbed'[c] PROVE Told(job'[c], visit'.channel[c], sender'[c], told'[c])
  <2>1. ~disturbed[c] /\ ~(job[c].tries > 0)
    BY <1>2 DEF Unfinished
  <2>2. Told(job[c], visit.channel[c], sender[c], told[c])
    BY <2>1 DEF ReminderInv, ChannelSound
  <2> QED
    BY <1>1, <2>1, <2>2 DEF Paired, Told
<1> QED
  BY <1>1, <1>2 DEF ChannelSound

\* A change of the settings writes the statuses it has read.
LEMMA SwitchKeepsReminderInv ==
  ASSUME ReminderInv, NEW on \in BOOLEAN, SwitchReminder(on)
  PROVE  ReminderInv'
<1>1. /\ visit' = [visit EXCEPT !.enabled = on, !.channel = edit]
      /\ disturbed' = [c \in Channels |-> disturbed[c] \/ Unfinished(c)]
      /\ edit' = NoEdit /\ edit \in [Channels -> ReminderStatuses]
      /\ UNCHANGED <<minute, job, sender, told>>
  BY DEF SwitchReminder, ReminderInv, ReminderShapes
<1>2. visit' \in Visit
  BY <1>1 DEF ReminderInv, ReminderShapes, Visit
<1>3. disturbed' \in [Channels -> BOOLEAN]
  BY <1>1 DEF Unfinished
<1>4. ReminderShapes'
  BY <1>1, <1>2, <1>3 DEF ReminderInv, ReminderShapes
<1>5. ASSUME NEW c \in Channels PROVE ChannelSound(c)'
  BY <1>1, RewritingKeepsSound
<1> QED
  BY <1>4, <1>5 DEF ReminderInv

\* A manual reminder writes the status of its channel.
LEMMA TriggerKeepsReminderInv ==
  ASSUME ReminderInv, NEW c \in Channels, NEW ok \in BOOLEAN, TriggerReminder(c, ok)
  PROVE  ReminderInv'
<1> DEFINE k == IF ok THEN "sent" ELSE "failed"
<1>1. /\ visit' = [visit EXCEPT !.channel[c] = k]
      /\ disturbed' = [disturbed EXCEPT ![c] = @ \/ Unfinished(c)]
      /\ UNCHANGED <<minute, job, sender, told, edit>>
  BY DEF TriggerReminder
<1>2. k \in ReminderStatuses /\ disturbed \in [Channels -> BOOLEAN] /\ Unfinished(c) \in BOOLEAN
  BY DEF ReminderStatuses, ReminderInv, ReminderShapes, Unfinished
<1> HIDE DEF k
<1>3. visit' \in Visit /\ \A d \in Channels \ {c} : visit'.channel[d] = visit.channel[d]
  BY <1>1, <1>2 DEF ReminderInv, ReminderShapes, Visit
<1>4. /\ disturbed' \in [Channels -> BOOLEAN]
      /\ disturbed'[c] = (disturbed[c] \/ Unfinished(c))
      /\ \A d \in Channels \ {c} : disturbed'[d] = disturbed[d]
  BY <1>1, <1>2, Zenon
<1>5. ReminderShapes'
  BY <1>1, <1>3, <1>4 DEF ReminderInv, ReminderShapes
<1>6. ChannelSound(c)'
  BY <1>1, <1>4, RewritingKeepsSound
<1>7. ASSUME NEW d \in Channels \ {c} PROVE ChannelSound(d)'
  BY <1>1, <1>3, <1>4 DEF ReminderInv, ChannelSound
<1> QED
  BY <1>5, <1>6, <1>7 DEF ReminderInv

-----------------------------------------------------------------------------
(* The worker: one channel moves *)

\* The other channels keep what they have.
LEMMA OneChannelMoves ==
  ASSUME ReminderInv, NEW c \in Channels,
         NEW j \in Job, NEW k \in ReminderStatuses, NEW s \in {"idle", "claimed", "sent"}, NEW t \in Nat,
         job' = [job EXCEPT ![c] = j], sender' = [sender EXCEPT ![c] = s],
         told' = [told EXCEPT ![c] = t],
         visit' = [visit EXCEPT !.channel[c] = k],
         UNCHANGED <<minute, disturbed, edit>>,
         Paired(j, s), ~disturbed[c] => Told(j, k, s, t)
  PROVE  ReminderInv'
<1>1. /\ visit' \in Visit /\ visit'.channel[c] = k
      /\ \A d \in Channels \ {c} : visit'.channel[d] = visit.channel[d]
  BY DEF ReminderInv, ReminderShapes, Visit
<1>2. /\ job' \in [Channels -> Job] /\ job'[c] = j
      /\ \A d \in Channels \ {c} : job'[d] = job[d]
  BY DEF ReminderInv, ReminderShapes
<1>3. /\ sender' \in [Channels -> {"idle", "claimed", "sent"}] /\ sender'[c] = s
      /\ \A d \in Channels \ {c} : sender'[d] = sender[d]
  BY DEF ReminderInv, ReminderShapes
<1>4. /\ told' \in [Channels -> Nat] /\ told'[c] = t
      /\ \A d \in Channels \ {c} : told'[d] = told[d]
  BY DEF ReminderInv, ReminderShapes
<1>5. ReminderShapes'
  BY <1>1, <1>2, <1>3, <1>4 DEF ReminderInv, ReminderShapes
<1>6. ChannelSound(c)'
  BY <1>1, <1>2, <1>3, <1>4 DEF ChannelSound
<1>7. ASSUME NEW d \in Channels \ {c} PROVE ChannelSound(d)'
  BY <1>1, <1>2, <1>3, <1>4 DEF ReminderInv, ChannelSound
<1> QED
  BY <1>5, <1>6, <1>7 DEF ReminderInv

\* What is known of a channel, and the writes that change nothing.
LEMMA OfChannel ==
  ASSUME ReminderInv, NEW c \in Channels
  PROVE  /\ job[c] \in Job /\ visit.channel[c] \in ReminderStatuses /\ told[c] \in Nat /\ minute \in Nat
         /\ sender[c] \in {"idle", "claimed", "sent"} /\ job[c].tries \in 0..Attempts
         /\ Paired(job[c], sender[c])
         /\ ~disturbed[c] => Told(job[c], visit.channel[c], sender[c], told[c])
         /\ job = [job EXCEPT ![c] = job[c]] /\ sender = [sender EXCEPT ![c] = sender[c]]
         /\ told = [told EXCEPT ![c] = told[c]]
         /\ visit = [visit EXCEPT !.channel[c] = visit.channel[c]]
  BY DEF ReminderInv, ReminderShapes, ChannelSound, Visit, Job

\* A job that failed or stalled waits for another run, or has had all its attempts.
LEMMA JobAgain ==
  ASSUME ReminderInv, NEW c \in Channels, sender[c] # "idle"
  PROVE  \E j \in Job : /\ Again(c) = [job EXCEPT ![c] = j]
                        /\ j.tries = job[c].tries /\ j.phase \in {"waiting", "failed"}
                        /\ Paired(j, "idle")
<1> DEFINE i == job[c]
           j == IF i.tries < Attempts THEN [i EXCEPT !.phase = "waiting", !.due = minute]
                                      ELSE [i EXCEPT !.phase = "failed"]
<1>1. i \in Job /\ minute \in Nat /\ i.tries > 0
  BY OfChannel DEF Paired
<1>2. Again(c) = [job EXCEPT ![c] = j]
  BY DEF Again, ReminderInv, ReminderShapes
<1> HIDE DEF i
<1>3. /\ j \in Job /\ j.tries = i.tries /\ j.phase \in {"waiting", "failed"}
      /\ j.phase = "waiting" => i.tries < Attempts
  BY <1>1, JobMoves
<1> HIDE DEF j
<1>4. Paired(j, "idle")
  BY <1>1, <1>3 DEF Paired
<1> QED
  BY <1>2, <1>3, <1>4 DEF i

\* A claim succeeds only where nothing was delivered, unless a request interfered.
LEMMA ClaimKeepsReminderInv ==
  ASSUME ReminderInv, NEW c \in Channels, Claim(c)
  PROVE  ReminderInv'
<1>1. job[c].phase = "waiting" /\ UNCHANGED <<minute, told, disturbed, edit>>
  BY DEF Claim
<1>2. CASE Claimable(c)
  <2> DEFINE i == job[c]
             j == [i EXCEPT !.phase = "running", !.tries = @ + 1]
  <2>1. /\ visit' = [visit EXCEPT !.channel[c] = "processing"]
        /\ sender' = [sender EXCEPT ![c] = "claimed"]
        /\ job' = [job EXCEPT ![c] = j]
    BY <1>2 DEF Claim, ReminderInv, ReminderShapes
  <2>2. i \in Job /\ i.tries < Attempts /\ sender[c] = "idle"
    BY <1>1, OfChannel DEF Paired
  <2>3. ~disturbed[c] => told[c] = 0
    <3> SUFFICES ASSUME ~disturbed[c], told[c] # 0 PROVE FALSE
      OBVIOUS
    <3>1. told[c] = 1 /\ Told(job[c], visit.channel[c], sender[c], told[c])
      BY OfChannel DEF Told
    <3> QED
      BY <1>1, <1>2, <2>2, <3>1 DEF Told, Claimable
  <2> HIDE DEF i
  <2>4. j \in Job /\ j.phase = "running" /\ j.tries > 0
    BY <2>2, JobTaken
  <2> HIDE DEF j
  <2>5. Paired(j, "claimed") /\ (~disturbed[c] => Told(j, "processing", "claimed", told[c]))
    BY <2>3, <2>4 DEF Paired, Told
  <2>6. told' = [told EXCEPT ![c] = told[c]] /\ told[c] \in Nat
    BY <1>1, OfChannel
  <2>7. "processing" \in ReminderStatuses
    BY DEF ReminderStatuses
  <2> QED
    BY <1>1, <2>1, <2>4, <2>5, <2>6, <2>7, OneChannelMoves
<1>3. CASE ~Claimable(c)
  <2>1. /\ job' = [job EXCEPT ![c] = NoJob]
        /\ sender' = [sender EXCEPT ![c] = "idle"] /\ told' = [told EXCEPT ![c] = told[c]]
        /\ visit' = [visit EXCEPT !.channel[c] = visit.channel[c]]
    BY <1>1, <1>3, OfChannel DEF Claim, Paired
  <2>2. /\ visit.channel[c] \in ReminderStatuses /\ told[c] \in Nat /\ sender[c] = "idle"
        /\ ~disturbed[c] => told[c] <= 1
    BY <1>1, OfChannel DEF Paired, Told
  <2>3. Paired(NoJob, "idle") /\ (~disturbed[c] => Told(NoJob, visit.channel[c], "idle", told[c]))
    BY <2>2, NoJobIsJob DEF Paired, Told
  <2> QED
    BY <1>1, <2>1, <2>2, <2>3, NoJobIsJob, OneChannelMoves
<1> QED
  BY <1>2, <1>3

\* The one delivery of a claim leaves "processing" behind.
LEMMA DeliverKeepsReminderInv ==
  ASSUME ReminderInv, NEW c \in Channels, Deliver(c)
  PROVE  ReminderInv'
<1>1. /\ sender[c] = "claimed" /\ sender' = [sender EXCEPT ![c] = "sent"]
      /\ told' = [told EXCEPT ![c] = told[c] + 1]
      /\ UNCHANGED <<minute, visit, job, disturbed, edit>>
  BY DEF Deliver, ReminderInv, ReminderShapes
<1>2. /\ job' = [job EXCEPT ![c] = job[c]] /\ job[c] \in Job
      /\ visit' = [visit EXCEPT !.channel[c] = visit.channel[c]] /\ visit.channel[c] \in ReminderStatuses
      /\ told[c] + 1 \in Nat
  BY <1>1, OfChannel
<1>3. Paired(job[c], "sent")
  BY <1>1, OfChannel DEF Paired
<1>4. ~disturbed[c] => Told(job[c], visit.channel[c], "sent", told[c] + 1)
  BY <1>1, OfChannel DEF Told
<1> QED
  BY <1>1, <1>2, <1>3, <1>4, OneChannelMoves

\* The worker lays the job down with the status k.
LEMMA LaidDown ==
  ASSUME ReminderInv, NEW c \in Channels, NEW j \in Job, NEW k \in ReminderStatuses,
         job' = [job EXCEPT ![c] = j], sender' = [sender EXCEPT ![c] = "idle"],
         visit' = [visit EXCEPT !.channel[c] = k],
         UNCHANGED <<minute, told, disturbed, edit>>,
         Paired(j, "idle"), ~disturbed[c] => Told(j, k, "idle", told[c])
  PROVE  ReminderInv'
<1>1. told' = [told EXCEPT ![c] = told[c]] /\ told[c] \in Nat
  BY OfChannel
<1> QED
  BY <1>1, OneChannelMoves

\* The worker records the delivery and the job is over.
LEMMA RecordSentKeepsReminderInv ==
  ASSUME ReminderInv, NEW c \in Channels, RecordSent(c)
  PROVE  ReminderInv'
<1>1. ~disturbed[c] => told[c] <= 1
  BY OfChannel DEF Told
<1>2. "sent" \in ReminderStatuses /\ Paired(NoJob, "idle") /\ (~disturbed[c] => Told(NoJob, "sent", "idle", told[c]))
  BY <1>1, NoJobIsJob DEF ReminderStatuses, Paired, Told
<1> QED
  BY <1>2, NoJobIsJob, LaidDown DEF RecordSent

\* A refusal is recorded before the job is run again; nothing was delivered.
LEMMA RefusedKeepsReminderInv ==
  ASSUME ReminderInv, NEW c \in Channels, NEW address \in BOOLEAN, Refused(c, address)
  PROVE  ReminderInv'
<1>1. /\ sender[c] = "claimed" /\ sender' = [sender EXCEPT ![c] = "idle"]
      /\ visit' = [visit EXCEPT !.channel[c] = "failed"]
      /\ job' = IF address THEN Again(c) ELSE [job EXCEPT ![c] = NoJob]
      /\ UNCHANGED <<minute, told, disturbed, edit>>
  BY DEF Refused
<1>2. ~disturbed[c] => told[c] = 0
  BY <1>1, OfChannel DEF Told
<1>3. PICK j \in Job : job' = [job EXCEPT ![c] = j] /\ Paired(j, "idle")
  <2>1. CASE address
    BY <1>1, <2>1, JobAgain
  <2>2. CASE ~address
    BY <1>1, <2>2, NoJobIsJob DEF Paired
  <2> QED
    BY <2>1, <2>2
<1>4. "failed" \in ReminderStatuses /\ (~disturbed[c] => Told(j, "failed", "idle", told[c]))
  BY <1>2 DEF ReminderStatuses, Told
<1> QED
  BY <1>1, <1>3, <1>4, LaidDown

\* A crash leaves "processing", which no later run of the job can claim.
LEMMA WorkerCrashKeepsReminderInv ==
  ASSUME ReminderInv, NEW c \in Channels, WorkerCrash(c)
  PROVE  ReminderInv'
<1>1. /\ sender[c] # "idle" /\ sender' = [sender EXCEPT ![c] = "idle"] /\ job' = Again(c)
      /\ UNCHANGED <<minute, visit, told, disturbed, edit>>
  BY DEF WorkerCrash
<1>2. PICK j \in Job : /\ job' = [job EXCEPT ![c] = j] /\ Paired(j, "idle")
                       /\ j.tries = job[c].tries
  BY <1>1, JobAgain
<1>3. /\ visit' = [visit EXCEPT !.channel[c] = visit.channel[c]] /\ visit.channel[c] \in ReminderStatuses
      /\ job[c].tries > 0
  BY <1>1, OfChannel DEF Paired
<1>4. ~disturbed[c] => Told(j, visit.channel[c], "idle", told[c])
  BY <1>1, <1>2, <1>3, OfChannel DEF Told
<1> QED
  BY <1>1, <1>2, <1>3, <1>4, LaidDown

-----------------------------------------------------------------------------
\* Every action keeps the invariant.
LEMMA StepKeepsReminderInv == ReminderInv /\ [ReminderNext]_reminderVars => ReminderInv'
<1> SUFFICES ASSUME ReminderInv, [ReminderNext]_reminderVars PROVE ReminderInv'
  OBVIOUS
<1>1. ASSUME NEW start \in 1..LastMinute, RescheduleVisit(start) PROVE ReminderInv'
  <2>1. start \in 0..LastMinute /\ visit.enabled \in BOOLEAN
    BY ReminderNumbers DEF ReminderInv, ReminderShapes, Visit
  <2> QED
    BY <1>1, <2>1, ScheduleKeepsReminderInv DEF RescheduleVisit
<1>2. ASSUME NEW start \in 1..LastMinute, NEW on \in BOOLEAN, BookVisit(start, on) PROVE ReminderInv'
  <2>1. start \in 0..LastMinute
    BY ReminderNumbers
  <2> QED
    BY <1>2, <2>1, ScheduleKeepsReminderInv DEF BookVisit
<1>3. CASE CloseVisit
  <2>1. /\ visit' = [visit EXCEPT !.status = "closed"]
        /\ UNCHANGED <<minute, job, sender, told, disturbed, edit>>
    BY <1>3 DEF CloseVisit
  <2>2. visit' \in Visit /\ visit'.channel = visit.channel
    BY <2>1 DEF ReminderInv, ReminderShapes, Visit
  <2> QED
    BY <2>1, <2>2 DEF ReminderInv, ReminderShapes, ChannelSound
<1>4. CASE ReadReminder
  <2>1. edit' \in [Channels -> ReminderStatuses] /\ UNCHANGED <<minute, visit, job, sender, told, disturbed>>
    BY <1>4 DEF ReadReminder, ReminderInv, ReminderShapes, Visit
  <2> QED
    BY <2>1 DEF ReminderInv, ReminderShapes, ChannelSound
<1>5. CASE MinutePasses
  <2>1. minute' \in 0..LastMinute /\ UNCHANGED <<visit, job, sender, told, disturbed, edit>>
    BY <1>5, ReminderNumbers DEF MinutePasses, ReminderInv, ReminderShapes
  <2> QED
    BY <2>1 DEF ReminderInv, ReminderShapes, ChannelSound
<1>6. ASSUME NEW on \in BOOLEAN, SwitchReminder(on) PROVE ReminderInv'
  BY <1>6, SwitchKeepsReminderInv
<1>7. ASSUME NEW c \in Channels, NEW ok \in BOOLEAN, TriggerReminder(c, ok) PROVE ReminderInv'
  BY <1>7, TriggerKeepsReminderInv
<1>8. ASSUME NEW c \in Channels, NEW ok \in BOOLEAN, Refused(c, ok) PROVE ReminderInv'
  BY <1>8, RefusedKeepsReminderInv
<1>9. ASSUME NEW c \in Channels, Claim(c) \/ Deliver(c) \/ RecordSent(c) \/ WorkerCrash(c)
      PROVE  ReminderInv'
  BY <1>9, ClaimKeepsReminderInv, DeliverKeepsReminderInv, RecordSentKeepsReminderInv,
     WorkerCrashKeepsReminderInv
<1>10. CASE UNCHANGED reminderVars
  BY <1>10 DEF reminderVars, ReminderInv, ReminderShapes, ChannelSound
<1> QED
  BY <1>1, <1>2, <1>3, <1>4, <1>5, <1>6, <1>7, <1>8, <1>9, <1>10 DEF ReminderNext

\* ReminderInv holds of every reachable state of a reminder.
THEOREM ReminderInvariant == ReminderSpec => []ReminderInv
  BY InitReminderInv, StepKeepsReminderInv, PTL DEF ReminderSpec

\* A job is never run more than Attempts times, and every status is one the
\* appointment's schema knows.
THEOREM AttemptsAreLimited == ReminderSpec => []ReminderTypeOK
<1>1. ReminderInv => ReminderTypeOK
  BY DEF ReminderInv, ReminderShapes, Visit, Job, ReminderStatuses, Phases, ReminderTypeOK
<1> QED
  BY <1>1, ReminderInvariant, PTL

\* Through retries, crashes and second runs of a job, a worker delivers a reminder
\* once, unless a request rewrote its status while the job was unfinished.
THEOREM DeliveredOnce == ReminderSpec => []NoAutomaticRepeat
<1>1. ReminderInv => NoAutomaticRepeat
  BY DEF ReminderInv, ChannelSound, Told, NoAutomaticRepeat
<1> QED
  BY <1>1, ReminderInvariant, PTL

-----------------------------------------------------------------------------
(***************************************************************************)
(* Proofs about Leaves, for any leaves, days, users and requests.          *)
(*                                                                         *)
(* The inductive invariant says what a request under way may still assume  *)
(* of the document it is about: that the document exists, unless it is to  *)
(* be made, and, as long as nobody has saved it since, that it still has   *)
(* the status that was checked.                                            *)
(***************************************************************************)


LeaveStatuses == {"absent", "rejected", "cancelled"} \cup Blocking
LeaveRecord == [status : LeaveStatuses, days : SUBSET (0..LastDay), by : Users]

Reviews == {[status |-> "approved"], [status |-> "rejected"]}
Cancellation == [status |-> "cancelled"]
Moves == {[days |-> p] : p \in Periods}
Filings == {[status |-> "pending", days |-> p, by |-> u] : p \in Periods, u \in Users}

\* What holds of the document x that a request is about to change.
Sound(set, current, x) ==
  \/ /\ set \in Reviews \cup Moves
     /\ x.status # "absent" /\ (current => x.status = "pending")
  \/ /\ set = Cancellation
     /\ x.status # "absent" /\ (current => x.status \in Blocking)
  \/ /\ set \in Filings
     /\ (current => x.status = "absent")

FilingShape ==
  \A f \in filing :
    /\ f.on \in LeaveIds /\ f.current \in BOOLEAN
    /\ f = [on |-> f.on, set |-> f.set, current |-> f.current]

Checked == \A f \in filing : Sound(f.set, f.current, leave[f.on])

LeaveInv ==
  /\ leave \in [LeaveIds -> LeaveRecord]
  /\ FilingShape
  /\ Checked
  /\ LeaveTypeOK

-----------------------------------------------------------------------------
\* What Object.assign makes of a document, for each kind of request.
LEMMA AmendedStatus ==
  ASSUME NEW x \in LeaveRecord, NEW s
  PROVE  Amended(x, [status |-> s]) = [status |-> s, days |-> x.days, by |-> x.by]
  BY DEF Amended, LeaveRecord

\* A change of the period writes the dates only.
LEMMA AmendedDays ==
  ASSUME NEW x \in LeaveRecord, NEW p
  PROVE  Amended(x, [days |-> p]) = [status |-> x.status, days |-> p, by |-> x.by]
  BY DEF Amended, LeaveRecord

\* A filing writes every field.
LEMMA AmendedAll ==
  ASSUME NEW x \in LeaveRecord, NEW s, NEW p, NEW u
  PROVE  Amended(x, [status |-> s, days |-> p, by |-> u]) = [status |-> s, days |-> p, by |-> u]
  BY DEF Amended, LeaveRecord

\* The days of a period lie within the calendar.
LEMMA PeriodsAreDays == Periods \subseteq SUBSET (0..LastDay)
  BY DEF Periods

\* A saved document has the shape of one, exists, and has a period.
LEMMA SavedDocument ==
  ASSUME NEW x \in LeaveRecord, NEW set, NEW current, Sound(set, current, x),
         x.status # "absent" => x.days \in Periods
  PROVE  /\ Amended(x, set) \in LeaveRecord
         /\ Amended(x, set).status # "absent"
         /\ Amended(x, set).days \in Periods
<1> DEFINE y == Amended(x, set)
<1>1. ASSUME NEW s \in {"approved", "rejected", "cancelled"}, set = [status |-> s],
             x.status # "absent"
      PROVE  y \in LeaveRecord /\ y.status # "absent" /\ y.days \in Periods
  <2>1. y = [status |-> s, days |-> x.days, by |-> x.by]
    BY <1>1, AmendedStatus
  <2>2. s \in LeaveStatuses /\ s # "absent"
    BY DEF LeaveStatuses, Blocking
  <2> QED
    BY <1>1, <2>1, <2>2 DEF LeaveRecord
<1>2. CASE set \in Reviews /\ x.status # "absent"
  BY <1>1, <1>2 DEF Reviews
<1>3. CASE set = Cancellation /\ x.status # "absent"
  BY <1>1, <1>3 DEF Cancellation
<1>4. CASE set \in Moves /\ x.status # "absent"
  <2>1. PICK p \in Periods : set = [days |-> p]
    BY <1>4 DEF Moves
  <2>2. y = [status |-> x.status, days |-> p, by |-> x.by]
    BY <2>1, AmendedDays
  <2> QED
    BY <1>4, <2>2, PeriodsAreDays DEF LeaveRecord
<1>5. CASE set \in Filings
  <2>1. PICK p \in Periods, u \in Users : set = [status |-> "pending", days |-> p, by |-> u]
    BY <1>5 DEF Filings
  <2>2. y = [status |-> "pending", days |-> p, by |-> u]
    BY <2>1, AmendedAll
  <2> QED
    BY <2>2, PeriodsAreDays DEF LeaveRecord, LeaveStatuses, Blocking
<1> QED
  BY <1>2, <1>3, <1>4, <1>5 DEF Sound

\* A request that is no longer current only relies on its document's existence.
LEMMA SoundWhenOutdated ==
  ASSUME NEW x, NEW y, NEW set, NEW current, Sound(set, current, x), y.status # "absent"
  PROVE  Sound(set, FALSE, y)
  BY DEF Sound

\* What a handler may ask for is sound for the copy it has just read.
LEMMA ChangesAreSound ==
  ASSUME NEW l \in LeaveIds, NEW actor, NEW set \in Changes(l, actor)
  PROVE  Sound(set, TRUE, leave[l])
  BY DEF Changes, MayReview, MayCancel, MayUpdate, Sound, Reviews, Moves, Cancellation, Blocking

-----------------------------------------------------------------------------
\* The invariant holds before any leave is filed.
LEMMA InitLeaveInv == LeaveInit => LeaveInv
  BY DEF LeaveInit, LeaveInv, LeaveRecord, LeaveStatuses, NoLeave, FilingShape, Checked, Users,
     LeaveTypeOK, Blocking

\* A request begins: its copy is current, and the documents stay.
LEMMA FileKeepsLeaveInv ==
  ASSUME LeaveInv, NEW l \in LeaveIds, NEW set, Sound(set, TRUE, leave[l]), File(l, set)
  PROVE  LeaveInv'
<1> DEFINE new == [on |-> l, set |-> set, current |-> TRUE]
<1>1. leave' = leave /\ filing' = filing \cup {new}
  BY DEF File
<1>2. ASSUME NEW f \in filing'
      PROVE  /\ f.on \in LeaveIds /\ f.current \in BOOLEAN
             /\ f = [on |-> f.on, set |-> f.set, current |-> f.current]
             /\ Sound(f.set, f.current, leave[f.on])
  <2>1. CASE f \in filing
    BY <2>1 DEF LeaveInv, FilingShape, Checked
  <2>2. CASE f = new
    <3>1. f.on = l /\ f.set = set /\ f.current = TRUE
      BY <2>2
    <3> HIDE DEF new
    <3>2. Sound(f.set, f.current, leave[f.on])
      BY <3>1
    <3> QED
      BY <2>2, <3>1, <3>2 DEF new
  <2> QED
    BY <1>1, <1>2, <2>1, <2>2
<1>3. FilingShape' /\ Checked'
  BY <1>1, <1>2 DEF FilingShape, Checked
<1> QED
  BY <1>1, <1>2, <1>3 DEF LeaveInv, LeaveTypeOK

\* The documents after a save that was not refused.
LEMMA SaveWrites ==
  ASSUME LeaveInv, NEW f \in filing, leave' = [leave EXCEPT ![f.on] = Amended(@, f.set)]
  PROVE  /\ leave' \in [LeaveIds -> LeaveRecord]
         /\ leave'[f.on].status # "absent"
         /\ \A l \in LeaveIds : leave'[l].status # "absent" => leave'[l].days \in Periods
<1>1. f.on \in LeaveIds /\ leave[f.on] \in LeaveRecord /\ Sound(f.set, f.current, leave[f.on])
  BY DEF LeaveInv, FilingShape, Checked
<1>2. leave[f.on].status # "absent" => leave[f.on].days \in Periods
  BY <1>1 DEF LeaveInv, LeaveTypeOK
<1>3. leave'[f.on] = Amended(leave[f.on], f.set)
  BY <1>1 DEF LeaveInv
<1>4. \A l \in LeaveIds \ {f.on} : leave'[l] = leave[l]
  BY DEF LeaveInv
<1>5. /\ Amended(leave[f.on], f.set) \in LeaveRecord
      /\ Amended(leave[f.on], f.set).status # "absent"
      /\ Amended(leave[f.on], f.set).days \in Periods
  BY <1>1, <1>2, SavedDocument
<1>6. leave' \in [LeaveIds -> LeaveRecord]
  BY <1>1, <1>5 DEF LeaveInv
<1> QED
  BY <1>3, <1>4, <1>5, <1>6 DEF LeaveInv, LeaveTypeOK

\* A request that saves keeps the invariant, whichever document it has read.
LEMMA SaveKeepsLeaveInv ==
  ASSUME LeaveInv, NEW f \in filing, SaveLeave(f)
  PROVE  LeaveInv'
<1> DEFINE new == [leave EXCEPT ![f.on] = Amended(@, f.set)]
<1>1. CASE leave' = leave /\ filing' = filing \ {f}
  BY <1>1 DEF LeaveInv, FilingShape, Checked, LeaveTypeOK
<1>2. CASE DatesUnique(new) /\ leave' = new /\ filing' = Outdated(f)
  <2>1. /\ leave' \in [LeaveIds -> LeaveRecord]
        /\ leave'[f.on].status # "absent"
        /\ \A l \in LeaveIds : leave'[l].status # "absent" => leave'[l].days \in Periods
    BY <1>2, SaveWrites
  <2>2. ASSUME NEW g \in filing'
        PROVE  /\ g.on \in LeaveIds /\ g.current \in BOOLEAN
               /\ g = [on |-> g.on, set |-> g.set, current |-> g.current]
               /\ Sound(g.set, g.current, leave'[g.on])
    <3>1. PICK h \in filing : g = [h EXCEPT !.current = @ /\ h.on # f.on]
      BY <1>2 DEF Outdated
    <3>2. /\ h.on \in LeaveIds /\ h.current \in BOOLEAN
          /\ h = [on |-> h.on, set |-> h.set, current |-> h.current]
          /\ Sound(h.set, h.current, leave[h.on])
      BY DEF LeaveInv, FilingShape, Checked
    <3>3. g = [on |-> h.on, set |-> h.set, current |-> (h.current /\ h.on # f.on)]
      BY <3>1, <3>2
    <3>4. CASE h.on = f.on
      <4>1. g.current = FALSE /\ g.set = h.set /\ g.on = f.on
        BY <3>3, <3>4
      <4>2. Sound(h.set, FALSE, leave'[f.on])
        BY <2>1, <3>2, SoundWhenOutdated
      <4> QED
        BY <3>2, <3>3, <4>1, <4>2
    <3>5. CASE h.on # f.on
      <4>1. leave'[h.on] = leave[h.on]
        BY <1>2, <3>2, <3>5 DEF LeaveInv
      <4>2. g.on = h.on /\ g.set = h.set /\ g.current = h.current
        BY <3>2, <3>3, <3>5
      <4> QED
        BY <3>2, <3>3, <4>1, <4>2
    <3> QED
      BY <3>4, <3>5
  <2>3. FilingShape' /\ Checked'
    BY <2>2 DEF FilingShape, Checked
  <2>4. \A k, l \in LeaveIds :
          k # l /\ leave'[k].status \in Blocking /\ leave'[l].status \in Blocking
            => leave'[k].days \cap leave'[l].days = {}
    BY <1>2 DEF DatesUnique
  <2>5. LeaveTypeOK'
    <3>1. \A l \in LeaveIds : leave'[l].status \in {"absent", "rejected", "cancelled"} \cup Blocking
      BY <2>1 DEF LeaveRecord, LeaveStatuses
    <3> QED
      BY <2>1, <2>4, <3>1 DEF LeaveTypeOK
  <2> QED
    BY <2>1, <2>3, <2>5 DEF LeaveInv
<1> QED
  BY <1>1, <1>2 DEF SaveLeave

\* Every action keeps the invariant.
LEMMA NextLeaveInv == LeaveInv /\ [LeaveNext]_leaveVars => LeaveInv'
<1> SUFFICES ASSUME LeaveInv, [LeaveNext]_leaveVars PROVE LeaveInv'
  OBVIOUS
<1>1. CASE UNCHANGED leaveVars
  BY <1>1 DEF leaveVars, LeaveInv, FilingShape, Checked, LeaveTypeOK
<1>2. ASSUME NEW l \in LeaveIds, NEW actor \in Users, NEW days \in Periods,
             CreateLeave(l, actor, days)
      PROVE  LeaveInv'
  <2>1. Sound([status |-> "pending", days |-> days, by |-> actor], TRUE, leave[l])
    BY <1>2 DEF CreateLeave, Sound, Filings
  <2> QED
    BY <1>2, <2>1, FileKeepsLeaveInv DEF CreateLeave
<1>3. ASSUME NEW l \in LeaveIds, NEW actor \in Users, NEW set \in Changes(l, actor),
             ChangeLeave(l, actor, set)
      PROVE  LeaveInv'
  BY <1>3, ChangesAreSound, FileKeepsLeaveInv DEF ChangeLeave
<1>4. ASSUME NEW f \in filing, SaveLeave(f)
      PROVE  LeaveInv'
  BY <1>4, SaveKeepsLeaveInv
<1> QED
  BY <1>1, <1>2, <1>3, <1>4 DEF LeaveNext

\* LeaveInv holds of every reachable state.
THEOREM LeaveInvariant == LeaveSpec => []LeaveInv
  BY InitLeaveInv, NextLeaveInv, PTL DEF LeaveSpec

\* No two pending or approved leaves of one member of staff share a day, and every
\* leave has a period of whole days, however many requests overlap, with and
\* without transactions.
THEOREM LeavesStayApart == LeaveSpec => []LeaveTypeOK
<1>1. LeaveInv => LeaveTypeOK
  BY DEF LeaveInv
<1> QED
  BY <1>1, LeaveInvariant, PTL

-----------------------------------------------------------------------------
\* With transactions a request writes only while its check still holds.
LEMMA DecisionStep ==
  ASSUME LeaveInv, [LeaveNext]_leaveVars, leaveTxn, NEW l \in LeaveIds
  PROVE  /\ leave[l].status \in {"rejected", "cancelled"} => leave'[l] = leave[l]
         /\ leave[l].status = "approved" /\ leave'[l] # leave[l] =>
              leave'[l].status = "cancelled" /\ leave'[l].days = leave[l].days
<1>1. CASE leave' = leave
  BY <1>1
<1>2. ASSUME NEW f \in filing, Current(f), leave' = [leave EXCEPT ![f.on] = Amended(@, f.set)]
      PROVE  /\ leave[l].status \in {"rejected", "cancelled"} => leave'[l] = leave[l]
             /\ leave[l].status = "approved" /\ leave'[l] # leave[l] =>
                  leave'[l].status = "cancelled" /\ leave'[l].days = leave[l].days
  <2>1. CASE f.on # l
    BY <1>2, <2>1 DEF LeaveInv
  <2>2. CASE f.on = l
    <3>1. Sound(f.set, TRUE, leave[l])
      BY <1>2, <2>2 DEF LeaveInv, Checked, FilingShape, Current, Sound
    <3>2. CASE f.set = Cancellation /\ leave[l].status \in Blocking
      <4>1. leave[l] \in LeaveRecord
        BY DEF LeaveInv
      <4>2. Amended(leave[l], f.set)
              = [status |-> "cancelled", days |-> leave[l].days, by |-> leave[l].by]
        BY <3>2, <4>1, AmendedStatus DEF Cancellation
      <4>3. leave'[l] = Amended(leave[l], f.set)
        BY <1>2, <2>2 DEF LeaveInv
      <4> QED
        BY <3>2, <4>2, <4>3 DEF Blocking
    <3>3. CASE leave[l].status \in {"pending", "absent"}
      BY <3>3
    <3> QED
      BY <3>1, <3>2, <3>3 DEF Sound
  <2> QED
    BY <2>1, <2>2
<1>3. ASSUME NEW f \in filing, SaveLeave(f)
      PROVE  leave' = leave \/ (Current(f) /\ leave' = [leave EXCEPT ![f.on] = Amended(@, f.set)])
  BY <1>3 DEF SaveLeave
<1>4. CASE UNCHANGED leaveVars
  BY <1>1, <1>4 DEF leaveVars
<1>5. CASE \E k \in LeaveIds, actor \in Users :
             \/ \E days \in Periods : CreateLeave(k, actor, days)
             \/ \E set \in Changes(k, actor) : ChangeLeave(k, actor, set)
  BY <1>1, <1>5 DEF CreateLeave, ChangeLeave, File
<1> QED
  BY <1>1, <1>2, <1>3, <1>4, <1>5 DEF LeaveNext

\* With transactions, for any number of overlapping requests: a rejected or
\* cancelled leave never changes again, and an approved one keeps its days and can
\* only be cancelled.
THEOREM DecisionsAreFinal == LeaveSpec => DecisionStands
<1>1. LeaveInv /\ [LeaveNext]_leaveVars =>
        [leaveTxn => \A l \in LeaveIds :
           /\ leave[l].status \in {"rejected", "cancelled"} => leave'[l] = leave[l]
           /\ leave[l].status = "approved" /\ leave'[l] # leave[l] =>
                leave'[l].status = "cancelled" /\ leave'[l].days = leave[l].days]_leaveVars
  BY DecisionStep
<1> QED
  BY <1>1, LeaveInvariant, PTL DEF LeaveSpec, DecisionStands
=============================================================================
