-------------------- MODULE SubscriptionRedemption_proofs --------------------
(***************************************************************************)
(* Theorems about SubscriptionRedemption, for any number of appointments,  *)
(* lines, subscriptions, challenges, requests and reconciliation passes,   *)
(* with and without transactions.  The first part is about the units and   *)
(* the state a step may leave; the second about whose step it is: wrong    *)
(* codes are counted up to the limit, a request that spends a unit is the  *)
(* first to do so under its operation identity, and, with transactions, a  *)
(* line is charged once and a completed appointment has been paid for.     *)
(* The third is about recovery when no process sleeps through an age       *)
(* cutoff: what it closes is settled, and what was completed stays paid.   *)
(***************************************************************************)
EXTENDS SubscriptionRedemption, FiniteSetTheorems, TLAPS

-----------------------------------------------------------------------------
(* Type correctness.  TypeOK alone is not inductive: a request about to spend *)
(* a unit, or a pass about to restore one, must hold a real challenge and line. *)

HoldsChallenge == Redeeming \cup {"expire", "reject", "claim"}
HoldsLine == {"decrement", "acknowledge", "record"}
SweepsChallenge == {"judge", "inspect", "fence", "restore", "close"}
SweepsLine == {"fence", "restore"}

PlacedWorker == {r \in Worker : /\ r.pc \in HoldsChallenge => r.ch \in Challenges
                                /\ r.pc \in HoldsLine => r.line \in Lines}
PlacedSweeper == {r \in Sweeper : /\ r.pc \in SweepsChallenge => r.ch \in Challenges
                                  /\ r.pc \in SweepsLine => r.line \in Lines}

ChallengesTyped ==
  /\ challenge \in [Challenges -> Challenge]
  /\ expired \subseteq Challenges /\ quiet \subseteq Challenges /\ lapsed \subseteq Challenges
RequestsTyped == worker \in [Workers -> PlacedWorker] /\ stale \subseteq Workers
PassesTyped == sweeper \in [Sweepers -> PlacedSweeper] /\ failures \in 0 .. SweepFailures
SubscriptionsTyped ==
  /\ remaining \in [Subscriptions -> Int]
  /\ applied \subseteq Operation
  /\ subStatus \in [Subscriptions -> {"active", "exhausted"}]
AppointmentsTyped ==
  /\ apptStatus \in [Appointments -> {"in_progress", "completed", "cancelled"}]
  /\ cancelling \subseteq Appointments
  /\ usage \subseteq Lines

TypeInv == /\ ChallengesTyped /\ RequestsTyped /\ PassesTyped
           /\ SubscriptionsTyped /\ AppointmentsTyped

\* The strengthened invariant implies the type invariant.
LEMMA TypeInvTypeOK == TypeInv => TypeOK
  BY DEF TypeInv, TypeOK, ChallengesTyped, RequestsTyped, PassesTyped, SubscriptionsTyped,
     AppointmentsTyped, PlacedWorker, PlacedSweeper

\* What stays the same stays well typed.
LEMMA TypeFrame ==
  /\ ChallengesTyped /\ UNCHANGED challengeVars => ChallengesTyped'
  /\ RequestsTyped /\ UNCHANGED requestVars => RequestsTyped'
  /\ PassesTyped /\ UNCHANGED sweepVars => PassesTyped'
  /\ SubscriptionsTyped /\ UNCHANGED subscriptionVars => SubscriptionsTyped'
  /\ AppointmentsTyped /\ UNCHANGED apptVars /\ UNCHANGED usage => AppointmentsTyped'
  BY DEF challengeVars, requestVars, sweepVars, subscriptionVars, apptVars, ChallengesTyped,
     RequestsTyped, PassesTyped, SubscriptionsTyped, AppointmentsTyped

\* A write of a well-formed record by either way of writing keeps the collection
\* well typed.
LEMMA WriteTyped ==
  ASSUME ChallengesTyped, NEW c, NEW rec \in Challenge,
         Update(c, rec) \/ \E w \in Workers : worker[w].ch = c /\ Save(w, rec),
         expired' \subseteq Challenges, lapsed' \subseteq Challenges
  PROVE  ChallengesTyped'
  BY DEF ChallengesTyped, Update, Save

\* A request that moves to a well-formed place keeps the requests well typed.
LEMMA MoveTyped ==
  ASSUME RequestsTyped, NEW w \in Workers, NEW r \in PlacedWorker, Goto(w, r),
         stale' \subseteq Workers
  PROVE  RequestsTyped'
  BY DEF RequestsTyped, Goto

\* A save makes only requests stale.
LEMMA SaveStale ==
  ASSUME RequestsTyped, NEW w, NEW rec, Save(w, rec) PROVE stale' \subseteq Workers
  BY DEF RequestsTyped, Save

\* A pass that moves to a well-formed place keeps the passes well typed.
LEMMA SweepTyped ==
  ASSUME PassesTyped, NEW s \in Sweepers, NEW r \in PlacedSweeper, GotoSweep(s, r),
         failures' \in 0 .. SweepFailures
  PROVE  PassesTyped'
  BY DEF PassesTyped, GotoSweep

\* A request that is over holds nothing.
LEMMA IdlePlaced == IdleWorker \in PlacedWorker
  BY DEF IdleWorker, PlacedWorker, Worker, WorkerPC, HoldsChallenge, HoldsLine, Redeeming

\* A pass between two candidates holds no challenge and no line.
LEMMA ScanPlaced == \A cs \in SUBSET Challenges : Scanning(cs) \in PlacedSweeper
  BY DEF Scanning, PlacedSweeper, Sweeper, SweeperPC, SweepsChallenge, SweepsLine

\* The first state is well typed.
LEMMA InitTypeInv == RedemptionAssumption /\ Init => TypeInv
  BY IdlePlaced, ScanPlaced DEF RedemptionAssumption, Init, TypeInv, ChallengesTyped,
     RequestsTyped, PassesTyped, SubscriptionsTyped, AppointmentsTyped, AbsentChallenge,
     Challenge, ChallengeStatus, RedemptionState

\* Where a request in the hands of a challenge stands.
LEMMA RequestAt ==
  ASSUME RequestsTyped, NEW w \in Workers
  PROVE  /\ worker[w] \in Worker
         /\ worker[w].pc \in HoldsChallenge => worker[w].ch \in Challenges
         /\ worker[w].pc \in HoldsLine => worker[w].line \in Lines
  BY DEF RequestsTyped, PlacedWorker

\* Where a pass in the middle of a candidate stands.
LEMMA PassAt ==
  ASSUME PassesTyped, NEW s \in Sweepers
  PROVE  /\ sweeper[s] \in Sweeper
         /\ sweeper[s].pc \in SweepsChallenge => sweeper[s].ch \in Challenges
         /\ sweeper[s].pc \in SweepsLine => sweeper[s].line \in Lines
  BY DEF PassesTyped, PlacedSweeper

\* The records the code writes into a challenge are well formed.
LEMMA RecordTyped ==
  ASSUME ChallengesTyped, RedemptionAssumption, NEW c \in Challenges
  PROVE  /\ \A x \in ChallengeStatus, y \in RedemptionState, ls \in SUBSET Lines :
              /\ [challenge[c] EXCEPT !.status = x] \in Challenge
              /\ [challenge[c] EXCEPT !.state = y] \in Challenge
              /\ [challenge[c] EXCEPT !.status = x, !.state = y] \in Challenge
              /\ [challenge[c] EXCEPT !.intents = @ \cup ls, !.state = y] \in Challenge
              /\ [challenge[c] EXCEPT !.status = x, !.state = y, !.intents = @ \cup ls]
                   \in Challenge
         /\ Resent(challenge[c]) \in Challenge
         /\ AfterWrongCode(challenge[c]) \in Challenge
         /\ [AbsentChallenge EXCEPT !.status = "deleted", !.appt = challenge[c].appt] \in Challenge
<1>1. challenge[c] \in Challenge
  BY DEF ChallengesTyped
<1> USE <1>1 DEF Challenge
<1>2. \A x \in ChallengeStatus, y \in RedemptionState, ls \in SUBSET Lines :
        /\ [challenge[c] EXCEPT !.status = x] \in Challenge
        /\ [challenge[c] EXCEPT !.state = y] \in Challenge
        /\ [challenge[c] EXCEPT !.status = x, !.state = y] \in Challenge
        /\ [challenge[c] EXCEPT !.intents = @ \cup ls, !.state = y] \in Challenge
        /\ [challenge[c] EXCEPT !.status = x, !.state = y, !.intents = @ \cup ls] \in Challenge
  OBVIOUS
<1>3. Resent(challenge[c]) \in Challenge
  BY DEF Resent
<1>4. AfterWrongCode(challenge[c]) \in Challenge
  <2>1. challenge[c].attempts + 1 \in Nat /\ "exhausted" \in ChallengeStatus
    BY DEF ChallengeStatus
  <2> QED
    BY <2>1 DEF AfterWrongCode
<1>5. [AbsentChallenge EXCEPT !.status = "deleted", !.appt = challenge[c].appt] \in Challenge
  BY DEF AbsentChallenge, ChallengeStatus, RedemptionState
<1> QED
  BY <1>2, <1>3, <1>4, <1>5

\* A request that saves its challenge and moves on.
LEMMA SaveStep ==
  ASSUME TypeInv, NEW w \in Workers, NEW rec \in Challenge, NEW r \in PlacedWorker,
         Save(w, rec), Goto(w, r), expired' \subseteq Challenges, UNCHANGED lapsed
  PROVE  ChallengesTyped' /\ RequestsTyped'
<1>1. ChallengesTyped'
  BY WriteTyped DEF TypeInv, ChallengesTyped
<1>2. RequestsTyped'
  BY MoveTyped, SaveStale DEF TypeInv
<1> QED
  BY <1>1, <1>2

\* Where a request may go next: the challenge, appointment and lines it works on
\* were fixed when it was loaded.
LEMMA NextPlace ==
  ASSUME TypeInv, NEW w \in Workers, worker[w].pc \in HoldsChallenge
  PROVE  /\ \A pc \in HoldsChallenge \ HoldsLine :
              /\ [worker[w] EXCEPT !.pc = pc] \in PlacedWorker
              /\ \A ls \in SUBSET Lines :
                   [worker[w] EXCEPT !.pc = pc, !.line = NoLine, !.todo = @ \ ls] \in PlacedWorker
         /\ \A l \in Lines : [worker[w] EXCEPT !.pc = "decrement", !.line = l] \in PlacedWorker
         /\ worker[w].pc \in HoldsLine =>
              \A pc \in HoldsLine : [worker[w] EXCEPT !.pc = pc] \in PlacedWorker
<1>1. worker[w] \in Worker /\ worker[w].ch \in Challenges
  BY RequestAt DEF TypeInv
<1>2. worker[w].pc \in HoldsLine => worker[w].line \in Lines
  BY RequestAt DEF TypeInv
<1> QED
  BY <1>1, <1>2 DEF PlacedWorker, Worker, WorkerPC, HoldsChallenge, HoldsLine, Redeeming

\* The actions of requestConsumptionOTP.
LEMMA IssueTyped ==
  ASSUME RedemptionAssumption, TypeInv, NEW w \in Workers,
         \/ \E a \in Appointments : RequestOtp(w, a)
         \/ \E c \in Challenges : CreateChallenge(w, c)
         \/ ResendChallenge(w)
  PROVE  TypeInv'
<1>1. ASSUME NEW a \in Appointments, RequestOtp(w, a) PROVE TypeInv'
  <2>1. PICK c \in Challenges \cup {NoChallenge} :
          Goto(w, [IdleWorker EXCEPT !.pc = "issue", !.ch = c, !.appt = a])
    BY <1>1 DEF RequestOtp
  <2>2. [IdleWorker EXCEPT !.pc = "issue", !.ch = c, !.appt = a] \in PlacedWorker
    BY DEF IdleWorker, PlacedWorker, Worker, WorkerPC, HoldsChallenge, HoldsLine, Redeeming
  <2>3. RequestsTyped'
    BY <1>1, <2>1, <2>2, MoveTyped DEF RequestOtp, TypeInv, RequestsTyped
  <2> QED
    BY <1>1, <2>3, TypeFrame DEF RequestOtp, TypeInv
<1>2. ASSUME NEW c \in Challenges, CreateChallenge(w, c) PROVE TypeInv'
  <2>1. worker[w].appt \in Appointments \cup {NoAppt}
    BY RequestAt DEF TypeInv, Worker
  <2>2. NewChallenge(worker[w].appt) \in Challenge
    BY <2>1 DEF NewChallenge, Challenge, ChallengeStatus, RedemptionState
  <2>3. ChallengesTyped'
    BY <1>2, <2>2 DEF CreateChallenge, TypeInv, ChallengesTyped
  <2>4. RequestsTyped'
    BY <1>2, IdlePlaced, MoveTyped DEF CreateChallenge, TypeInv, RequestsTyped
  <2> QED
    BY <1>2, <2>3, <2>4, TypeFrame DEF CreateChallenge, TypeInv, sweepVars
<1>3. ASSUME ResendChallenge(w) PROVE TypeInv'
  <2>1. worker[w].ch \in Challenges
    BY <1>3, RequestAt DEF ResendChallenge, TypeInv, Worker
  <2>2. Resent(challenge[worker[w].ch]) \in Challenge
    BY <2>1, RecordTyped DEF TypeInv
  <2>3. ChallengesTyped' /\ RequestsTyped'
    BY <1>3, <2>2, IdlePlaced, SaveStep DEF ResendChallenge, TypeInv, ChallengesTyped
  <2> QED
    BY <1>3, <2>3, TypeFrame DEF ResendChallenge, TypeInv, sweepVars
<1> QED
  BY <1>1, <1>2, <1>3

\* completeWithSubscription up to the claim of the challenge.
LEMMA ClaimTyped ==
  ASSUME RedemptionAssumption, TypeInv, NEW w \in Workers,
         \/ \E c \in Challenges : LoadChallenge(w, c)
         \/ SaveExpired(w) \/ SaveAttempt(w) \/ ClaimChallenge(w)
  PROVE  TypeInv'
<1>1. ASSUME NEW c \in Challenges, LoadChallenge(w, c) PROVE TypeInv'
  <2> DEFINE r(pc) == [pc |-> pc, ch |-> c, appt |-> challenge[c].appt,
                       todo |-> LinesOf(challenge[c].appt), line |-> NoLine]
  <2>1. PICK pc \in {"expire", "reject", "claim"} : Goto(w, r(pc))
    BY <1>1 DEF LoadChallenge
  <2>2. challenge[c].appt \in Appointments \cup {NoAppt}
    BY DEF TypeInv, ChallengesTyped, Challenge
  <2>3. r(pc) \in PlacedWorker
    BY <2>2 DEF LinesOf, PlacedWorker, Worker, WorkerPC, HoldsChallenge, HoldsLine, Redeeming
  <2>4. RequestsTyped'
    BY <1>1, <2>1, <2>3, MoveTyped DEF LoadChallenge, TypeInv, RequestsTyped
  <2> QED
    BY <1>1, <2>4, TypeFrame DEF LoadChallenge, TypeInv
<1>2. CASE SaveExpired(w)
  <2>1. worker[w].ch \in Challenges
    BY <1>2, RequestAt DEF SaveExpired, At, TypeInv, HoldsChallenge
  <2>2. [challenge[worker[w].ch] EXCEPT !.status = "expired"] \in Challenge
    BY <2>1, RecordTyped DEF TypeInv, ChallengeStatus, RedemptionState
  <2>3. ChallengesTyped' /\ RequestsTyped'
    BY <1>2, <2>2, IdlePlaced, SaveStep DEF SaveExpired, TypeInv, ChallengesTyped
  <2> QED
    BY <1>2, <2>3, TypeFrame DEF SaveExpired, TypeInv
<1>3. CASE SaveAttempt(w)
  <2>1. worker[w].ch \in Challenges
    BY <1>3, RequestAt DEF SaveAttempt, At, TypeInv, HoldsChallenge
  <2>2. AfterWrongCode(challenge[worker[w].ch]) \in Challenge
    BY <2>1, RecordTyped DEF TypeInv
  <2>3. ChallengesTyped' /\ RequestsTyped'
    BY <1>3, <2>2, IdlePlaced, SaveStep DEF SaveAttempt, TypeInv, ChallengesTyped
  <2> QED
    BY <1>3, <2>3, TypeFrame DEF SaveAttempt, TypeInv
<1>4. CASE ClaimChallenge(w)
  <2>1. worker[w].pc \in HoldsChallenge /\ worker[w].ch \in Challenges
    BY <1>4, RequestAt DEF ClaimChallenge, At, TypeInv, HoldsChallenge
  <2>2. [challenge[worker[w].ch] EXCEPT !.status = "in_redemption"] \in Challenge
    BY <2>1, RecordTyped DEF TypeInv, ChallengeStatus, RedemptionState
  <2>3. ChallengesTyped'
    BY <1>4, <2>2, WriteTyped DEF ClaimChallenge, TypeInv, ChallengesTyped
  <2>4. [worker[w] EXCEPT !.pc = "verify"] \in PlacedWorker
    BY <2>1, NextPlace DEF HoldsChallenge, HoldsLine, Redeeming
  <2>5. RequestsTyped'
    BY <1>4, <2>4, MoveTyped DEF ClaimChallenge, TypeInv, RequestsTyped
  <2> QED
    BY <1>4, <2>3, <2>5, TypeFrame DEF ClaimChallenge, TypeInv
<1> QED
  BY <1>1, <1>2, <1>3, <1>4

\* The writes of a completion without transactions.
LEMMA StandaloneTyped ==
  ASSUME RedemptionAssumption, TypeInv, NEW w \in Workers,
         \/ MarkVerified(w) \/ (\E l \in Lines : RecordIntent(w, l)) \/ Decrement(w)
         \/ Acknowledge(w) \/ RecordUsage(w) \/ MarkExhausted(w)
         \/ CompleteAppointment(w) \/ FinishChallenge(w)
  PROVE  TypeInv'
<1>0. worker[w].pc \in HoldsChallenge /\ worker[w].ch \in Challenges
  BY RequestAt DEF TypeInv, HoldsChallenge, Redeeming, At, MarkVerified, RecordIntent, Decrement,
     Acknowledge, RecordUsage, MarkExhausted, CompleteAppointment, FinishChallenge
<1>1. CASE MarkVerified(w)
  <2>1. [challenge[worker[w].ch] EXCEPT !.status = "verified"] \in Challenge
    BY <1>0, RecordTyped DEF TypeInv, ChallengeStatus, RedemptionState
  <2>2. [worker[w] EXCEPT !.pc = "lines"] \in PlacedWorker
    BY <1>0, NextPlace DEF HoldsChallenge, HoldsLine, Redeeming
  <2>3. ChallengesTyped' /\ RequestsTyped'
    BY <1>1, <2>1, <2>2, SaveStep DEF MarkVerified, TypeInv, ChallengesTyped
  <2> QED
    BY <1>1, <2>3, TypeFrame DEF MarkVerified, TypeInv
<1>2. ASSUME NEW l \in Lines, RecordIntent(w, l) PROVE TypeInv'
  <2>1. {l} \in SUBSET Lines /\ "in_redemption" \in RedemptionState \cap ChallengeStatus
    BY DEF ChallengeStatus, RedemptionState
  <2>2. [challenge[worker[w].ch] EXCEPT !.intents = @ \cup {l}, !.state = "in_redemption"]
          \in Challenge
    BY <1>0, <2>1, RecordTyped DEF TypeInv
  <2>3. [worker[w] EXCEPT !.pc = "decrement", !.line = l] \in PlacedWorker
    BY <1>0, NextPlace
  <2>4. ChallengesTyped' /\ RequestsTyped'
    BY <1>2, <2>2, <2>3, SaveStep DEF RecordIntent, TypeInv, ChallengesTyped
  <2> QED
    BY <1>2, <2>4, TypeFrame DEF RecordIntent, TypeInv
<1>3. CASE Decrement(w)
  <2>1. worker[w].pc \in HoldsLine /\ worker[w].line \in Lines
    BY <1>3, RequestAt DEF Decrement, At, TypeInv, HoldsLine
  <2>2. [worker[w] EXCEPT !.pc = "acknowledge"] \in PlacedWorker
    BY <1>0, <2>1, NextPlace DEF HoldsLine
  <2>3. RequestsTyped'
    BY <1>3, <2>2, MoveTyped DEF Decrement, TypeInv, RequestsTyped
  <2>4. SubscriptionsTyped'
    BY <1>0, <1>3, <2>1 DEF Decrement, TypeInv, SubscriptionsTyped, Dec, Operation
  <2> QED
    BY <1>3, <2>3, <2>4, TypeFrame DEF Decrement, TypeInv
<1>4. CASE Acknowledge(w)
  <2>1. [challenge[worker[w].ch] EXCEPT !.state = "decremented"] \in Challenge
    BY <1>0, RecordTyped DEF TypeInv, ChallengeStatus, RedemptionState
  <2>2. [worker[w] EXCEPT !.pc = "record"] \in PlacedWorker
    BY <1>0, <1>4, NextPlace DEF Acknowledge, At, HoldsLine
  <2>3. ChallengesTyped' /\ RequestsTyped'
    BY <1>4, <2>1, <2>2, SaveStep DEF Acknowledge, TypeInv, ChallengesTyped
  <2> QED
    BY <1>4, <2>3, TypeFrame DEF Acknowledge, TypeInv
<1>5. CASE RecordUsage(w)
  <2>1. worker[w].line \in Lines
    BY <1>5, RequestAt DEF RecordUsage, At, TypeInv, HoldsLine
  <2>2. "lines" \in HoldsChallenge \ HoldsLine /\ {worker[w].line} \in SUBSET Lines
    BY <2>1 DEF HoldsChallenge, HoldsLine, Redeeming
  <2>3. [worker[w] EXCEPT !.pc = "lines", !.line = NoLine, !.todo = @ \ {worker[w].line}]
          \in PlacedWorker
    BY <1>0, <2>2, NextPlace
  <2>4. RequestsTyped'
    BY <1>5, <2>3, MoveTyped DEF RecordUsage, TypeInv, RequestsTyped
  <2>5. AppointmentsTyped'
    BY <1>5, <2>1 DEF RecordUsage, TypeInv, AppointmentsTyped, apptVars
  <2> QED
    BY <1>5, <2>4, <2>5, TypeFrame DEF RecordUsage, TypeInv
<1>6. CASE MarkExhausted(w)
  <2>1. [worker[w] EXCEPT !.pc = "complete"] \in PlacedWorker
    BY <1>0, NextPlace DEF HoldsChallenge, HoldsLine, Redeeming
  <2>2. RequestsTyped'
    BY <1>6, <2>1, MoveTyped DEF MarkExhausted, TypeInv, RequestsTyped
  <2>3. SubscriptionsTyped'
    BY <1>6 DEF MarkExhausted, Exhaust, TypeInv, SubscriptionsTyped
  <2> QED
    BY <1>6, <2>2, <2>3, TypeFrame DEF MarkExhausted, TypeInv
<1>7. CASE CompleteAppointment(w)
  <2>1. [worker[w] EXCEPT !.pc = "finish"] \in PlacedWorker
    BY <1>0, NextPlace DEF HoldsChallenge, HoldsLine, Redeeming
  <2>2. RequestsTyped'
    BY <1>7, <2>1, MoveTyped DEF CompleteAppointment, TypeInv, RequestsTyped
  <2>3. AppointmentsTyped'
    BY <1>7 DEF CompleteAppointment, TypeInv, AppointmentsTyped
  <2> QED
    BY <1>7, <2>2, <2>3, TypeFrame DEF CompleteAppointment, TypeInv
<1>8. CASE FinishChallenge(w)
  <2>1. [challenge[worker[w].ch] EXCEPT !.state = "completed"] \in Challenge
    BY <1>0, RecordTyped DEF TypeInv, ChallengeStatus, RedemptionState
  <2>2. ChallengesTyped' /\ RequestsTyped'
    BY <1>8, <2>1, IdlePlaced, SaveStep DEF FinishChallenge, TypeInv, ChallengesTyped
  <2> QED
    BY <1>8, <2>2, TypeFrame DEF FinishChallenge, TypeInv
<1> QED
  BY <1>1, <1>2, <1>3, <1>4, <1>5, <1>6, <1>7, <1>8

\* A completion inside a transaction, and a request that ends early.
LEMMA CommitTyped ==
  ASSUME RedemptionAssumption, TypeInv, NEW w \in Workers, CommitRedemption(w)
  PROVE  TypeInv'
<1> DEFINE lines == worker[w].todo
<1>1. worker[w].ch \in Challenges /\ lines \in SUBSET Lines
  BY RequestAt DEF CommitRedemption, At, TypeInv, HoldsChallenge, Redeeming, Worker
<1>2. [challenge[worker[w].ch] EXCEPT !.status = "verified", !.state = "completed",
                                      !.intents = @ \cup lines] \in Challenge
  <2>1. "verified" \in ChallengeStatus /\ "completed" \in RedemptionState
    BY DEF ChallengeStatus, RedemptionState
  <2> QED
    BY <1>1, <2>1, RecordTyped DEF TypeInv
<1>3. ChallengesTyped' /\ RequestsTyped'
  BY <1>2, IdlePlaced, SaveStep DEF CommitRedemption, TypeInv, ChallengesTyped
<1>4. SubscriptionsTyped'
  <2>1. Decrements(worker[w].ch, lines) \subseteq Operation
    BY <1>1 DEF Decrements, Dec, Operation
  <2>2. \A s \in Subscriptions : Cardinality(LinesOn(lines, s)) \in Nat
    BY <1>1, FS_Subset, FS_CardinalityType DEF RedemptionAssumption, LinesOn
  <2> QED
    BY <2>1, <2>2 DEF CommitRedemption, Exhaust, TypeInv, SubscriptionsTyped
<1>5. AppointmentsTyped'
  BY <1>1 DEF CommitRedemption, TypeInv, AppointmentsTyped
<1> QED
  BY <1>3, <1>4, <1>5, TypeFrame DEF CommitRedemption, TypeInv

\* A request that ends early leaves everything but itself alone.
LEMMA FailTyped ==
  ASSUME TypeInv, NEW w \in Workers, FailRequest(w) PROVE TypeInv'
<1>1. RequestsTyped'
  BY IdlePlaced, MoveTyped DEF FailRequest, TypeInv, RequestsTyped
<1> QED
  BY <1>1, TypeFrame DEF FailRequest, TypeInv

\* A pass that holds a challenge may move on to any record of this shape.
LEMMA NextPass ==
  ASSUME TypeInv, NEW s \in Sweepers
  PROVE  /\ sweeper[s].found \in SUBSET Challenges /\ sweeper[s].todo \in SUBSET Lines
         /\ \A cs \in SUBSET Challenges : Scanning(cs) \in PlacedSweeper
         /\ sweeper[s].pc \in SweepsChallenge =>
              \A ls \in SUBSET Lines, l \in Lines :
                /\ \A pc \in SweepsChallenge \ SweepsLine :
                     [sweeper[s] EXCEPT !.pc = pc] \in PlacedSweeper
                /\ [sweeper[s] EXCEPT !.pc = "inspect", !.line = NoLine, !.todo = @ \ ls]
                     \in PlacedSweeper
                /\ \A pc \in SweepsLine : [sweeper[s] EXCEPT !.pc = pc, !.line = l] \in PlacedSweeper
<1>1. /\ sweeper[s] \in Sweeper
      /\ sweeper[s].pc \in SweepsChallenge => sweeper[s].ch \in Challenges
      /\ sweeper[s].pc \in SweepsLine => sweeper[s].line \in Lines
  BY PassAt DEF TypeInv
<1>2. sweeper[s].found \in SUBSET Challenges /\ sweeper[s].todo \in SUBSET Lines
  BY <1>1 DEF Sweeper
<1>3. ASSUME sweeper[s].pc \in SweepsChallenge, NEW ls \in SUBSET Lines, NEW l \in Lines
      PROVE  /\ \A pc \in SweepsChallenge \ SweepsLine :
                  [sweeper[s] EXCEPT !.pc = pc] \in PlacedSweeper
             /\ [sweeper[s] EXCEPT !.pc = "inspect", !.line = NoLine, !.todo = @ \ ls]
                  \in PlacedSweeper
             /\ \A pc \in SweepsLine : [sweeper[s] EXCEPT !.pc = pc, !.line = l] \in PlacedSweeper
  BY <1>1, <1>3 DEF PlacedSweeper, Sweeper, SweeperPC, SweepsChallenge, SweepsLine
<1> QED
  BY <1>2, <1>3, ScanPlaced

\* Selecting and claiming candidates, and judging their appointments.
LEMMA SelectTyped ==
  ASSUME RedemptionAssumption, TypeInv, NEW s \in Sweepers,
         \/ StartSweep(s) \/ (\E c \in Challenges : ClaimForRecovery(s, c) \/ SkipCandidate(s, c))
         \/ ConfirmCompleted(s) \/ JudgeInterrupted(s) \/ FailSweep(s)
  PROVE  TypeInv'
<1> USE DEF TypeInv
<1>1. CASE StartSweep(s)
  <2>1. PassesTyped'
    BY <1>1, ScanPlaced, SweepTyped DEF StartSweep, PassesTyped
  <2> QED
    BY <1>1, <2>1, TypeFrame DEF StartSweep
<1>2. ASSUME NEW c \in Challenges, ClaimForRecovery(s, c) PROVE TypeInv'
  <2> DEFINE r == [pc |-> "judge", found |-> sweeper[s].found \ {c}, ch |-> c,
                   todo |-> challenge[c].intents, line |-> NoLine]
  <2>1. [challenge[c] EXCEPT !.state = "restoring"] \in Challenge
    BY RecordTyped DEF ChallengeStatus, RedemptionState
  <2>2. ChallengesTyped'
    BY <1>2, <2>1, WriteTyped DEF ClaimForRecovery, ChallengesTyped
  <2>3. challenge[c].intents \in SUBSET Lines /\ sweeper[s].found \in SUBSET Challenges
    BY NextPass DEF ChallengesTyped, Challenge
  <2>4. r \in PlacedSweeper
    BY <2>3 DEF PlacedSweeper, Sweeper, SweeperPC, SweepsChallenge, SweepsLine
  <2>5. PassesTyped'
    BY <1>2, <2>4, SweepTyped DEF ClaimForRecovery, PassesTyped
  <2> QED
    BY <1>2, <2>2, <2>5, TypeFrame DEF ClaimForRecovery
<1>3. ASSUME NEW c \in Challenges, SkipCandidate(s, c) PROVE TypeInv'
  <2>1. Scanning(sweeper[s].found \ {c}) \in PlacedSweeper
    BY NextPass
  <2>2. PassesTyped'
    BY <1>3, <2>1, SweepTyped DEF SkipCandidate, PassesTyped
  <2> QED
    BY <1>3, <2>2, TypeFrame DEF SkipCandidate
<1>4. CASE ConfirmCompleted(s)
  <2>1. sweeper[s].ch \in Challenges
    BY <1>4, PassAt DEF ConfirmCompleted, SweepAt, SweepsChallenge
  <2>2. [challenge[sweeper[s].ch] EXCEPT !.status = "verified", !.state = "completed"] \in Challenge
    BY <2>1, RecordTyped DEF ChallengeStatus, RedemptionState
  <2>3. ChallengesTyped'
    BY <1>4, <2>2, WriteTyped DEF ConfirmCompleted, ChallengesTyped
  <2>4. PassesTyped'
    BY <1>4, NextPass, SweepTyped DEF ConfirmCompleted, PassesTyped
  <2> QED
    BY <1>4, <2>3, <2>4, TypeFrame DEF ConfirmCompleted
<1>5. CASE JudgeInterrupted(s)
  <2>1. [sweeper[s] EXCEPT !.pc = "inspect"] \in PlacedSweeper
    <3>1. sweeper[s] \in Sweeper /\ sweeper[s].ch \in Challenges
      BY <1>5, PassAt DEF JudgeInterrupted, SweepAt, SweepsChallenge
    <3> QED
      BY <3>1 DEF PlacedSweeper, Sweeper, SweeperPC, SweepsChallenge, SweepsLine
  <2>2. PassesTyped'
    BY <1>5, <2>1, SweepTyped DEF JudgeInterrupted, PassesTyped
  <2> QED
    BY <1>5, <2>2, TypeFrame DEF JudgeInterrupted
<1>6. CASE FailSweep(s)
  <2>1. failures' \in 0 .. SweepFailures
    BY <1>6 DEF FailSweep, PassesTyped, RedemptionAssumption
  <2>2. PassesTyped'
    BY <1>6, <2>1, ScanPlaced, SweepTyped DEF FailSweep
  <2> QED
    BY <1>6, <2>2, TypeFrame DEF FailSweep
<1> QED
  BY <1>1, <1>2, <1>3, <1>4, <1>5, <1>6

\* Undoing the lines of an interrupted completion and closing its challenge.
LEMMA RepairTyped ==
  ASSUME RedemptionAssumption, TypeInv, NEW s \in Sweepers,
         \/ (\E l \in Lines : InspectLine(s, l)) \/ FenceOperation(s) \/ RestoreBalance(s)
         \/ CleanupUsages(s) \/ CloseReconciled(s)
  PROVE  TypeInv'
<1> USE DEF TypeInv
<1>0. sweeper[s] \in Sweeper /\ sweeper[s].ch \in Challenges /\ sweeper[s].pc \in SweepsChallenge
  BY PassAt DEF InspectLine, FenceOperation, RestoreBalance, CleanupUsages, CloseReconciled,
     SweepAt, SweepsChallenge
<1>a. ASSUME LineDone(s), sweeper[s].line \in Lines, UNCHANGED failures,
             UNCHANGED <<challenge, expired, lapsed>>
      PROVE  ChallengesTyped' /\ PassesTyped'
  <2>1. [sweeper[s] EXCEPT !.pc = "inspect", !.line = NoLine, !.todo = @ \ {sweeper[s].line}]
          \in PlacedSweeper
    BY <1>0 DEF PlacedSweeper, Sweeper, SweeperPC, SweepsChallenge, SweepsLine
  <2>2. PassesTyped'
    BY <1>a, <2>1, SweepTyped DEF LineDone, PassesTyped
  <2> QED
    BY <1>a, <2>2 DEF LineDone, ChallengesTyped
<1>1. ASSUME NEW l \in Lines, InspectLine(s, l) PROVE TypeInv'
  <2>1. /\ [sweeper[s] EXCEPT !.todo = @ \ {l}] \in PlacedSweeper
        /\ [sweeper[s] EXCEPT !.pc = "restore", !.line = l] \in PlacedSweeper
        /\ [sweeper[s] EXCEPT !.pc = "fence", !.line = l] \in PlacedSweeper
    BY <1>0, <1>1 DEF InspectLine, SweepAt, PlacedSweeper, Sweeper, SweeperPC, SweepsChallenge,
       SweepsLine
  <2>2. PassesTyped'
    BY <1>1, <2>1, SweepTyped DEF InspectLine, PassesTyped
  <2> QED
    BY <1>1, <2>2, TypeFrame DEF InspectLine
<1>2. CASE FenceOperation(s)
  <2>1. sweeper[s].line \in Lines
    BY <1>2, PassAt DEF FenceOperation, SweepAt, SweepsLine
  <2>2. ChallengesTyped' /\ PassesTyped'
    BY <1>a, <1>2, <2>1 DEF FenceOperation
  <2>3. SubscriptionsTyped'
    BY <1>0, <1>2, <2>1 DEF FenceOperation, SubscriptionsTyped, Fence, Operation
  <2> QED
    BY <1>2, <2>2, <2>3, TypeFrame DEF FenceOperation
<1>3. CASE RestoreBalance(s)
  <2>1. sweeper[s].line \in Lines
    BY <1>3, PassAt DEF RestoreBalance, SweepAt, SweepsLine
  <2>2. ChallengesTyped' /\ PassesTyped'
    BY <1>a, <1>3, <2>1 DEF RestoreBalance
  <2>3. SubscriptionsTyped'
    BY <1>0, <1>3, <2>1 DEF RestoreBalance, UnitsToRestore, SubscriptionsTyped, Restore, Operation
  <2> QED
    BY <1>3, <2>2, <2>3, TypeFrame DEF RestoreBalance
<1>4. CASE CleanupUsages(s)
  <2>1. [sweeper[s] EXCEPT !.pc = "close"] \in PlacedSweeper
    BY <1>0 DEF PlacedSweeper, Sweeper, SweeperPC, SweepsChallenge, SweepsLine
  <2>2. PassesTyped'
    BY <1>4, <2>1, SweepTyped DEF CleanupUsages, PassesTyped
  <2>3. AppointmentsTyped'
    BY <1>4 DEF CleanupUsages, AppointmentsTyped, apptVars
  <2> QED
    BY <1>4, <2>2, <2>3, TypeFrame DEF CleanupUsages
<1>5. CASE CloseReconciled(s)
  <2>1. [challenge[sweeper[s].ch] EXCEPT !.status = "exhausted", !.state = "reconciled"]
          \in Challenge
    BY <1>0, RecordTyped DEF ChallengeStatus, RedemptionState
  <2>2. ChallengesTyped'
    BY <1>5, <2>1, WriteTyped DEF CloseReconciled, ChallengesTyped
  <2>3. PassesTyped'
    BY <1>5, NextPass, SweepTyped DEF CloseReconciled, PassesTyped
  <2> QED
    BY <1>5, <2>2, <2>3, TypeFrame DEF CloseReconciled
<1> QED
  BY <1>1, <1>2, <1>3, <1>4, <1>5

\* Cancellations and the passing of time.
LEMMA OutsideTyped ==
  ASSUME RedemptionAssumption, TypeInv,
         \/ \E a \in Appointments : CancelStep(a)
         \/ \E c \in Challenges : TimeStep(c) \/ DeleteExpired(c)
  PROVE  TypeInv'
<1> USE DEF TypeInv
<1>1. ASSUME NEW a \in Appointments, CancelStep(a) PROVE TypeInv'
  <2>1. AppointmentsTyped'
    BY <1>1 DEF CancelStep, ReadForCancel, WriteCancelled, AppointmentsTyped
  <2> QED
    BY <1>1, <2>1, TypeFrame DEF CancelStep, ReadForCancel, WriteCancelled
<1>2. ASSUME NEW c \in Challenges, TimeStep(c) PROVE TypeInv'
  <2>1. ChallengesTyped'
    BY <1>2 DEF TimeStep, Expire, GrowQuiet, LeaseLapses, ChallengesTyped
  <2> QED
    BY <1>2, <2>1, TypeFrame DEF TimeStep, Expire, GrowQuiet, LeaseLapses
<1>3. ASSUME NEW c \in Challenges, DeleteExpired(c) PROVE TypeInv'
  <2>1. ChallengesTyped'
    BY <1>3, RecordTyped DEF DeleteExpired, ChallengesTyped
  <2> QED
    BY <1>3, <2>1, TypeFrame DEF DeleteExpired
<1> QED
  BY <1>1, <1>2, <1>3

\* Every action keeps the types.
LEMMA StepTyped == RedemptionAssumption /\ TypeInv /\ [Next]_vars => TypeInv'
<1> SUFFICES ASSUME RedemptionAssumption, TypeInv, [Next]_vars PROVE TypeInv'
  OBVIOUS
<1>1. ASSUME NEW w \in Workers, NewRequest(w) \/ RequestStep(w) PROVE TypeInv'
  BY <1>1, IssueTyped, ClaimTyped, StandaloneTyped, CommitTyped, FailTyped
     DEF NewRequest, RequestStep
<1>2. ASSUME NEW s \in Sweepers, SweepStep(s) \/ FailSweep(s) PROVE TypeInv'
  BY <1>2, SelectTyped, RepairTyped DEF SweepStep
<1>3. ASSUME NEW a \in Appointments, CancelStep(a) PROVE TypeInv'
  BY <1>3, OutsideTyped
<1>4. ASSUME NEW c \in Challenges, TimeStep(c) \/ DeleteExpired(c) PROVE TypeInv'
  BY <1>4, OutsideTyped
<1>5. CASE UNCHANGED vars
  BY <1>5, TypeFrame DEF vars, TypeInv
<1> QED
  BY <1>1, <1>2, <1>3, <1>4, <1>5 DEF Next

\* Every variable keeps to its kind in every behaviour of the redemption protocol.
THEOREM TypeCorrect == Spec => []TypeOK
<1>1. Spec => []TypeInv
  <2>1. Init => TypeInv
    BY InitTypeInv, RedemptionAssumption
  <2>2. TypeInv /\ [Next]_vars => TypeInv'
    BY StepTyped, RedemptionAssumption
  <2> QED
    BY <2>1, <2>2, PTL DEF Spec
<1> QED
  BY <1>1, TypeInvTypeOK, PTL

-----------------------------------------------------------------------------
(* One redeemer per challenge.  SingleRedeemer is inductive once a challenge *)
(* in the hands of a request is known to have left "pending" for good. *)

Claimed(c) == challenge[c].status \notin {"absent", "pending"}

RedeemerInv ==
  /\ SingleRedeemer
  /\ \A w \in Workers : worker[w].pc \in Redeeming => Claimed(worker[w].ch)

\* Whichever way a record is written, a claimed challenge stays claimed if the
\* record is that of a claimed challenge.
LEMMA WriteClaimed ==
  ASSUME TypeInv, NEW d \in Challenges, NEW rec,
         Update(d, rec) \/ \E w \in Workers : worker[w].ch = d /\ Save(w, rec),
         Claimed(d) => rec.status \notin {"absent", "pending"}
  PROVE  \A c \in Challenges : Claimed(c) => Claimed(c)'
  BY DEF TypeInv, ChallengesTyped, Update, Save, Claimed

\* No step makes a claimed challenge claimable again.
LEMMA ClaimedForGood ==
  ASSUME RedemptionAssumption, TypeInv, [Next]_vars
  PROVE  \A c \in Challenges : Claimed(c) => Claimed(c)'
<1> USE DEF TypeInv
<1>1. ASSUME UNCHANGED challenge PROVE \A c \in Challenges : Claimed(c) => Claimed(c)'
  BY <1>1 DEF Claimed
<1>2. ASSUME NEW w \in Workers, NewRequest(w)
      PROVE  \A c \in Challenges : Claimed(c) => Claimed(c)'
  BY <1>1, <1>2 DEF NewRequest, RequestOtp, LoadChallenge, challengeVars
<1>3. ASSUME NEW w \in Workers, RequestStep(w)
      PROVE  \A c \in Challenges : Claimed(c) => Claimed(c)'
  <2>1. ASSUME NEW d \in Challenges, CreateChallenge(w, d)
        PROVE  \A c \in Challenges : Claimed(c) => Claimed(c)'
    BY <2>1 DEF CreateChallenge, ChallengesTyped, Claimed
  <2>2. CASE ResendChallenge(w)
    <3>1. worker[w].ch \in Challenges /\ challenge[worker[w].ch] \in Challenge
      BY <2>2, RequestAt DEF ResendChallenge, Worker, ChallengesTyped
    <3>2. Resent(challenge[worker[w].ch]).status = challenge[worker[w].ch].status
      BY <3>1 DEF Resent, Challenge
    <3> QED
      BY <2>2, <3>1, <3>2, WriteClaimed DEF ResendChallenge, Claimed
  <2>3. ASSUME SaveExpired(w) \/ SaveAttempt(w) \/ ClaimChallenge(w)
        PROVE  \A c \in Challenges : Claimed(c) => Claimed(c)'
    <3>1. worker[w].ch \in Challenges /\ challenge[worker[w].ch] \in Challenge
      BY <2>3, RequestAt DEF SaveExpired, SaveAttempt, ClaimChallenge, At, HoldsChallenge,
         ChallengesTyped
    <3>2. /\ [challenge[worker[w].ch] EXCEPT !.status = "expired"].status = "expired"
          /\ [challenge[worker[w].ch] EXCEPT !.status = "in_redemption"].status = "in_redemption"
          /\ AfterWrongCode(challenge[worker[w].ch]).status
               \in {"exhausted", challenge[worker[w].ch].status}
      BY <3>1 DEF AfterWrongCode, Challenge
    <3> QED
      BY <2>3, <3>1, <3>2, WriteClaimed DEF SaveExpired, SaveAttempt, ClaimChallenge, Claimed
  <2>4. ASSUME \/ MarkVerified(w) \/ Acknowledge(w) \/ FinishChallenge(w) \/ CommitRedemption(w)
               \/ \E l \in Lines : RecordIntent(w, l)
        PROVE  \A c \in Challenges : Claimed(c) => Claimed(c)'
    <3> DEFINE old == challenge[worker[w].ch]
    <3>1. worker[w].ch \in Challenges /\ old \in Challenge
      BY <2>4, RequestAt DEF MarkVerified, Acknowledge, FinishChallenge, CommitRedemption,
         RecordIntent, At, HoldsChallenge, Redeeming, ChallengesTyped
    <3>2. /\ [old EXCEPT !.status = "verified"].status = "verified"
          /\ [old EXCEPT !.state = "decremented"].status = old.status
          /\ [old EXCEPT !.state = "completed"].status = old.status
          /\ [old EXCEPT !.status = "verified", !.state = "completed",
                         !.intents = @ \cup worker[w].todo].status = "verified"
          /\ \A l \in Lines : [old EXCEPT !.intents = @ \cup {l},
                                          !.state = "in_redemption"].status = old.status
      BY <3>1 DEF Challenge
    <3> QED
      BY <2>4, <3>1, <3>2, WriteClaimed DEF MarkVerified, Acknowledge, FinishChallenge,
         CommitRedemption, RecordIntent, Claimed
  <2>5. ASSUME \/ Decrement(w) \/ RecordUsage(w) \/ MarkExhausted(w) \/ CompleteAppointment(w)
               \/ FailRequest(w)
        PROVE  \A c \in Challenges : Claimed(c) => Claimed(c)'
    BY <1>1, <2>5 DEF Decrement, RecordUsage, MarkExhausted, CompleteAppointment, FailRequest,
       challengeVars
  <2> QED
    BY <1>3, <2>1, <2>2, <2>3, <2>4, <2>5 DEF RequestStep
<1>4. ASSUME NEW s \in Sweepers, SweepStep(s) \/ FailSweep(s)
      PROVE  \A c \in Challenges : Claimed(c) => Claimed(c)'
  <2>1. ASSUME NEW d \in Challenges, ClaimForRecovery(s, d)
        PROVE  \A c \in Challenges : Claimed(c) => Claimed(c)'
    <3>1. [challenge[d] EXCEPT !.state = "restoring"].status = challenge[d].status
      BY DEF ChallengesTyped, Challenge
    <3> QED
      BY <2>1, <3>1, WriteClaimed DEF ClaimForRecovery, Claimed
  <2>2. ASSUME ConfirmCompleted(s) \/ CloseReconciled(s)
        PROVE  \A c \in Challenges : Claimed(c) => Claimed(c)'
    <3> DEFINE old == challenge[sweeper[s].ch]
    <3>1. sweeper[s].ch \in Challenges /\ old \in Challenge
      BY <2>2, PassAt DEF ConfirmCompleted, CloseReconciled, SweepAt, SweepsChallenge,
         ChallengesTyped
    <3>2. /\ [old EXCEPT !.status = "verified", !.state = "completed"].status = "verified"
          /\ [old EXCEPT !.status = "exhausted", !.state = "reconciled"].status = "exhausted"
      BY <3>1 DEF Challenge
    <3> QED
      BY <2>2, <3>1, <3>2, WriteClaimed DEF ConfirmCompleted, CloseReconciled
  <2>3. ASSUME \/ StartSweep(s) \/ JudgeInterrupted(s) \/ FenceOperation(s) \/ RestoreBalance(s)
               \/ CleanupUsages(s) \/ FailSweep(s) \/ (\E l \in Lines : InspectLine(s, l))
               \/ (\E c \in Challenges : SkipCandidate(s, c))
        PROVE  UNCHANGED challenge
    BY <2>3 DEF StartSweep, JudgeInterrupted, FenceOperation, RestoreBalance, CleanupUsages,
       FailSweep, InspectLine, SkipCandidate, challengeVars
  <2> QED
    BY <1>1, <1>4, <2>1, <2>2, <2>3 DEF SweepStep
<1>5. ASSUME NEW a \in Appointments, CancelStep(a)
      PROVE  \A c \in Challenges : Claimed(c) => Claimed(c)'
  BY <1>1, <1>5 DEF CancelStep, ReadForCancel, WriteCancelled, challengeVars
<1>6. ASSUME NEW d \in Challenges, TimeStep(d) \/ DeleteExpired(d)
      PROVE  \A c \in Challenges : Claimed(c) => Claimed(c)'
  <2>1. CASE TimeStep(d)
    BY <1>1, <2>1 DEF TimeStep, Expire, GrowQuiet, LeaseLapses
  <2>2. CASE DeleteExpired(d)
    <3>1. [AbsentChallenge EXCEPT !.status = "deleted",
                                  !.appt = challenge[d].appt].status = "deleted"
      BY DEF AbsentChallenge
    <3> QED
      BY <2>2, <3>1 DEF DeleteExpired, ChallengesTyped, Claimed
  <2> QED
    BY <1>6, <2>1, <2>2
<1>7. CASE UNCHANGED vars
  BY <1>1, <1>7 DEF vars, challengeVars
<1> QED
  BY <1>2, <1>3, <1>4, <1>5, <1>6, <1>7 DEF Next

\* A request gets past the claim only by the compare-and-set, and then keeps the
\* same challenge to its end.
LEMMA EntersByClaim ==
  ASSUME RedemptionAssumption, TypeInv, [Next]_vars
  PROVE  \/ /\ worker' = worker
         \/ \E w \in Workers :
              /\ \A v \in Workers \ {w} : worker'[v] = worker[v]
              /\ worker'[w].pc \in Redeeming =>
                   /\ worker'[w].ch = worker[w].ch
                   /\ worker[w].ch \in Challenges
                   /\ \/ worker[w].pc \in Redeeming
                      \/ challenge[worker[w].ch].status = "pending" /\ Claimed(worker[w].ch)'
<1> DEFINE Mover(w) ==
             /\ \A v \in Workers \ {w} : worker'[v] = worker[v]
             /\ worker'[w].pc \in Redeeming =>
                  /\ worker'[w].ch = worker[w].ch
                  /\ worker[w].ch \in Challenges
                  /\ \/ worker[w].pc \in Redeeming
                     \/ challenge[worker[w].ch].status = "pending" /\ Claimed(worker[w].ch)'
<1> USE DEF TypeInv
<1>a. ASSUME NEW w \in Workers PROVE worker \in [Workers -> Worker] /\ worker[w] \in Worker
  BY DEF RequestsTyped, PlacedWorker
<1>1. ASSUME NEW w \in Workers, NewRequest(w) PROVE Mover(w)
  <2>1. ASSUME NEW r, Goto(w, r), r.pc \in {"issue", "expire", "reject", "claim"} PROVE Mover(w)
    BY <1>a, <2>1 DEF Goto, Redeeming
  <2>2. ASSUME NEW a \in Appointments, RequestOtp(w, a) PROVE Mover(w)
    <3>1. \A c : [IdleWorker EXCEPT !.pc = "issue", !.ch = c, !.appt = a].pc = "issue"
      BY DEF IdleWorker
    <3> QED
      BY <2>1, <2>2, <3>1 DEF RequestOtp
  <2>3. ASSUME NEW c \in Challenges, LoadChallenge(w, c) PROVE Mover(w)
    BY <2>1, <2>3 DEF LoadChallenge
  <2> QED
    BY <1>1, <2>2, <2>3 DEF NewRequest
<1>2. ASSUME NEW w \in Workers, RequestStep(w) PROVE Mover(w)
  <2>1. ASSUME Goto(w, IdleWorker) PROVE Mover(w)
    BY <1>a, <2>1 DEF Goto, IdleWorker, Redeeming
  <2>2. CASE ClaimChallenge(w)
    <3>1. worker[w].ch \in Challenges /\ challenge[worker[w].ch] \in Challenge
      BY <2>2, RequestAt DEF ClaimChallenge, At, HoldsChallenge, ChallengesTyped
    <3>2. [challenge[worker[w].ch] EXCEPT !.status = "in_redemption"].status = "in_redemption"
      BY <3>1 DEF Challenge
    <3>3. challenge' = [challenge EXCEPT ![worker[w].ch] =
                          [challenge[worker[w].ch] EXCEPT !.status = "in_redemption"]]
      BY <2>2 DEF ClaimChallenge, Update, Exists
    <3>4. worker'[w].ch = worker[w].ch
      BY <1>a, <2>2 DEF ClaimChallenge, Goto, Worker
    <3>5. Claimed(worker[w].ch)'
      BY <3>1, <3>2, <3>3, <3>4 DEF Claimed, ChallengesTyped
    <3> QED
      BY <1>a, <2>2, <3>1, <3>4, <3>5 DEF ClaimChallenge, Goto
  <2>3. ASSUME \/ MarkVerified(w) \/ (\E l \in Lines : RecordIntent(w, l)) \/ Decrement(w)
               \/ Acknowledge(w) \/ RecordUsage(w) \/ MarkExhausted(w) \/ CompleteAppointment(w)
        PROVE  Mover(w)
    <3>1. worker[w].pc \in Redeeming /\ worker[w].ch \in Challenges
      BY <2>3, RequestAt DEF MarkVerified, RecordIntent, Decrement, Acknowledge, RecordUsage,
         MarkExhausted, CompleteAppointment, At, HoldsChallenge, Redeeming
    <3>2. \A pc, l, ls : /\ [worker[w] EXCEPT !.pc = pc].ch = worker[w].ch
                         /\ [worker[w] EXCEPT !.pc = pc, !.line = l].ch = worker[w].ch
                         /\ [worker[w] EXCEPT !.pc = pc, !.line = l, !.todo = @ \ ls].ch
                              = worker[w].ch
      BY <1>a DEF Worker
    <3>3. ASSUME NEW r, Goto(w, r), r.ch = worker[w].ch PROVE Mover(w)
      BY <1>a, <3>1, <3>3 DEF Goto
    <3>4. ASSUME NEW pc, Goto(w, [worker[w] EXCEPT !.pc = pc]) PROVE Mover(w)
      BY <3>2, <3>3, <3>4
    <3>5. ASSUME NEW l \in Lines, RecordIntent(w, l) PROVE Mover(w)
      BY <3>2, <3>3, <3>5 DEF RecordIntent
    <3>6. CASE RecordUsage(w)
      <4> DEFINE r == [worker[w] EXCEPT !.pc = "lines", !.line = NoLine,
                                        !.todo = @ \ {worker[w].line}]
      <4>1. Goto(w, r) /\ r.ch = worker[w].ch
        BY <1>a, <3>6 DEF RecordUsage, Worker
      <4> QED
        BY <3>3, <4>1
    <3> QED
      BY <2>3, <3>4, <3>5, <3>6 DEF MarkVerified, Decrement, Acknowledge, MarkExhausted,
         CompleteAppointment
  <2> QED
    BY <1>2, <2>1, <2>2, <2>3 DEF RequestStep, CreateChallenge, ResendChallenge, SaveExpired,
       SaveAttempt, FinishChallenge, CommitRedemption, FailRequest
<1>3. ASSUME NEW s \in Sweepers, SweepStep(s) \/ FailSweep(s) PROVE worker' = worker
  BY <1>3 DEF SweepStep, FailSweep, StartSweep, ClaimForRecovery, SkipCandidate,
     ConfirmCompleted, JudgeInterrupted, InspectLine, FenceOperation, RestoreBalance,
     CleanupUsages, CloseReconciled, requestVars
<1>4. ASSUME NEW a \in Appointments, CancelStep(a) PROVE worker' = worker
  BY <1>4 DEF CancelStep, ReadForCancel, WriteCancelled, requestVars
<1>5. ASSUME NEW c \in Challenges, TimeStep(c) \/ DeleteExpired(c) PROVE worker' = worker
  BY <1>5 DEF TimeStep, Expire, GrowQuiet, LeaseLapses, DeleteExpired, requestVars
<1>6. CASE UNCHANGED vars
  BY <1>6 DEF vars, requestVars
<1> QED
  BY <1>1, <1>2, <1>3, <1>4, <1>5, <1>6 DEF Next

\* Every action keeps the invariant: requests enter one at a time, through "pending".
LEMMA StepRedeemer ==
  ASSUME RedemptionAssumption, TypeInv, TypeInv', RedeemerInv, [Next]_vars
  PROVE  RedeemerInv'
<1> DEFINE c(w) == worker[w].ch
<1>1. \A d \in Challenges : Claimed(d) => Claimed(d)'
  BY ClaimedForGood
<1>2. \A w \in Workers : worker[w].pc \in Redeeming => c(w) \in Challenges
  BY RequestAt DEF TypeInv, HoldsChallenge
<1>3. CASE worker' = worker
  BY <1>1, <1>2, <1>3 DEF RedeemerInv, SingleRedeemer, Claimed
<1>4. ASSUME NEW w \in Workers,
             \A v \in Workers \ {w} : worker'[v] = worker[v],
             worker'[w].pc \in Redeeming =>
               /\ worker'[w].ch = worker[w].ch
               /\ worker[w].ch \in Challenges
               /\ \/ worker[w].pc \in Redeeming
                  \/ challenge[worker[w].ch].status = "pending" /\ Claimed(worker[w].ch)'
      PROVE  RedeemerInv'
  <2>1. ASSUME NEW v \in Workers, worker'[v].pc \in Redeeming
        PROVE  (challenge[worker[v].ch].status \notin {"absent", "pending"})'
    BY <1>1, <1>2, <1>4, <2>1 DEF RedeemerInv, Claimed
  <2>2. ASSUME NEW v \in Workers, v # w, worker'[v].pc \in Redeeming, worker'[w].pc \in Redeeming
        PROVE  worker'[v].ch # worker'[w].ch
    BY <1>2, <1>4, <2>2 DEF RedeemerInv, SingleRedeemer, Claimed
  <2>3. SingleRedeemer'
    BY <1>4, <2>2 DEF RedeemerInv, SingleRedeemer
  <2> QED
    BY <2>1, <2>3 DEF RedeemerInv, Claimed
<1> QED
  BY <1>3, <1>4, EntersByClaim

\* At most one request at a time, and none after another, redeems a challenge.
THEOREM OneRedeemer == Spec => []SingleRedeemer
<1>1. Init => TypeInv /\ RedeemerInv
  <2>1. Init => RedeemerInv
    BY DEF Init, RedeemerInv, SingleRedeemer, IdleWorker, Redeeming
  <2> QED
    BY <2>1, InitTypeInv, RedemptionAssumption
<1>2. TypeInv /\ RedeemerInv /\ [Next]_vars => (TypeInv /\ RedeemerInv)'
  BY StepTyped, StepRedeemer, RedemptionAssumption
<1>3. RedeemerInv => SingleRedeemer
  BY DEF RedeemerInv
<1> QED
  BY <1>1, <1>2, <1>3, PTL DEF Spec

-----------------------------------------------------------------------------
(* The ledger.  A pass gives a unit back only after it has seen the decrement *)
(* in appliedOperations, which never forgets: so a restoration always follows *)
(* a decrement of the same operation.                                         *)

OperationInv ==
  /\ \A c \in Challenges, l \in Lines : Restore(c, l) \in applied => Dec(c, l) \in applied
  /\ \A s \in Sweepers : SweepAt(s, "restore") => Dec(sweeper[s].ch, sweeper[s].line) \in applied

\* Operation identities of different kinds, challenges or lines are different.
LEMMA OperationsDiffer ==
  \A c, d, l, m : /\ Dec(c, l) # Restore(d, m) /\ Dec(c, l) # Fence(d, m)
                  /\ Fence(c, l) # Restore(d, m)
                  /\ Dec(c, l) = Dec(d, m) => c = d /\ l = m
                  /\ Fence(c, l) = Fence(d, m) => c = d /\ l = m
                  /\ Restore(c, l) = Restore(d, m) => c = d /\ l = m
  BY DEF Dec, Fence, Restore

\* The only steps that touch the balance or the operations: the rest leave the
\* ledger alone.
LEMMA LedgerSteps ==
  ASSUME TypeInv, [Next]_vars
  PROVE  \/ UNCHANGED <<remaining, applied>>
         \/ \E w \in Workers : Decrement(w) \/ CommitRedemption(w)
         \/ \E s \in Sweepers : FenceOperation(s) \/ RestoreBalance(s)
<1>1. ASSUME NEW w \in Workers, NewRequest(w) \/ RequestStep(w)
      PROVE  Decrement(w) \/ CommitRedemption(w) \/ UNCHANGED <<remaining, applied>>
  BY <1>1 DEF NewRequest, RequestStep, RequestOtp, CreateChallenge, ResendChallenge,
     LoadChallenge, SaveExpired, SaveAttempt, ClaimChallenge, MarkVerified, RecordIntent,
     Acknowledge, RecordUsage, MarkExhausted, CompleteAppointment, FinishChallenge, FailRequest,
     subscriptionVars
<1>2. ASSUME NEW s \in Sweepers, SweepStep(s) \/ FailSweep(s)
      PROVE  FenceOperation(s) \/ RestoreBalance(s) \/ UNCHANGED <<remaining, applied>>
  BY <1>2 DEF SweepStep, FailSweep, StartSweep, ClaimForRecovery, SkipCandidate,
     ConfirmCompleted, JudgeInterrupted, InspectLine, CleanupUsages, CloseReconciled,
     subscriptionVars
<1>3. ASSUME NEW a \in Appointments, CancelStep(a) PROVE UNCHANGED <<remaining, applied>>
  BY <1>3 DEF CancelStep, ReadForCancel, WriteCancelled, subscriptionVars
<1>4. ASSUME NEW c \in Challenges, TimeStep(c) \/ DeleteExpired(c)
      PROVE  UNCHANGED <<remaining, applied>>
  BY <1>4 DEF TimeStep, Expire, GrowQuiet, LeaseLapses, DeleteExpired, subscriptionVars
<1>5. CASE UNCHANGED vars
  BY <1>5 DEF vars, subscriptionVars
<1> QED
  BY <1>1, <1>2, <1>3, <1>4, <1>5 DEF Next

\* appliedOperations never forgets, and gains only these.
LEMMA AppliedGrows ==
  ASSUME TypeInv, OperationInv, [Next]_vars
  PROVE  /\ applied \subseteq applied'
         /\ \A c \in Challenges, l \in Lines :
              Restore(c, l) \in applied' => Restore(c, l) \in applied \/ Dec(c, l) \in applied
<1>1. ASSUME NEW w \in Workers, Decrement(w) \/ CommitRedemption(w)
      PROVE  /\ applied \subseteq applied'
             /\ \A c \in Challenges, l \in Lines :
                  Restore(c, l) \in applied' => Restore(c, l) \in applied
  BY <1>1, OperationsDiffer DEF Decrement, CommitRedemption, Decrements
<1>2. ASSUME NEW s \in Sweepers, FenceOperation(s)
      PROVE  /\ applied \subseteq applied'
             /\ \A c \in Challenges, l \in Lines :
                  Restore(c, l) \in applied' => Restore(c, l) \in applied
  BY <1>2, OperationsDiffer DEF FenceOperation
<1>3. ASSUME NEW s \in Sweepers, RestoreBalance(s)
      PROVE  /\ applied \subseteq applied'
             /\ \A c \in Challenges, l \in Lines :
                  Restore(c, l) \in applied' => Restore(c, l) \in applied \/ Dec(c, l) \in applied
  BY <1>3, OperationsDiffer DEF RestoreBalance, OperationInv
<1> QED
  BY <1>1, <1>2, <1>3, LedgerSteps

\* A pass comes to restore a line only by seeing its decrement.
LEMMA RestoresWhatItSaw ==
  ASSUME TypeInv, OperationInv, [Next]_vars, NEW s \in Sweepers, SweepAt(s, "restore")'
  PROVE  Dec(sweeper'[s].ch, sweeper'[s].line) \in applied
<1> USE DEF TypeInv
<1>a. sweeper \in [Sweepers -> Sweeper]
  BY DEF PassesTyped, PlacedSweeper
<1>1. CASE sweeper' = sweeper
  BY <1>1 DEF OperationInv, SweepAt
<1>2. ASSUME NEW t \in Sweepers, NEW r, GotoSweep(t, r), r.pc # "restore"
      PROVE  Dec(sweeper'[s].ch, sweeper'[s].line) \in applied
  BY <1>a, <1>2 DEF OperationInv, SweepAt, GotoSweep
<1>3. ASSUME NEW t \in Sweepers, NEW l \in Lines, InspectLine(t, l)
      PROVE  Dec(sweeper'[s].ch, sweeper'[s].line) \in applied
  <2>1. sweeper[t] \in Sweeper /\ sweeper[t].pc = "inspect"
    BY <1>a, <1>3 DEF InspectLine, SweepAt
  <2>2. CASE GotoSweep(t, [sweeper[t] EXCEPT !.todo = @ \ {l}])
    <3>1. [sweeper[t] EXCEPT !.todo = @ \ {l}].pc # "restore"
      BY <2>1 DEF Sweeper
    <3> QED
      BY <1>2, <2>2, <3>1
  <2>3. CASE GotoSweep(t, [sweeper[t] EXCEPT !.pc = "fence", !.line = l])
    <3>1. [sweeper[t] EXCEPT !.pc = "fence", !.line = l].pc # "restore"
      BY <2>1 DEF Sweeper
    <3> QED
      BY <1>2, <2>3, <3>1
  <2>4. CASE /\ GotoSweep(t, [sweeper[t] EXCEPT !.pc = "restore", !.line = l])
             /\ Committed(sweeper[t].ch, l)
    <3>1. /\ [sweeper[t] EXCEPT !.pc = "restore", !.line = l].ch = sweeper[t].ch
          /\ [sweeper[t] EXCEPT !.pc = "restore", !.line = l].line = l
      BY <2>1 DEF Sweeper
    <3> QED
      BY <1>a, <2>4, <3>1 DEF GotoSweep, Committed, OperationInv, SweepAt
  <2> QED
    BY <1>3, <2>2, <2>3, <2>4 DEF InspectLine
<1>4. ASSUME NEW t \in Sweepers, SweepStep(t) \/ FailSweep(t)
      PROVE  Dec(sweeper'[s].ch, sweeper'[s].line) \in applied
  <2>1. ASSUME NEW cs, GotoSweep(t, Scanning(cs))
        PROVE  Dec(sweeper'[s].ch, sweeper'[s].line) \in applied
    BY <1>2, <2>1 DEF Scanning
  <2>2. ASSUME NEW c \in Challenges, ClaimForRecovery(t, c)
        PROVE  Dec(sweeper'[s].ch, sweeper'[s].line) \in applied
    BY <1>2, <2>2 DEF ClaimForRecovery
  <2>3. CASE JudgeInterrupted(t) \/ CleanupUsages(t)
    <3>1. /\ [sweeper[t] EXCEPT !.pc = "inspect"].pc = "inspect"
          /\ [sweeper[t] EXCEPT !.pc = "close"].pc = "close"
      BY <1>a DEF Sweeper
    <3> QED
      BY <1>2, <2>3, <3>1 DEF JudgeInterrupted, CleanupUsages
  <2>4. CASE FenceOperation(t) \/ RestoreBalance(t)
    <3>1. [sweeper[t] EXCEPT !.pc = "inspect", !.line = NoLine,
                             !.todo = @ \ {sweeper[t].line}].pc = "inspect"
      BY <1>a DEF Sweeper
    <3> QED
      BY <1>2, <2>4, <3>1 DEF FenceOperation, RestoreBalance, LineDone
  <2> QED
    BY <1>3, <1>4, <2>1, <2>2, <2>3, <2>4 DEF SweepStep, StartSweep, SkipCandidate,
       ConfirmCompleted, CloseReconciled, FailSweep
<1>5. ASSUME NEW w \in Workers, NewRequest(w) \/ RequestStep(w) PROVE sweeper' = sweeper
  BY <1>5 DEF NewRequest, RequestStep, RequestOtp, CreateChallenge, ResendChallenge,
     LoadChallenge, SaveExpired, SaveAttempt, ClaimChallenge, MarkVerified, RecordIntent,
     Decrement, Acknowledge, RecordUsage, MarkExhausted, CompleteAppointment, FinishChallenge,
     CommitRedemption, FailRequest, sweepVars
<1>6. ASSUME NEW a \in Appointments, CancelStep(a) PROVE sweeper' = sweeper
  BY <1>6 DEF CancelStep, ReadForCancel, WriteCancelled, sweepVars
<1>7. ASSUME NEW c \in Challenges, TimeStep(c) \/ DeleteExpired(c) PROVE sweeper' = sweeper
  BY <1>7 DEF TimeStep, Expire, GrowQuiet, LeaseLapses, DeleteExpired, sweepVars
<1>8. CASE UNCHANGED vars
  BY <1>1, <1>8 DEF vars, sweepVars
<1> QED
  BY <1>1, <1>4, <1>5, <1>6, <1>7, <1>8 DEF Next

\* Every action keeps restorations behind their decrements.
LEMMA StepOperations ==
  ASSUME TypeInv, OperationInv, [Next]_vars PROVE OperationInv'
<1>1. \A c \in Challenges, l \in Lines : Restore(c, l) \in applied' => Dec(c, l) \in applied'
  BY AppliedGrows DEF OperationInv
<1>2. \A s \in Sweepers : SweepAt(s, "restore")' =>
                            Dec(sweeper'[s].ch, sweeper'[s].line) \in applied'
  BY AppliedGrows, RestoresWhatItSaw
<1> QED
  BY <1>1, <1>2 DEF OperationInv, SweepAt, Dec, Restore

\* A completion spends as many units of a subscription as it has lines on it,
\* whether they are counted as lines or as operations.
LEMMA LinesFinite ==
  ASSUME RedemptionAssumption, NEW ls \in SUBSET Lines, NEW s
  PROVE  /\ LinesOn(ls, s) \in SUBSET Lines
         /\ IsFiniteSet(ls) /\ Cardinality(ls) \in Nat
         /\ IsFiniteSet(LinesOn(ls, s)) /\ Cardinality(LinesOn(ls, s)) \in Nat
  BY FS_Subset, FS_CardinalityType DEF RedemptionAssumption, LinesOn

\* One challenge has one decrement per line.
LEMMA AsManyDecrements ==
  ASSUME RedemptionAssumption, NEW c, NEW ls \in SUBSET Lines
  PROVE  IsFiniteSet(Decrements(c, ls)) /\ Cardinality(Decrements(c, ls)) = Cardinality(ls)
<1> DEFINE f == [l \in ls |-> Dec(c, l)]
<1>1. ASSUME NEW l \in ls, NEW m \in ls, Dec(c, l) = Dec(c, m) PROVE l = m
  BY <1>1 DEF Dec
<1>2. f \in Injection(ls, Decrements(c, ls))
  <2>1. f \in [ls -> Decrements(c, ls)]
    BY DEF Decrements
  <2>2. \A l, m \in ls : f[l] = f[m] => l = m
    BY <1>1
  <2> QED
    BY <2>1, <2>2 DEF Injection, IsInjective
<1>3. f \in Surjection(ls, Decrements(c, ls))
  BY DEF Surjection, Decrements
<1>4. ExistsBijection(ls, Decrements(c, ls))
  BY <1>2, <1>3 DEF Bijection, ExistsBijection
<1>5. IsFiniteSet(ls)
  BY LinesFinite
<1> QED
  BY <1>4, <1>5, FS_Bijection

\* What a decrement and a committed transaction have in common.
Spends(c, ls) ==
  /\ \A l \in ls : NotRefused(c, l)
  /\ applied' = applied \cup Decrements(c, ls)
  /\ \A s \in Subscriptions :
       /\ Cardinality(LinesOn(ls, s)) <= remaining[s]
       /\ remaining'[s] = remaining[s] - Cardinality(LinesOn(ls, s))

\* The books: remainingQuantity is what the recorded operations leave of the quota.
BalanceInv ==
  /\ IsFiniteSet(applied)
  /\ \A s \in Subscriptions :
       /\ remaining[s] = Quota - Cardinality(OperationsOn("dec", s))
                               + Cardinality(OperationsOn("restore", s))
       /\ remaining[s] >= 0

\* The guarded update of one line is a spending of that line.
LEMMA DecrementSpends ==
  ASSUME RedemptionAssumption, TypeInv, BalanceInv, NEW w \in Workers, Decrement(w)
  PROVE  \E c \in Challenges, ls \in SUBSET Lines : ls # {} /\ Spends(c, ls)
<1> DEFINE c == worker[w].ch
           l == worker[w].line
<1>1. c \in Challenges /\ l \in Lines /\ SubOf[l] \in Subscriptions
  BY RequestAt DEF Decrement, At, TypeInv, HoldsChallenge, Redeeming, HoldsLine,
     RedemptionAssumption
<1>2. \A s : LinesOn({l}, s) = IF s = SubOf[l] THEN {l} ELSE {}
  BY DEF LinesOn
<1>3. Cardinality({l}) = 1 /\ Cardinality({}) = 0
  BY FS_EmptySet, FS_Singleton
<1>4. ASSUME NEW s \in Subscriptions
      PROVE  /\ Cardinality(LinesOn({l}, s)) <= remaining[s]
             /\ remaining'[s] = remaining[s] - Cardinality(LinesOn({l}, s))
  <2>1. remaining \in [Subscriptions -> Int] /\ remaining[s] >= 0
    BY DEF TypeInv, SubscriptionsTyped, BalanceInv
  <2>2. CASE s = SubOf[l]
    BY <1>1, <1>2, <1>3, <2>1, <2>2 DEF Decrement, Redeemable
  <2>3. CASE s # SubOf[l]
    <3>1. remaining'[s] = remaining[s]
      BY <2>1, <2>3 DEF Decrement
    <3>2. Cardinality(LinesOn({l}, s)) = 0
      BY <1>2, <1>3, <2>3
    <3> QED
      BY <2>1, <3>1, <3>2
  <2> QED
    BY <2>2, <2>3
<1>6. applied' = applied \cup Decrements(c, {l}) /\ NotRefused(c, l)
  BY DEF Decrement, Decrements
<1>7. Spends(c, {l})
  BY <1>4, <1>6 DEF Spends
<1> QED
  BY <1>1, <1>7

\* A committed transaction is a spending of all its lines.
LEMMA CommitSpends ==
  ASSUME RedemptionAssumption, TypeInv, NEW w \in Workers, CommitRedemption(w)
  PROVE  \E c \in Challenges, ls \in SUBSET Lines : Spends(c, ls)
<1>1. worker[w].ch \in Challenges /\ worker[w].todo \in SUBSET Lines
  BY RequestAt DEF CommitRedemption, At, TypeInv, HoldsChallenge, Redeeming, Worker
<1>2. Spends(worker[w].ch, worker[w].todo)
  BY DEF CommitRedemption, Spends
<1> QED
  BY <1>1, <1>2

\* Spending keeps the books.
LEMMA SpendBalanced ==
  ASSUME RedemptionAssumption, TypeInv, BalanceInv, NEW c \in Challenges,
         NEW ls \in SUBSET Lines, Spends(c, ls)
  PROVE  BalanceInv'
<1>1. IsFiniteSet(applied')
  BY AsManyDecrements, FS_Union DEF Spends, BalanceInv
<1>2. ASSUME NEW s \in Subscriptions
      PROVE  /\ remaining'[s] = Quota - Cardinality(OperationsOn("dec", s)')
                                      + Cardinality(OperationsOn("restore", s)')
             /\ remaining'[s] >= 0
  <2> DEFINE own == LinesOn(ls, s)
             spent == Decrements(c, own)
             old == OperationsOn("dec", s)
             back == OperationsOn("restore", s)
  <2> HIDE DEF own, spent, old, back
  <2>1. own \in SUBSET Lines /\ Cardinality(own) \in Nat
    BY LinesFinite DEF own
  <2>2. IsFiniteSet(spent) /\ Cardinality(spent) = Cardinality(own)
    BY <2>1, AsManyDecrements DEF spent
  <2>3. IsFiniteSet(old) /\ IsFiniteSet(back)
    BY FS_Subset DEF BalanceInv, OperationsOn, old, back
  <2>4. Cardinality(old) \in Nat /\ Cardinality(back) \in Nat
    BY <2>3, FS_CardinalityType
  <2>5. OperationsOn("dec", s)' = old \cup spent
    BY DEF Spends, Decrements, OperationsOn, Dec, LinesOn, own, spent, old
  <2>6. old \cap spent = {}
    BY DEF Spends, NotRefused, OperationsOn, Decrements, LinesOn, own, spent, old
  <2>7. OperationsOn("restore", s)' = back
    BY DEF Spends, Decrements, OperationsOn, Dec, back
  <2>8. Cardinality(old \cup spent) = Cardinality(old) + Cardinality(spent) - Cardinality({})
    BY <2>2, <2>3, <2>6, FS_Union
  <2>9. Cardinality({}) = 0
    BY FS_EmptySet
  <2>10. /\ remaining[s] \in Int /\ Quota \in Nat
         /\ remaining[s] = Quota - Cardinality(old) + Cardinality(back)
         /\ Cardinality(own) <= remaining[s]
         /\ remaining'[s] = remaining[s] - Cardinality(own)
    BY DEF TypeInv, SubscriptionsTyped, BalanceInv, Spends, RedemptionAssumption, own, old, back
  <2>11. remaining'[s] = Quota - (Cardinality(old) + Cardinality(own)) + Cardinality(back)
    BY <2>1, <2>4, <2>10
  <2>12. Cardinality(OperationsOn("dec", s)') = Cardinality(old) + Cardinality(own)
    <3>1. Cardinality(old \cup spent) = Cardinality(old) + Cardinality(own)
      BY <2>1, <2>2, <2>4, <2>8, <2>9
    <3> QED
      BY <2>5, <3>1
  <2>13. remaining'[s] >= 0
    BY <2>1, <2>10
  <2> QED
    BY <2>7, <2>11, <2>12, <2>13
<1> QED
  BY <1>1, <1>2 DEF BalanceInv

\* Fencing an operation leaves the books alone.
LEMMA FenceBalanced ==
  ASSUME TypeInv, BalanceInv, NEW s \in Sweepers, FenceOperation(s) PROVE BalanceInv'
<1> DEFINE f == Fence(sweeper[s].ch, sweeper[s].line)
<1>1. applied' \in {applied, applied \cup {f}} /\ remaining' = remaining
  BY DEF FenceOperation
<1>2. IsFiniteSet(applied')
  BY <1>1, FS_AddElement DEF BalanceInv
<1>3. \A k \in {"dec", "restore"}, u \in Subscriptions : OperationsOn(k, u)' = OperationsOn(k, u)
  BY <1>1 DEF OperationsOn, Fence
<1> QED
  BY <1>1, <1>2, <1>3 DEF BalanceInv

\* A restoration gives back a unit only the first time.
LEMMA RestoreBalanced ==
  ASSUME RedemptionAssumption, TypeInv, BalanceInv, NEW s \in Sweepers, RestoreBalance(s)
  PROVE  BalanceInv'
<1> DEFINE l == sweeper[s].line
           r == Restore(sweeper[s].ch, l)
<1>1. l \in Lines /\ SubOf[l] \in Subscriptions
  BY PassAt DEF RestoreBalance, SweepAt, TypeInv, SweepsLine, RedemptionAssumption
<1>2. applied' = applied \cup {r} /\ IsFiniteSet(applied')
  BY FS_AddElement DEF RestoreBalance, BalanceInv
<1>3. ASSUME NEW u \in Subscriptions
      PROVE  /\ remaining'[u] = Quota - Cardinality(OperationsOn("dec", u)')
                                      + Cardinality(OperationsOn("restore", u)')
             /\ remaining'[u] >= 0
  <2> DEFINE spent == OperationsOn("dec", u)
             old == OperationsOn("restore", u)
  <2> HIDE DEF spent, old
  <2>1. IsFiniteSet(old) /\ IsFiniteSet(spent)
    BY FS_Subset DEF BalanceInv, OperationsOn, spent, old
  <2>2. Cardinality(old) \in Nat /\ Cardinality(spent) \in Nat
    BY <2>1, FS_CardinalityType
  <2>3. OperationsOn("dec", u)' = spent
    BY <1>2 DEF OperationsOn, Restore, spent
  <2>4. OperationsOn("restore", u)' = IF SubOf[l] = u THEN old \cup {r} ELSE old
    BY <1>2 DEF OperationsOn, Restore, old
  <2>5. r \in old <=> r \in applied /\ SubOf[l] = u
    BY DEF OperationsOn, Restore, old
  <2>6. Cardinality(old \cup {r}) = IF r \in old THEN Cardinality(old) ELSE Cardinality(old) + 1
    BY <2>1, FS_AddElement
  <2>7. /\ remaining \in [Subscriptions -> Int] /\ remaining[u] \in Int /\ Quota \in Nat
        /\ remaining[u] = Quota - Cardinality(spent) + Cardinality(old)
        /\ remaining[u] >= 0
    BY DEF TypeInv, SubscriptionsTyped, BalanceInv, RedemptionAssumption, spent, old
  <2>8. remaining'[u] = IF SubOf[l] = u /\ r \notin applied THEN remaining[u] + 1 ELSE remaining[u]
    BY <1>1, <2>7 DEF RestoreBalance, UnitsToRestore
  <2>9. CASE SubOf[l] = u
    <3>1. r \in old <=> r \in applied
      BY <2>5, <2>9
    <3>2. OperationsOn("restore", u)' = old \cup {r}
      BY <2>4, <2>9
    <3>3. remaining'[u] = IF r \in old THEN remaining[u] ELSE remaining[u] + 1
      BY <2>8, <2>9, <3>1
    <3> HIDE DEF r
    <3>4. CASE r \in old
      BY <2>2, <2>3, <2>6, <2>7, <3>2, <3>3, <3>4
    <3>5. CASE r \notin old
      BY <2>2, <2>3, <2>6, <2>7, <3>2, <3>3, <3>5
    <3> QED
      BY <3>4, <3>5
  <2>10. CASE SubOf[l] # u
    BY <2>3, <2>4, <2>7, <2>8, <2>10
  <2> QED
    BY <2>9, <2>10
<1> QED
  BY <1>2, <1>3 DEF BalanceInv

\* Every action keeps the books.
LEMMA StepBalance ==
  ASSUME RedemptionAssumption, TypeInv, BalanceInv, [Next]_vars PROVE BalanceInv'
<1>1. CASE UNCHANGED <<remaining, applied>>
  BY <1>1 DEF BalanceInv, OperationsOn
<1> QED
  BY <1>1, LedgerSteps, DecrementSpends, CommitSpends, SpendBalanced, FenceBalanced,
     RestoreBalanced

\* Every restoration has a decrement of its own, so no more comes back than went.
LEMMA NoMoreBackThanSpent ==
  ASSUME TypeInv, OperationInv, BalanceInv, NEW s \in Subscriptions
  PROVE  Cardinality(OperationsOn("restore", s)) <= Cardinality(OperationsOn("dec", s))
<1> DEFINE back == OperationsOn("restore", s)
           spent == OperationsOn("dec", s)
           f == [op \in back |-> Dec(op.ch, op.line)]
<1>1. \A op \in back : /\ op \in Operation /\ op.kind = "restore" /\ SubOf[op.line] = s
                       /\ op = Restore(op.ch, op.line) /\ op \in applied
  BY DEF OperationsOn, TypeInv, SubscriptionsTyped, Operation, Restore
<1>2. \A op \in back : Dec(op.ch, op.line) \in applied
  BY <1>1 DEF OperationInv, Operation
<1>3. \A op \in back : Dec(op.ch, op.line) \in spent
  BY <1>1, <1>2 DEF OperationsOn, Dec
<1>4. \A p, q \in back : Dec(p.ch, p.line) = Dec(q.ch, q.line) => p = q
  BY <1>1 DEF Dec
<1>5. f \in Injection(back, spent)
  <2>1. f \in [back -> spent]
    BY <1>3
  <2>2. \A p, q \in back : f[p] = f[q] => p = q
    BY <1>4
  <2> QED
    BY <2>1, <2>2 DEF Injection, IsInjective
<1>6. IsFiniteSet(spent)
  BY FS_Subset DEF BalanceInv, OperationsOn
<1> QED
  BY <1>5, <1>6, FS_Injection

\* Books that are kept never leave the quota.
LEMMA BalanceWithinQuota ==
  ASSUME RedemptionAssumption, TypeInv, OperationInv, BalanceInv PROVE BalanceAccounted
<1> SUFFICES ASSUME NEW s \in Subscriptions
             PROVE  /\ remaining[s] = Quota - Cardinality(OperationsOn("dec", s))
                                            + Cardinality(OperationsOn("restore", s))
                    /\ remaining[s] \in 0 .. Quota
  BY DEF BalanceAccounted
<1>1. IsFiniteSet(OperationsOn("dec", s)) /\ IsFiniteSet(OperationsOn("restore", s))
  BY FS_Subset DEF BalanceInv, OperationsOn
<1>2. /\ Cardinality(OperationsOn("dec", s)) \in Nat
      /\ Cardinality(OperationsOn("restore", s)) \in Nat
  BY <1>1, FS_CardinalityType
<1>3. Cardinality(OperationsOn("restore", s)) <= Cardinality(OperationsOn("dec", s))
  BY NoMoreBackThanSpent
<1>4. /\ remaining[s] \in Int /\ Quota \in Nat /\ remaining[s] >= 0
      /\ remaining[s] = Quota - Cardinality(OperationsOn("dec", s))
                              + Cardinality(OperationsOn("restore", s))
  BY DEF TypeInv, SubscriptionsTyped, BalanceInv, RedemptionAssumption
<1> QED
  BY <1>2, <1>3, <1>4

\* The invariant behind the balance and the refinement.
LedgerInv == TypeInv /\ OperationInv /\ BalanceInv

\* The invariant holds in every behaviour, with and without transactions.
LEMMA LedgerInvariant == Spec => []LedgerInv
<1>1. Init => LedgerInv
  <2> SUFFICES ASSUME Init PROVE LedgerInv
    OBVIOUS
  <2>1. TypeInv
    BY InitTypeInv, RedemptionAssumption
  <2>2. OperationInv
    BY DEF Init, OperationInv, SweepAt, Scanning
  <2>3. BalanceInv
    <3>1. applied = {} /\ \A k, s : OperationsOn(k, s) = {}
      BY DEF Init, OperationsOn
    <3>2. \A s \in Subscriptions : remaining[s] = Quota /\ Quota \in Nat
      BY RedemptionAssumption DEF Init, RedemptionAssumption
    <3>3. IsFiniteSet({}) /\ Cardinality({}) = 0
      BY FS_EmptySet
    <3>4. \A s : Cardinality(OperationsOn("dec", s)) = 0 /\ Cardinality(OperationsOn("restore", s)) = 0
      BY <3>1, <3>3
    <3>5. \A s \in Subscriptions :
            /\ remaining[s] = Quota - Cardinality(OperationsOn("dec", s))
                                    + Cardinality(OperationsOn("restore", s))
            /\ remaining[s] >= 0
      BY <3>2, <3>4
    <3> QED
      BY <3>1, <3>3, <3>5 DEF BalanceInv
  <2> QED
    BY <2>1, <2>2, <2>3 DEF LedgerInv
<1>2. LedgerInv /\ [Next]_vars => LedgerInv'
  BY StepTyped, StepOperations, StepBalance, RedemptionAssumption DEF LedgerInv
<1> QED
  BY <1>1, <1>2, PTL DEF Spec

\* remainingQuantity is the quota less the recorded decrements plus the recorded
\* restorations, and never leaves the quota, for any number of requests, passes,
\* crashes and lost challenges.
THEOREM BalanceCorrect == Spec => []BalanceAccounted
<1>1. LedgerInv => BalanceAccounted
  BY BalanceWithinQuota, RedemptionAssumption DEF LedgerInv
<1> QED
  BY <1>1, LedgerInvariant, PTL

-----------------------------------------------------------------------------
(* The protocol implements EntitlementLedger. *)

\* The abstract state of an operation, read off appliedOperations.
LEMMA StateOf ==
  \A op \in Challenges \X Lines :
    LedgerState[op] = IF Restore(op[1], op[2]) \in applied THEN "restored"
                      ELSE IF Dec(op[1], op[2]) \in applied THEN "consumed"
                      ELSE IF Fence(op[1], op[2]) \in applied THEN "fenced"
                      ELSE "unused"
  BY DEF LedgerState

\* The operations among ops that touch subscription s.
OpsOn(ops, s) == {op \in ops : [o \in Challenges \X Lines |-> SubOf[o[2]]][op] = s}

\* The operations of one challenge on a subscription are as many as its lines on it.
LEMMA AsManyOperations ==
  ASSUME RedemptionAssumption, NEW c \in Challenges, NEW ls \in SUBSET Lines, NEW s
  PROVE  Cardinality(OpsOn({c} \X ls, s)) = Cardinality(LinesOn(ls, s))
<1> DEFINE own == LinesOn(ls, s)
           ops == OpsOn({c} \X ls, s)
           f == [l \in own |-> <<c, l>>]
<1>1. \A op : op \in ops <=> \E l \in own : op = <<c, l>>
  BY DEF LinesOn, OpsOn
<1>2. f \in [own -> ops]
  BY <1>1
<1>3. \A l, m \in own : f[l] = f[m] => l = m
  OBVIOUS
<1>4. \A op \in ops : \E l \in own : f[l] = op
  BY <1>1
<1>5. f \in Bijection(own, ops)
  <2> HIDE DEF f, own, ops
  <2> QED
    BY <1>2, <1>3, <1>4 DEF Bijection, Injection, IsInjective, Surjection
<1>6. IsFiniteSet(own)
  BY LinesFinite
<1> QED
  BY <1>5, <1>6, FS_Bijection DEF ExistsBijection

\* The cardinality of the instance is the cardinality.
LEMMA SameCardinality == \A S : Ledger!Cardinality(S) = Cardinality(S)
  BY DEF Ledger!Cardinality, Cardinality

\* The abstract spending with its units counted by OpsOn.
LEMMA ConsumeIs ==
  ASSUME NEW ops,
         \A op \in ops : LedgerState[op] = "unused",
         \A s \in Subscriptions : Ledger!Cardinality(OpsOn(ops, s)) <= remaining[s],
         remaining' = [s \in Subscriptions |-> remaining[s] - Ledger!Cardinality(OpsOn(ops, s))],
         LedgerState' = [op \in Challenges \X Lines |->
                           IF op \in ops THEN "consumed" ELSE LedgerState[op]]
  PROVE  Ledger!Consume(ops)
  BY DEF Ledger!Consume, OpsOn

\* Spending the lines of a challenge is the abstract spending of their operations.
LEMMA SpendConsumes ==
  ASSUME RedemptionAssumption, LedgerInv, LedgerInv', NEW c \in Challenges,
         NEW ls \in SUBSET Lines, Spends(c, ls)
  PROVE  Ledger!Consume({c} \X ls)
<1> DEFINE ops == {c} \X ls
<1>1. \A op \in ops : LedgerState[op] = "unused"
  <2>1. \A op \in ops : op \in Challenges \X Lines /\ op[1] = c /\ op[2] \in ls
    OBVIOUS
  <2>2. \A l \in ls : /\ Dec(c, l) \notin applied /\ Fence(c, l) \notin applied
                     /\ Restore(c, l) \notin applied
    BY DEF LedgerInv, OperationInv, Spends, NotRefused
  <2> QED
    BY <2>1, <2>2, StateOf
<1>2. \A s \in Subscriptions :
        /\ Cardinality(OpsOn(ops, s)) <= remaining[s]
        /\ remaining'[s] = remaining[s] - Cardinality(OpsOn(ops, s))
  <2>1. \A s : Cardinality(OpsOn(ops, s)) = Cardinality(LinesOn(ls, s))
    BY AsManyOperations
  <2> QED
    BY <2>1 DEF Spends
<1>3. remaining' = [s \in Subscriptions |-> remaining[s] - Cardinality(OpsOn(ops, s))]
  BY <1>2 DEF LedgerInv, TypeInv, SubscriptionsTyped
<1>4. ASSUME NEW op \in Challenges \X Lines
      PROVE  LedgerState'[op] = IF op \in ops THEN "consumed" ELSE LedgerState[op]
  <2>1. /\ Restore(op[1], op[2]) \in applied' <=> Restore(op[1], op[2]) \in applied
        /\ Fence(op[1], op[2]) \in applied' <=> Fence(op[1], op[2]) \in applied
        /\ Dec(op[1], op[2]) \in applied' <=> Dec(op[1], op[2]) \in applied \/ op \in ops
    BY DEF Spends, Decrements, Dec, Restore, Fence
  <2>2. op \in ops => Restore(op[1], op[2]) \notin applied
    BY <1>1, StateOf
  <2> QED
    BY <2>1, <2>2 DEF LedgerState, Restore, Dec, Fence
<1>5. LedgerState' = [op \in Challenges \X Lines |->
                        IF op \in ops THEN "consumed" ELSE LedgerState[op]]
  BY <1>4 DEF LedgerState
<1>6. \A s : Ledger!Cardinality(OpsOn(ops, s)) = Cardinality(OpsOn(ops, s))
  BY SameCardinality
<1>7. /\ \A s \in Subscriptions : Ledger!Cardinality(OpsOn(ops, s)) <= remaining[s]
      /\ remaining' = [s \in Subscriptions |-> remaining[s] - Ledger!Cardinality(OpsOn(ops, s))]
  BY <1>2, <1>3, <1>6
<1> QED
  BY <1>1, <1>5, <1>7, ConsumeIs

\* fenceOperation fences an unused operation, or changes nothing of the ledger.
LEMMA FenceFences ==
  ASSUME LedgerInv, NEW s \in Sweepers, FenceOperation(s)
  PROVE  (\E op \in Challenges \X Lines : Ledger!Fence(op)) \/ UNCHANGED <<remaining, LedgerState>>
<1> DEFINE c == sweeper[s].ch
           l == sweeper[s].line
<1>1. c \in Challenges /\ l \in Lines
  BY PassAt DEF LedgerInv, TypeInv, FenceOperation, SweepAt, SweepsChallenge, SweepsLine
<1>2. CASE Committed(c, l)
  BY <1>2 DEF FenceOperation, LedgerState
<1>3. CASE ~Committed(c, l) /\ Fence(c, l) \in applied
  <2>1. applied' = applied
    BY <1>3 DEF FenceOperation
  <2> QED
    BY <2>1 DEF FenceOperation, LedgerState
<1>4. CASE ~Committed(c, l) /\ Fence(c, l) \notin applied
  <2>1. applied' = applied \cup {Fence(c, l)} /\ remaining' = remaining
    BY <1>4 DEF FenceOperation
  <2>2. Restore(c, l) \notin applied /\ Dec(c, l) \notin applied
    BY <1>1, <1>4 DEF LedgerInv, OperationInv, Committed
  <2>3. LedgerState[<<c, l>>] = "unused"
    BY <1>1, <1>4, <2>2, StateOf
  <2>4. ASSUME NEW op \in Challenges \X Lines
        PROVE  LedgerState'[op] = IF op = <<c, l>> THEN "fenced" ELSE LedgerState[op]
    <3>1. /\ Restore(op[1], op[2]) \in applied' <=> Restore(op[1], op[2]) \in applied
          /\ Dec(op[1], op[2]) \in applied' <=> Dec(op[1], op[2]) \in applied
          /\ Fence(op[1], op[2]) \in applied' <=> Fence(op[1], op[2]) \in applied \/ op = <<c, l>>
      BY <2>1 DEF Dec, Restore, Fence
    <3> QED
      BY <2>2, <3>1 DEF LedgerState, Restore, Dec, Fence
  <2>5. LedgerState' = [LedgerState EXCEPT ![<<c, l>>] = "fenced"]
    BY <1>1, <2>4 DEF LedgerState
  <2>6. Ledger!Fence(<<c, l>>)
    BY <2>1, <2>3, <2>5 DEF Ledger!Fence
  <2> QED
    BY <1>1, <2>6
<1> QED
  BY <1>2, <1>3, <1>4

\* A restoration gives back a consumed operation, or changes nothing of the ledger.
LEMMA RestoreRestores ==
  ASSUME RedemptionAssumption, LedgerInv, NEW s \in Sweepers, RestoreBalance(s)
  PROVE  (\E op \in Challenges \X Lines : Ledger!Restore(op)) \/ UNCHANGED <<remaining, LedgerState>>
<1> DEFINE c == sweeper[s].ch
           l == sweeper[s].line
<1>1. c \in Challenges /\ l \in Lines /\ SubOf[l] \in Subscriptions
  BY PassAt DEF LedgerInv, TypeInv, RestoreBalance, SweepAt, SweepsChallenge, SweepsLine,
     RedemptionAssumption
<1>2. remaining \in [Subscriptions -> Int]
  BY DEF LedgerInv, TypeInv, SubscriptionsTyped
<1>3. CASE Restore(c, l) \in applied
  <2>1. applied' = applied
    BY <1>3 DEF RestoreBalance
  <2>2. remaining' = remaining
    BY <1>1, <1>2, <1>3 DEF RestoreBalance, UnitsToRestore
  <2> QED
    BY <2>1, <2>2 DEF LedgerState
<1>4. CASE Restore(c, l) \notin applied
  <2>1. /\ applied' = applied \cup {Restore(c, l)}
        /\ remaining' = [remaining EXCEPT ![SubOf[l]] = @ + 1]
    BY <1>4 DEF RestoreBalance, UnitsToRestore
  <2>2. Dec(c, l) \in applied
    BY DEF LedgerInv, OperationInv, RestoreBalance, SweepAt
  <2>3. LedgerState[<<c, l>>] = "consumed"
    BY <1>1, <1>4, <2>2, StateOf
  <2>4. ASSUME NEW op \in Challenges \X Lines
        PROVE  LedgerState'[op] = IF op = <<c, l>> THEN "restored" ELSE LedgerState[op]
    <3>1. /\ Restore(op[1], op[2]) \in applied'
               <=> Restore(op[1], op[2]) \in applied \/ op = <<c, l>>
          /\ Dec(op[1], op[2]) \in applied' <=> Dec(op[1], op[2]) \in applied
          /\ Fence(op[1], op[2]) \in applied' <=> Fence(op[1], op[2]) \in applied
      BY <2>1 DEF Dec, Restore, Fence
    <3> QED
      BY <3>1 DEF LedgerState, Restore, Dec, Fence
  <2>5. LedgerState' = [LedgerState EXCEPT ![<<c, l>>] = "restored"]
    BY <1>1, <2>4 DEF LedgerState
  <2>6. [op \in Challenges \X Lines |-> SubOf[op[2]]][<<c, l>>] = SubOf[l]
    BY <1>1
  <2>7. Ledger!Restore(<<c, l>>)
    BY <2>1, <2>3, <2>5, <2>6 DEF Ledger!Restore
  <2> QED
    BY <1>1, <2>7
<1> QED
  BY <1>3, <1>4

\* The protocol starts as the ledger does.
LEMMA InitLedger == Init => Ledger!Init
<1> SUFFICES ASSUME Init PROVE Ledger!Init
  OBVIOUS
<1>1. applied = {} /\ remaining = [s \in Subscriptions |-> Quota]
  BY DEF Init
<1>2. LedgerState = [op \in Challenges \X Lines |-> "unused"]
  BY <1>1 DEF LedgerState
<1> QED
  BY <1>1, <1>2 DEF Ledger!Init

\* Every step of the protocol is a step of the ledger or leaves it alone.
LEMMA StepLedger ==
  ASSUME RedemptionAssumption, LedgerInv, LedgerInv', [Next]_vars
  PROVE  [Ledger!Next]_(Ledger!vars)
<1>1. CASE UNCHANGED <<remaining, applied>>
  BY <1>1 DEF Ledger!vars, LedgerState
<1>2. ASSUME NEW c \in Challenges, NEW ls \in SUBSET Lines, Spends(c, ls)
      PROVE  [Ledger!Next]_(Ledger!vars)
  <2>1. CASE ls = {}
    <3>1. applied' = applied
      BY <1>2, <2>1 DEF Spends, Decrements
    <3>2. \A s \in Subscriptions : Cardinality(LinesOn(ls, s)) = 0
      BY <2>1, FS_EmptySet DEF LinesOn
    <3>3. remaining \in [Subscriptions -> Int] /\ remaining' \in [Subscriptions -> Int]
      BY DEF LedgerInv, TypeInv, SubscriptionsTyped
    <3>4. \A s \in Subscriptions : remaining'[s] = remaining[s] - Cardinality(LinesOn(ls, s))
      BY <1>2 DEF Spends
    <3>5. \A s \in Subscriptions : remaining'[s] = remaining[s]
      BY <3>2, <3>3, <3>4
    <3>6. remaining' = remaining
      BY <3>3, <3>5
    <3> QED
      BY <1>1, <3>1, <3>6
  <2>2. CASE ls # {}
    <3>1. Ledger!Consume({c} \X ls)
      BY <1>2, SpendConsumes
    <3>2. PICK l \in ls : TRUE
      BY <2>2
    <3>3. <<c, l>> \in {c} \X ls /\ {c} \X ls \subseteq Challenges \X Lines
      BY <3>2
    <3>4. {c} \X ls \in (SUBSET (Challenges \X Lines)) \ {{}}
      BY <3>3
    <3> QED
      BY <3>1, <3>4 DEF Ledger!Next
  <2> QED
    BY <2>1, <2>2
<1>3. ASSUME NEW w \in Workers, Decrement(w) \/ CommitRedemption(w)
      PROVE  [Ledger!Next]_(Ledger!vars)
  BY <1>2, <1>3, DecrementSpends, CommitSpends DEF LedgerInv
<1>4. ASSUME NEW s \in Sweepers, FenceOperation(s) \/ RestoreBalance(s)
      PROVE  [Ledger!Next]_(Ledger!vars)
  BY <1>4, FenceFences, RestoreRestores DEF Ledger!Next, Ledger!vars
<1> QED
  BY <1>1, <1>3, <1>4, LedgerSteps DEF LedgerInv

\* The redemption protocol implements the ledger: under every interleaving and crash,
\* an operation identity spends once, is restored once and only if spent, and spends
\* nothing once fenced.
THEOREM ImplementsLedger == Spec => LedgerSpec
<1>1. Init => Ledger!Init
  BY InitLedger
<1>2. LedgerInv /\ LedgerInv' /\ [Next]_vars => [Ledger!Next]_(Ledger!vars)
  BY StepLedger, RedemptionAssumption
<1> QED
  BY <1>1, <1>2, LedgerInvariant, PTL DEF Spec, LedgerSpec, Ledger!Spec

-----------------------------------------------------------------------------
(* Whose step it is, and where it leads *)

OwnStep(w) == NewRequest(w) \/ RequestStep(w)

\* A request that does not take the step stays where it is, stale if it was.
LEMMA OthersStay ==
  ASSUME TypeInv, [Next]_vars, NEW v \in Workers, ~OwnStep(v)
  PROVE  worker'[v] = worker[v] /\ (v \in stale => v \in stale')
<1> DEFINE Stays == worker'[v] = worker[v] /\ (v \in stale => v \in stale')
<1>a. worker \in [Workers -> Worker]
  BY DEF TypeInv, RequestsTyped, PlacedWorker
<1>1. ASSUME NEW w \in Workers, OwnStep(w) PROVE Stays
  <2>1. v # w
    BY <1>1
  <2>2. ASSUME NEW r, Goto(w, r) PROVE worker'[v] = worker[v]
    BY <1>a, <2>1, <2>2 DEF Goto
  <2>3. \/ stale' = stale \/ stale' = stale \ {w} \/ \E rec : Save(w, rec)
    BY <1>1 DEF OwnStep, NewRequest, RequestStep, RequestOtp, CreateChallenge, ResendChallenge,
       LoadChallenge, SaveExpired, SaveAttempt, ClaimChallenge, MarkVerified, RecordIntent,
       Decrement, Acknowledge, RecordUsage, MarkExhausted, CompleteAppointment, FinishChallenge,
       CommitRedemption, FailRequest
  <2>4. v \in stale => v \in stale'
    BY <2>1, <2>3 DEF Save
  <2>5. \E r : Goto(w, r)
    BY <1>1 DEF OwnStep, NewRequest, RequestStep, RequestOtp, CreateChallenge, ResendChallenge,
       LoadChallenge, SaveExpired, SaveAttempt, ClaimChallenge, MarkVerified, RecordIntent,
       Decrement, Acknowledge, RecordUsage, MarkExhausted, CompleteAppointment, FinishChallenge,
       CommitRedemption, FailRequest
  <2> QED
    BY <2>2, <2>4, <2>5
<1>2. ASSUME UNCHANGED requestVars PROVE Stays
  BY <1>2 DEF requestVars
<1>3. ASSUME NEW s \in Sweepers, SweepStep(s) \/ FailSweep(s) PROVE Stays
  BY <1>2, <1>3 DEF SweepStep, FailSweep, StartSweep, ClaimForRecovery, SkipCandidate,
     ConfirmCompleted, JudgeInterrupted, InspectLine, FenceOperation, RestoreBalance,
     CleanupUsages, CloseReconciled
<1>4. ASSUME NEW a \in Appointments, CancelStep(a) PROVE Stays
  BY <1>2, <1>4 DEF CancelStep, ReadForCancel, WriteCancelled
<1>5. ASSUME NEW c \in Challenges, TimeStep(c) \/ DeleteExpired(c) PROVE Stays
  BY <1>2, <1>5 DEF TimeStep, Expire, GrowQuiet, LeaseLapses, DeleteExpired
<1>6. CASE UNCHANGED vars
  BY <1>2, <1>6 DEF vars
<1> QED
  BY <1>1, <1>3, <1>4, <1>5, <1>6 DEF OwnStep, Next

\* The request works on with the same challenge, appointment and lines.
SameWork(w) ==
  /\ worker'[w].ch = worker[w].ch /\ worker'[w].appt = worker[w].appt
  /\ worker'[w].todo = worker[w].todo

\* It loaded a challenge and has all the lines of its appointment before it.
Loaded(w, c) ==
  /\ LoadChallenge(w, c)
  /\ worker'[w].pc \in {"expire", "reject", "claim"} /\ worker'[w].ch = c
  /\ worker'[w].appt = challenge[c].appt /\ worker'[w].todo = LinesOf(challenge[c].appt)

\* It goes on along its program.
GoesOn(w) ==
  /\ SameWork(w)
  /\ \/ ClaimChallenge(w) /\ worker'[w].pc = "verify"
     \/ MarkVerified(w) /\ worker'[w].pc = "lines"
     \/ /\ \E l \in Lines : RecordIntent(w, l)
        /\ worker'[w].pc = "decrement" /\ worker'[w].line \in worker[w].todo
     \/ Decrement(w) /\ worker'[w].pc = "acknowledge" /\ worker'[w].line = worker[w].line
     \/ Acknowledge(w) /\ worker'[w].pc = "record" /\ worker'[w].line = worker[w].line
     \/ MarkExhausted(w) /\ worker'[w].pc = "complete"
     \/ CompleteAppointment(w) /\ worker'[w].pc = "finish"

\* One line is done.
LineUsed(w) ==
  /\ RecordUsage(w) /\ worker'[w].pc = "lines"
  /\ worker'[w].ch = worker[w].ch /\ worker'[w].todo = worker[w].todo \ {worker[w].line}

\* Where a request can be after its own step.
LEMMA Lands ==
  ASSUME TypeInv, NEW w \in Workers, OwnStep(w)
  PROVE  \/ worker'[w].pc \in {"idle", "issue"}
         \/ \E c \in Challenges : Loaded(w, c)
         \/ GoesOn(w)
         \/ LineUsed(w)
<1> DEFINE Lies == \/ worker'[w].pc \in {"idle", "issue"}
                   \/ \E c \in Challenges : Loaded(w, c)
                   \/ GoesOn(w)
                   \/ LineUsed(w)
<1>a. worker \in [Workers -> Worker] /\ worker[w] \in Worker
  BY DEF TypeInv, RequestsTyped, PlacedWorker
<1>b. ASSUME NEW r, Goto(w, r) PROVE worker'[w] = r
  BY <1>a, <1>b DEF Goto
<1>1. ASSUME NEW a \in Appointments, RequestOtp(w, a) PROVE Lies
  <2>1. \A c : [IdleWorker EXCEPT !.pc = "issue", !.ch = c, !.appt = a].pc = "issue"
    BY DEF IdleWorker
  <2>2. \E c : Goto(w, [IdleWorker EXCEPT !.pc = "issue", !.ch = c, !.appt = a])
    BY <1>1 DEF RequestOtp
  <2> QED
    BY <1>b, <2>1, <2>2
<1>2. ASSUME NEW c \in Challenges, LoadChallenge(w, c) PROVE Lies
  <2>1. PICK pc \in {"expire", "reject", "claim"} :
          Goto(w, [pc |-> pc, ch |-> c, appt |-> challenge[c].appt,
                   todo |-> LinesOf(challenge[c].appt), line |-> NoLine])
    BY <1>2 DEF LoadChallenge
  <2> QED
    BY <1>2, <1>b, <2>1 DEF Loaded
<1>3. ASSUME Goto(w, IdleWorker) PROVE Lies
  BY <1>3, <1>b DEF IdleWorker
<1>4. ASSUME NEW pc, Goto(w, [worker[w] EXCEPT !.pc = pc])
      PROVE  SameWork(w) /\ worker'[w].pc = pc /\ worker'[w].line = worker[w].line
  BY <1>4, <1>a, <1>b DEF SameWork, Worker
<1>5. ASSUME \/ ClaimChallenge(w) \/ MarkVerified(w) \/ Decrement(w) \/ Acknowledge(w)
             \/ MarkExhausted(w) \/ CompleteAppointment(w)
      PROVE  Lies
  <2>1. CASE ClaimChallenge(w)
    BY <1>4, <2>1 DEF ClaimChallenge, GoesOn
  <2>2. CASE MarkVerified(w)
    BY <1>4, <2>2 DEF MarkVerified, GoesOn
  <2>3. CASE Decrement(w)
    BY <1>4, <2>3 DEF Decrement, GoesOn
  <2>4. CASE Acknowledge(w)
    BY <1>4, <2>4 DEF Acknowledge, GoesOn
  <2>5. CASE MarkExhausted(w)
    BY <1>4, <2>5 DEF MarkExhausted, GoesOn
  <2>6. CASE CompleteAppointment(w)
    BY <1>4, <2>6 DEF CompleteAppointment, GoesOn
  <2> QED
    BY <1>5, <2>1, <2>2, <2>3, <2>4, <2>5, <2>6
<1>6. ASSUME NEW l \in Lines, RecordIntent(w, l) PROVE Lies
  <2>1. worker'[w] = [worker[w] EXCEPT !.pc = "decrement", !.line = l] /\ l \in worker[w].todo
    BY <1>6, <1>b DEF RecordIntent
  <2> QED
    BY <1>6, <1>a, <2>1 DEF GoesOn, SameWork, Worker
<1>7. CASE RecordUsage(w)
  <2>1. worker'[w] = [worker[w] EXCEPT !.pc = "lines", !.line = NoLine,
                                       !.todo = @ \ {worker[w].line}]
    BY <1>7, <1>b DEF RecordUsage
  <2> QED
    BY <1>7, <1>a, <2>1 DEF LineUsed, Worker
<1> QED
  BY <1>1, <1>2, <1>3, <1>5, <1>6, <1>7 DEF OwnStep, NewRequest, RequestStep, CreateChallenge,
     ResendChallenge, SaveExpired, SaveAttempt, FinishChallenge, CommitRedemption, FailRequest

-----------------------------------------------------------------------------
(* Wrong codes.  Overlapping requests may all have read the same count; a save *)
(* makes every other copy stale, so the one that counts has seen the last count. *)

AttemptsInv ==
  /\ AttemptsBounded
  /\ \A w \in Workers : worker[w].pc = "reject" /\ w \notin stale =>
                          challenge[worker[w].ch].attempts < MaxAttempts

\* A write that does not count a wrong answer leaves the count, or clears it.
LEMMA WriteKeepsAttempts ==
  ASSUME TypeInv, NEW d \in Challenges, NEW rec,
         Update(d, rec) \/ \E w \in Workers : worker[w].ch = d /\ Save(w, rec),
         rec.attempts \in {0, challenge[d].attempts}
  PROVE  \A c \in Challenges : challenge'[c].attempts \in {0, challenge[c].attempts}
  BY DEF TypeInv, ChallengesTyped, Update, Save

\* Only a wrong answer counts.
LEMMA OnlyWrongAnswersCount ==
  ASSUME RedemptionAssumption, TypeInv, [Next]_vars
  PROVE  \/ \E w \in Workers : SaveAttempt(w)
         \/ \A c \in Challenges : challenge'[c].attempts \in {0, challenge[c].attempts}
<1> DEFINE Kept == \A c \in Challenges : challenge'[c].attempts \in {0, challenge[c].attempts}
<1> USE DEF TypeInv
<1>1. ASSUME UNCHANGED challenge PROVE Kept
  BY <1>1
<1>2. ASSUME NEW w \in Workers, NewRequest(w) PROVE Kept
  BY <1>1, <1>2 DEF NewRequest, RequestOtp, LoadChallenge, challengeVars
<1>3. ASSUME NEW w \in Workers, RequestStep(w), ~SaveAttempt(w) PROVE Kept
  <2>1. ASSUME NEW d \in Challenges, CreateChallenge(w, d) PROVE Kept
    <3>1. challenge' = [challenge EXCEPT ![d] = NewChallenge(worker[w].appt)]
      BY <2>1 DEF CreateChallenge
    <3>2. NewChallenge(worker[w].appt).attempts = 0
      BY DEF NewChallenge
    <3> QED
      BY <3>1, <3>2 DEF ChallengesTyped
  <2>2. CASE ResendChallenge(w)
    <3>1. worker[w].ch \in Challenges /\ challenge[worker[w].ch] \in Challenge
      BY <2>2, RequestAt DEF ResendChallenge, Worker, ChallengesTyped
    <3>2. Resent(challenge[worker[w].ch]).attempts = 0
      BY <3>1 DEF Resent, Challenge
    <3> QED
      BY <2>2, <3>1, <3>2, WriteKeepsAttempts DEF ResendChallenge
  <2>3. ASSUME \/ SaveExpired(w) \/ ClaimChallenge(w) \/ MarkVerified(w) \/ Acknowledge(w)
               \/ FinishChallenge(w) \/ CommitRedemption(w) \/ \E l \in Lines : RecordIntent(w, l)
        PROVE  Kept
    <3> DEFINE old == challenge[worker[w].ch]
    <3>1. worker[w].ch \in Challenges /\ old \in Challenge
      BY <2>3, RequestAt DEF SaveExpired, ClaimChallenge, MarkVerified, Acknowledge,
         FinishChallenge, CommitRedemption, RecordIntent, At, HoldsChallenge, Redeeming,
         ChallengesTyped
    <3>2. /\ \A x : [old EXCEPT !.status = x].attempts = old.attempts
          /\ \A y : [old EXCEPT !.state = y].attempts = old.attempts
          /\ [old EXCEPT !.status = "verified", !.state = "completed",
                         !.intents = @ \cup worker[w].todo].attempts = old.attempts
          /\ \A l \in Lines : [old EXCEPT !.intents = @ \cup {l},
                                          !.state = "in_redemption"].attempts = old.attempts
      BY <3>1 DEF Challenge
    <3>3. CASE SaveExpired(w) \/ ClaimChallenge(w) \/ MarkVerified(w)
      BY <3>1, <3>2, <3>3, WriteKeepsAttempts DEF SaveExpired, ClaimChallenge, MarkVerified
    <3>4. CASE Acknowledge(w) \/ FinishChallenge(w)
      BY <3>1, <3>2, <3>4, WriteKeepsAttempts DEF Acknowledge, FinishChallenge
    <3>5. CASE CommitRedemption(w) \/ \E l \in Lines : RecordIntent(w, l)
      BY <3>1, <3>2, <3>5, WriteKeepsAttempts DEF CommitRedemption, RecordIntent
    <3> QED
      BY <2>3, <3>3, <3>4, <3>5
  <2>4. ASSUME \/ Decrement(w) \/ RecordUsage(w) \/ MarkExhausted(w) \/ CompleteAppointment(w)
               \/ FailRequest(w)
        PROVE  Kept
    BY <1>1, <2>4 DEF Decrement, RecordUsage, MarkExhausted, CompleteAppointment, FailRequest,
       challengeVars
  <2> QED
    BY <1>3, <2>1, <2>2, <2>3, <2>4 DEF RequestStep
<1>4. ASSUME NEW s \in Sweepers, SweepStep(s) \/ FailSweep(s) PROVE Kept
  <2>1. ASSUME NEW d \in Challenges, ClaimForRecovery(s, d) PROVE Kept
    <3>1. [challenge[d] EXCEPT !.state = "restoring"].attempts = challenge[d].attempts
      BY DEF ChallengesTyped, Challenge
    <3> QED
      BY <2>1, <3>1, WriteKeepsAttempts DEF ClaimForRecovery
  <2>2. ASSUME ConfirmCompleted(s) \/ CloseReconciled(s) PROVE Kept
    <3> DEFINE old == challenge[sweeper[s].ch]
    <3>1. sweeper[s].ch \in Challenges /\ old \in Challenge
      BY <2>2, PassAt DEF ConfirmCompleted, CloseReconciled, SweepAt, SweepsChallenge,
         ChallengesTyped
    <3>2. \A x, y : [old EXCEPT !.status = x, !.state = y].attempts = old.attempts
      BY <3>1 DEF Challenge
    <3> QED
      BY <2>2, <3>1, <3>2, WriteKeepsAttempts DEF ConfirmCompleted, CloseReconciled
  <2>3. ASSUME \/ StartSweep(s) \/ JudgeInterrupted(s) \/ FenceOperation(s) \/ RestoreBalance(s)
               \/ CleanupUsages(s) \/ FailSweep(s) \/ (\E l \in Lines : InspectLine(s, l))
               \/ (\E c \in Challenges : SkipCandidate(s, c))
        PROVE  UNCHANGED challenge
    BY <2>3 DEF StartSweep, JudgeInterrupted, FenceOperation, RestoreBalance, CleanupUsages,
       FailSweep, InspectLine, SkipCandidate, challengeVars
  <2> QED
    BY <1>1, <1>4, <2>1, <2>2, <2>3 DEF SweepStep
<1>5. ASSUME NEW a \in Appointments, CancelStep(a) PROVE Kept
  BY <1>1, <1>5 DEF CancelStep, ReadForCancel, WriteCancelled, challengeVars
<1>6. ASSUME NEW d \in Challenges, TimeStep(d) \/ DeleteExpired(d) PROVE Kept
  <2>1. CASE TimeStep(d)
    BY <1>1, <2>1 DEF TimeStep, Expire, GrowQuiet, LeaseLapses
  <2>2. CASE DeleteExpired(d)
    <3>1. [AbsentChallenge EXCEPT !.status = "deleted", !.appt = challenge[d].appt].attempts = 0
      BY DEF AbsentChallenge
    <3> QED
      BY <2>2, <3>1 DEF DeleteExpired, ChallengesTyped
  <2> QED
    BY <1>6, <2>1, <2>2
<1>7. CASE UNCHANGED vars
  BY <1>1, <1>7 DEF vars, challengeVars
<1> QED
  BY <1>2, <1>3, <1>4, <1>5, <1>6, <1>7 DEF Next

\* Every action keeps the count within the limit.
LEMMA StepAttempts ==
  ASSUME RedemptionAssumption, TypeInv, TypeInv', AttemptsInv, [Next]_vars
  PROVE  AttemptsInv'
<1>1. MaxAttempts \in Nat /\ 0 < MaxAttempts
  BY DEF RedemptionAssumption
<1>2. \A c \in Challenges : challenge[c].attempts \in Nat /\ challenge[c].attempts <= MaxAttempts
  BY DEF TypeInv, ChallengesTyped, Challenge, AttemptsInv, AttemptsBounded
<1>3. CASE \A c \in Challenges : challenge'[c].attempts \in {0, challenge[c].attempts}
  <2>1. AttemptsBounded'
    BY <1>1, <1>2, <1>3 DEF AttemptsBounded
  <2>2. ASSUME NEW v \in Workers, worker'[v].pc = "reject", v \notin stale'
        PROVE  challenge'[worker'[v].ch].attempts < MaxAttempts
    <3>1. CASE ~OwnStep(v)
      <4>1. worker'[v] = worker[v] /\ v \notin stale
        BY <2>2, <3>1, OthersStay
      <4>2. worker[v].ch \in Challenges /\ challenge[worker[v].ch].attempts < MaxAttempts
        BY <2>2, <4>1, RequestAt DEF TypeInv, HoldsChallenge, AttemptsInv
      <4> QED
        BY <1>1, <1>3, <4>1, <4>2
    <3>2. CASE OwnStep(v)
      <4>1. PICK c \in Challenges : Loaded(v, c)
        BY <2>2, <3>2, Lands DEF GoesOn, LineUsed
      <4>2. worker'[v].ch = c /\ challenge'[c] = challenge[c] /\ challenge[c].attempts < MaxAttempts
        BY <4>1 DEF Loaded, LoadChallenge, challengeVars
      <4> QED
        BY <4>2
    <3> QED
      BY <3>1, <3>2
  <2> QED
    BY <2>1, <2>2 DEF AttemptsInv
<1>4. ASSUME NEW w \in Workers, SaveAttempt(w) PROVE AttemptsInv'
  <2> DEFINE d == worker[w].ch
             old == challenge[d]
             rec == AfterWrongCode(old)
  <2>1. d \in Challenges /\ old \in Challenge /\ w \notin stale /\ worker[w].pc = "reject"
    BY <1>4, RequestAt DEF SaveAttempt, Save, At, TypeInv, HoldsChallenge, ChallengesTyped
  <2>2. /\ challenge' = [challenge EXCEPT ![d] = rec] /\ Goto(w, IdleWorker)
        /\ stale' = stale \cup {v \in Workers \ {w} : worker[v].ch = d}
    BY <1>4 DEF SaveAttempt, Save
  <2>3. rec.attempts = old.attempts + 1 /\ old.attempts < MaxAttempts /\ old.attempts \in Nat
    BY <2>1 DEF AfterWrongCode, Challenge, AttemptsInv
  <2> HIDE DEF rec
  <2>4. \A c \in Challenges : challenge'[c] = IF c = d THEN rec ELSE challenge[c]
    BY <2>1, <2>2 DEF TypeInv, ChallengesTyped
  <2>5. AttemptsBounded'
    BY <1>1, <1>2, <2>3, <2>4 DEF AttemptsBounded
  <2>6. ASSUME NEW v \in Workers, worker'[v].pc = "reject", v \notin stale'
        PROVE  challenge'[worker'[v].ch].attempts < MaxAttempts
    <3>1. v # w
      BY <2>2, <2>6 DEF Goto, IdleWorker, TypeInv, RequestsTyped
    <3>2. worker'[v] = worker[v] /\ v \notin stale /\ worker[v].ch # d
      BY <2>2, <2>6, <3>1 DEF Goto, TypeInv, RequestsTyped
    <3>3. worker[v].ch \in Challenges /\ challenge[worker[v].ch].attempts < MaxAttempts
      BY <2>6, <3>2, RequestAt DEF TypeInv, HoldsChallenge, AttemptsInv
    <3> QED
      BY <2>4, <3>2, <3>3
  <2> QED
    BY <2>5, <2>6 DEF AttemptsInv
<1> QED
  BY <1>3, <1>4, OnlyWrongAnswersCount

\* Concurrent wrong codes are never counted past the limit, however requests that
\* read the same count overlap.
THEOREM WrongCodesBounded == Spec => []AttemptsBounded
<1>1. Init => TypeInv /\ AttemptsInv
  <2>1. Init => AttemptsInv
    BY RedemptionAssumption DEF Init, AttemptsInv, AttemptsBounded, IdleWorker, AbsentChallenge,
       RedemptionAssumption
  <2> QED
    BY <2>1, InitTypeInv, RedemptionAssumption
<1>2. TypeInv /\ AttemptsInv /\ [Next]_vars => (TypeInv /\ AttemptsInv)'
  BY StepTyped, StepAttempts, RedemptionAssumption
<1>3. AttemptsInv => AttemptsBounded
  BY DEF AttemptsInv
<1> QED
  BY <1>1, <1>2, <1>3, PTL DEF Spec

-----------------------------------------------------------------------------
(* The first decrement.  A challenge is redeemed by one request, line by line, *)
(* so what the request has still to spend was never spent under its identity.  *)

\* The lines w has still to spend a unit for.
ToSpend(w) ==
  CASE worker[w].pc \in {"verify", "lines", "decrement"} -> worker[w].todo
    [] worker[w].pc \in {"acknowledge", "record"} -> worker[w].todo \ {worker[w].line}
    [] OTHER -> {}

FirstInv ==
  /\ \A c \in Challenges, l \in Lines : ~Claimed(c) => Dec(c, l) \notin applied
  /\ \A w \in Workers : \A l \in ToSpend(w) : Dec(worker[w].ch, l) \notin applied
  /\ \A w \in Workers : worker[w].pc = "decrement" => worker[w].line \in worker[w].todo

\* The redeemer is the only one to spend under its challenge.
LEMMA OnlyRedeemerSpends ==
  ASSUME TypeInv, [Next]_vars, NEW c, NEW l, Dec(c, l) \in applied', Dec(c, l) \notin applied
  PROVE  \E w \in Workers : /\ worker[w].ch = c /\ worker[w].pc \in Redeeming
                            /\ \/ Decrement(w) /\ l = worker[w].line
                               \/ CommitRedemption(w) /\ l \in worker[w].todo
<1>1. ASSUME NEW s \in Sweepers, FenceOperation(s) \/ RestoreBalance(s) PROVE FALSE
  BY <1>1, OperationsDiffer DEF FenceOperation, RestoreBalance
<1>2. ASSUME NEW w \in Workers, Decrement(w)
      PROVE  worker[w].ch = c /\ worker[w].pc \in Redeeming /\ l = worker[w].line
  BY <1>2, OperationsDiffer DEF Decrement, At, Redeeming
<1>3. ASSUME NEW w \in Workers, CommitRedemption(w)
      PROVE  worker[w].ch = c /\ worker[w].pc \in Redeeming /\ l \in worker[w].todo
  BY <1>3, OperationsDiffer DEF CommitRedemption, Decrements, At, Redeeming
<1> QED
  BY <1>1, <1>2, <1>3, LedgerSteps

\* What w had still to spend and did not, it has still not spent.
LEMMA StillUnspent ==
  ASSUME TypeInv, RedeemerInv, FirstInv, [Next]_vars, NEW v \in Workers, NEW l \in ToSpend(v),
         ~(Decrement(v) /\ l = worker[v].line), ~CommitRedemption(v)
  PROVE  Dec(worker[v].ch, l) \notin applied'
<1>1. Dec(worker[v].ch, l) \notin applied /\ worker[v].pc \in Redeeming
  BY DEF FirstInv, ToSpend, Redeeming
<1>2. SUFFICES ASSUME Dec(worker[v].ch, l) \in applied' PROVE FALSE
  OBVIOUS
<1>3. PICK w \in Workers : /\ worker[w].ch = worker[v].ch /\ worker[w].pc \in Redeeming
                           /\ \/ Decrement(w) /\ l = worker[w].line
                              \/ CommitRedemption(w) /\ l \in worker[w].todo
  BY <1>1, <1>2, OnlyRedeemerSpends
<1>4. w # v
  BY <1>3
<1> QED
  BY <1>1, <1>3, <1>4 DEF RedeemerInv, SingleRedeemer

\* Every action keeps the unspent lines unspent.
LEMMA StepFirst ==
  ASSUME RedemptionAssumption, TypeInv, RedeemerInv, FirstInv, [Next]_vars
  PROVE  FirstInv'
<1>1. ASSUME NEW c \in Challenges, NEW l \in Lines, Dec(c, l) \in applied' PROVE Claimed(c)'
  <2>1. CASE Dec(c, l) \in applied
    BY <2>1, ClaimedForGood DEF FirstInv
  <2>2. CASE Dec(c, l) \notin applied
    <3>1. \E w \in Workers : worker[w].ch = c /\ worker[w].pc \in Redeeming
      BY <1>1, <2>2, OnlyRedeemerSpends
    <3> QED
      BY <3>1, ClaimedForGood DEF RedeemerInv
  <2> QED
    BY <2>1, <2>2
<1>2. ASSUME NEW v \in Workers
      PROVE  /\ \A l \in ToSpend(v)' : Dec(worker'[v].ch, l) \notin applied'
             /\ worker'[v].pc = "decrement" => worker'[v].line \in worker'[v].todo
  <2>1. CASE ~OwnStep(v)
    <3>1. worker'[v] = worker[v] /\ ToSpend(v)' = ToSpend(v)
      BY <2>1, OthersStay DEF ToSpend
    <3>2. ~Decrement(v) /\ ~CommitRedemption(v)
      BY <2>1 DEF OwnStep, RequestStep
    <3> QED
      BY <3>1, <3>2, StillUnspent DEF FirstInv
  <2>2. CASE worker'[v].pc \in {"idle", "issue"} \/ \E c \in Challenges : Loaded(v, c)
    BY <2>2 DEF Loaded, ToSpend
  <2>3. CASE GoesOn(v)
    <3>1. ASSUME ClaimChallenge(v), worker'[v].pc = "verify", SameWork(v)
          PROVE  \A l \in ToSpend(v)' : Dec(worker'[v].ch, l) \notin applied'
      <4>1. /\ worker[v].ch \in Challenges /\ worker[v].todo \subseteq Lines
            /\ ~Claimed(worker[v].ch) /\ applied' = applied
        BY <3>1, RequestAt DEF ClaimChallenge, At, TypeInv, HoldsChallenge, Worker, Claimed,
           subscriptionVars
      <4>2. ToSpend(v)' = worker[v].todo
        BY <3>1 DEF ToSpend, SameWork
      <4> QED
        BY <3>1, <4>1, <4>2 DEF FirstInv, SameWork
    <3>2. ASSUME MarkVerified(v) \/ (\E l \in Lines : RecordIntent(v, l)), SameWork(v),
                 worker'[v].pc \in {"lines", "decrement"}
          PROVE  \A l \in ToSpend(v)' : Dec(worker'[v].ch, l) \notin applied'
      <4>1. applied' = applied /\ ToSpend(v) = worker[v].todo
        BY <3>2 DEF MarkVerified, RecordIntent, At, ToSpend, subscriptionVars
      <4>2. ToSpend(v)' = worker[v].todo
        BY <3>2 DEF ToSpend, SameWork
      <4> QED
        BY <3>2, <4>1, <4>2 DEF FirstInv, SameWork
    <3>3. ASSUME Decrement(v), SameWork(v), worker'[v].pc = "acknowledge",
                 worker'[v].line = worker[v].line
          PROVE  \A l \in ToSpend(v)' : Dec(worker'[v].ch, l) \notin applied'
      <4>1. ToSpend(v) = worker[v].todo /\ ~CommitRedemption(v)
        BY <3>3 DEF Decrement, CommitRedemption, At, ToSpend
      <4>2. ToSpend(v)' = worker[v].todo \ {worker[v].line}
        BY <3>3 DEF ToSpend, SameWork
      <4> QED
        BY <3>3, <4>1, <4>2, StillUnspent DEF SameWork
    <3>4. ASSUME Acknowledge(v), SameWork(v), worker'[v].pc = "record",
                 worker'[v].line = worker[v].line
          PROVE  \A l \in ToSpend(v)' : Dec(worker'[v].ch, l) \notin applied'
      <4>1. applied' = applied /\ ToSpend(v) = worker[v].todo \ {worker[v].line}
        BY <3>4 DEF Acknowledge, At, ToSpend, subscriptionVars
      <4>2. ToSpend(v)' = worker[v].todo \ {worker[v].line}
        BY <3>4 DEF ToSpend, SameWork
      <4> QED
        BY <3>4, <4>1, <4>2 DEF FirstInv, SameWork
    <3>5. ASSUME worker'[v].pc \in {"complete", "finish"} PROVE ToSpend(v)' = {}
      BY <3>5 DEF ToSpend
    <3> QED
      BY <2>3, <3>1, <3>2, <3>3, <3>4, <3>5 DEF GoesOn, SameWork
  <2>4. CASE LineUsed(v)
    <3>1. applied' = applied /\ ToSpend(v) = worker[v].todo \ {worker[v].line}
      BY <2>4 DEF LineUsed, RecordUsage, At, ToSpend, subscriptionVars
    <3>2. ToSpend(v)' = worker[v].todo \ {worker[v].line}
      BY <2>4 DEF LineUsed, ToSpend
    <3> QED
      BY <2>4, <3>1, <3>2 DEF FirstInv, LineUsed
  <2> QED
    BY <2>1, <2>2, <2>3, <2>4, Lands
<1>3. \A c \in Challenges, l \in Lines : Claimed(c)' \/ Dec(c, l) \notin applied'
  BY <1>1
<1> QED
  BY <1>2, <1>3 DEF FirstInv, Claimed, Dec

\* A request about to spend a unit is the first to do so under its operation
\* identity.
THEOREM FirstAttemptOnly == Spec => []DecrementIsFirstAttempt
<1>1. Init => TypeInv /\ RedeemerInv /\ FirstInv
  <2>1. Init => RedeemerInv /\ FirstInv
    BY DEF Init, RedeemerInv, SingleRedeemer, FirstInv, ToSpend, IdleWorker, Redeeming
  <2> QED
    BY <2>1, InitTypeInv, RedemptionAssumption
<1>2. TypeInv /\ RedeemerInv /\ FirstInv /\ [Next]_vars => (TypeInv /\ RedeemerInv /\ FirstInv)'
  BY StepTyped, StepRedeemer, StepFirst, RedemptionAssumption
<1>3. FirstInv => DecrementIsFirstAttempt
  BY DEF FirstInv, DecrementIsFirstAttempt, ToSpend
<1> QED
  BY <1>1, <1>2, <1>3, PTL DEF Spec

-----------------------------------------------------------------------------
(* With transactions: all the units of an appointment are spent in the one     *)
(* step that completes it, and a pass finds no intent to undo.                 *)

\* The status an appointment left does not come back, and only a commit completes.
LEMMA AppointmentMoves ==
  ASSUME TypeInv, [Next]_vars, NEW a \in Appointments, apptStatus'[a] # apptStatus[a]
  PROVE  \/ apptStatus'[a] = "cancelled"
         \/ \E w \in Workers : /\ CommitRedemption(w) \/ CompleteAppointment(w)
                               /\ worker[w].appt = a
<1> USE DEF TypeInv, AppointmentsTyped
<1>1. ASSUME NEW w \in Workers, OwnStep(w), ~CommitRedemption(w), ~CompleteAppointment(w)
      PROVE  apptStatus' = apptStatus
  BY <1>1 DEF OwnStep, NewRequest, RequestStep, RequestOtp, CreateChallenge, ResendChallenge,
     LoadChallenge, SaveExpired, SaveAttempt, ClaimChallenge, MarkVerified, RecordIntent,
     Decrement, Acknowledge, RecordUsage, MarkExhausted, FinishChallenge, FailRequest, apptVars
<1>2. ASSUME NEW w \in Workers, CommitRedemption(w) \/ CompleteAppointment(w)
      PROVE  worker[w].appt = a
  BY <1>2 DEF CommitRedemption, CompleteAppointment
<1>3. ASSUME NEW s \in Sweepers, SweepStep(s) \/ FailSweep(s) PROVE apptStatus' = apptStatus
  BY <1>3 DEF SweepStep, FailSweep, StartSweep, ClaimForRecovery, SkipCandidate,
     ConfirmCompleted, JudgeInterrupted, InspectLine, FenceOperation, RestoreBalance,
     CleanupUsages, CloseReconciled, apptVars
<1>4. ASSUME NEW b \in Appointments, CancelStep(b) PROVE apptStatus'[a] = "cancelled"
  BY <1>4 DEF CancelStep, ReadForCancel, WriteCancelled
<1>5. ASSUME NEW c \in Challenges, TimeStep(c) \/ DeleteExpired(c) PROVE apptStatus' = apptStatus
  BY <1>5 DEF TimeStep, Expire, GrowQuiet, LeaseLapses, DeleteExpired, apptVars
<1>6. CASE UNCHANGED vars
  BY <1>6 DEF vars, apptVars
<1> QED
  BY <1>1, <1>2, <1>3, <1>4, <1>5, <1>6 DEF OwnStep, Next

\* A request spends nothing on its own, and works on all the lines of its appointment.
RequestsWhole ==
  \A w \in Workers :
    /\ worker[w].pc \in Redeeming => worker[w].pc = "verify"
    /\ worker[w].pc \in HoldsChallenge => worker[w].todo = LinesOf(worker[w].appt)

\* The challenge of a completion that has not been committed names no line.
IntentsCommitted ==
  \A c \in Challenges : challenge[c].intents # {} => challenge[c].state \in {"completed", "reconciled"}

\* A pass has nothing to undo.
PassesIdle ==
  \A s \in Sweepers : sweeper[s].todo = {} /\ sweeper[s].pc \notin {"fence", "restore"}

\* A unit is spent by the completion of its appointment, once, and never comes back.
PaidOnce ==
  /\ \A c \in Challenges, l \in Lines :
       Dec(c, l) \in applied => apptStatus[ApptOf[l]] # "in_progress"
  /\ \A c, d \in Challenges, l \in Lines : Dec(c, l) \in applied /\ Dec(d, l) \in applied => c = d
  /\ \A l \in Lines : apptStatus[ApptOf[l]] = "completed" =>
                        \E c \in Challenges : Dec(c, l) \in applied
  /\ \A c \in Challenges, l \in Lines : Restore(c, l) \notin applied

CommitInv == RequestsWhole /\ IntentsCommitted /\ PassesIdle /\ PaidOnce

\* With transactions no request is ever between two lines.
LEMMA StepRequestsWhole ==
  ASSUME Transactional, TypeInv, RequestsWhole, [Next]_vars
  PROVE  RequestsWhole'
<1> SUFFICES ASSUME NEW v \in Workers
             PROVE  /\ worker'[v].pc \in Redeeming => worker'[v].pc = "verify"
                    /\ worker'[v].pc \in HoldsChallenge => worker'[v].todo = LinesOf(worker'[v].appt)
  BY DEF RequestsWhole, LinesOf
<1>1. CASE ~OwnStep(v)
  BY <1>1, OthersStay DEF RequestsWhole
<1>2. CASE worker'[v].pc \in {"idle", "issue"} \/ \E c \in Challenges : Loaded(v, c)
  BY <1>2 DEF Loaded, HoldsChallenge, Redeeming
<1>3. CASE GoesOn(v)
  <2>1. ClaimChallenge(v) /\ worker'[v].pc = "verify" /\ SameWork(v)
    BY <1>3 DEF GoesOn, RequestsWhole, Redeeming, MarkVerified, RecordIntent, Decrement,
       Acknowledge, MarkExhausted, CompleteAppointment, At
  <2> QED
    BY <2>1 DEF RequestsWhole, ClaimChallenge, At, SameWork, HoldsChallenge
<1>4. CASE LineUsed(v)
  BY <1>4 DEF LineUsed, RecordUsage, At, RequestsWhole, Redeeming
<1> QED
  BY <1>1, <1>2, <1>3, <1>4, Lands

\* A write keeps IntentsCommitted if its record does.
LEMMA WriteIntents ==
  ASSUME TypeInv, IntentsCommitted, NEW d \in Challenges, NEW rec,
         Update(d, rec) \/ \E w \in Workers : worker[w].ch = d /\ Save(w, rec),
         rec.intents # {} => rec.state \in {"completed", "reconciled"}
  PROVE  IntentsCommitted'
  BY DEF TypeInv, ChallengesTyped, Update, Save, IntentsCommitted

\* With transactions only a committed or closed challenge names lines.
LEMMA StepIntents ==
  ASSUME Transactional, RedemptionAssumption, TypeInv, RequestsWhole, IntentsCommitted, [Next]_vars
  PROVE  IntentsCommitted'
<1> USE DEF TypeInv
<1>1. ASSUME UNCHANGED challenge PROVE IntentsCommitted'
  BY <1>1 DEF IntentsCommitted
<1>2. ASSUME NEW w \in Workers, NewRequest(w) PROVE IntentsCommitted'
  BY <1>1, <1>2 DEF NewRequest, RequestOtp, LoadChallenge, challengeVars
<1>3. ASSUME NEW w \in Workers, RequestStep(w) PROVE IntentsCommitted'
  <2>1. ASSUME NEW d \in Challenges, CreateChallenge(w, d) PROVE IntentsCommitted'
    <3>1. challenge' = [challenge EXCEPT ![d] = NewChallenge(worker[w].appt)]
      BY <2>1 DEF CreateChallenge
    <3>2. NewChallenge(worker[w].appt).intents = {}
      BY DEF NewChallenge
    <3> QED
      BY <3>1, <3>2 DEF ChallengesTyped, IntentsCommitted
  <2>2. CASE ResendChallenge(w)
    <3>1. worker[w].ch \in Challenges /\ challenge[worker[w].ch] \in Challenge
      BY <2>2, RequestAt DEF ResendChallenge, Worker, ChallengesTyped
    <3>2. /\ Resent(challenge[worker[w].ch]).intents = challenge[worker[w].ch].intents
          /\ Resent(challenge[worker[w].ch]).state = challenge[worker[w].ch].state
      BY <3>1 DEF Resent, Challenge
    <3> QED
      BY <2>2, <3>1, <3>2, WriteIntents DEF ResendChallenge, IntentsCommitted
  <2>3. ASSUME SaveExpired(w) \/ SaveAttempt(w) \/ ClaimChallenge(w) \/ CommitRedemption(w)
        PROVE  IntentsCommitted'
    <3> DEFINE old == challenge[worker[w].ch]
    <3>1. worker[w].ch \in Challenges /\ old \in Challenge
      BY <2>3, RequestAt DEF SaveExpired, SaveAttempt, ClaimChallenge, CommitRedemption, At,
         HoldsChallenge, Redeeming, ChallengesTyped
    <3>2. /\ \A x : [old EXCEPT !.status = x].intents = old.intents
          /\ \A x : [old EXCEPT !.status = x].state = old.state
          /\ AfterWrongCode(old).intents = old.intents /\ AfterWrongCode(old).state = old.state
          /\ [old EXCEPT !.status = "verified", !.state = "completed",
                         !.intents = @ \cup worker[w].todo].state = "completed"
      BY <3>1 DEF Challenge, AfterWrongCode
    <3>3. old.intents # {} => old.state \in {"completed", "reconciled"}
      BY <3>1 DEF IntentsCommitted
    <3>4. CASE SaveExpired(w) \/ ClaimChallenge(w)
      BY <3>1, <3>2, <3>3, <3>4, WriteIntents DEF SaveExpired, ClaimChallenge
    <3>5. CASE SaveAttempt(w) \/ CommitRedemption(w)
      BY <3>1, <3>2, <3>3, <3>5, WriteIntents DEF SaveAttempt, CommitRedemption
    <3> QED
      BY <2>3, <3>4, <3>5
  <2>4. ASSUME \/ MarkVerified(w) \/ Acknowledge(w) \/ FinishChallenge(w)
               \/ \E l \in Lines : RecordIntent(w, l)
        PROVE  FALSE
    BY <2>4 DEF MarkVerified, Acknowledge, FinishChallenge, RecordIntent, At, RequestsWhole, Redeeming
  <2>5. ASSUME \/ Decrement(w) \/ RecordUsage(w) \/ MarkExhausted(w) \/ CompleteAppointment(w)
               \/ FailRequest(w)
        PROVE  IntentsCommitted'
    BY <1>1, <2>5 DEF Decrement, RecordUsage, MarkExhausted, CompleteAppointment, FailRequest,
       challengeVars
  <2> QED
    BY <1>3, <2>1, <2>2, <2>3, <2>4, <2>5 DEF RequestStep
<1>4. ASSUME NEW s \in Sweepers, SweepStep(s) \/ FailSweep(s) PROVE IntentsCommitted'
  <2>1. ASSUME NEW d \in Challenges, ClaimForRecovery(s, d) PROVE IntentsCommitted'
    <3>1. [challenge[d] EXCEPT !.state = "restoring"].intents = challenge[d].intents
      BY DEF ChallengesTyped, Challenge
    <3>2. challenge[d].intents = {}
      BY <2>1 DEF ClaimForRecovery, Claimable, IntentsCommitted
    <3> QED
      BY <2>1, <3>1, <3>2, WriteIntents DEF ClaimForRecovery
  <2>2. ASSUME ConfirmCompleted(s) \/ CloseReconciled(s) PROVE IntentsCommitted'
    <3> DEFINE old == challenge[sweeper[s].ch]
    <3>1. sweeper[s].ch \in Challenges /\ old \in Challenge
      BY <2>2, PassAt DEF ConfirmCompleted, CloseReconciled, SweepAt, SweepsChallenge,
         ChallengesTyped
    <3>2. \A x, y : [old EXCEPT !.status = x, !.state = y].state = y
      BY <3>1 DEF Challenge
    <3> QED
      BY <2>2, <3>1, <3>2, WriteIntents DEF ConfirmCompleted, CloseReconciled
  <2>3. ASSUME \/ StartSweep(s) \/ JudgeInterrupted(s) \/ FenceOperation(s) \/ RestoreBalance(s)
               \/ CleanupUsages(s) \/ FailSweep(s) \/ (\E l \in Lines : InspectLine(s, l))
               \/ (\E c \in Challenges : SkipCandidate(s, c))
        PROVE  UNCHANGED challenge
    BY <2>3 DEF StartSweep, JudgeInterrupted, FenceOperation, RestoreBalance, CleanupUsages,
       FailSweep, InspectLine, SkipCandidate, challengeVars
  <2> QED
    BY <1>1, <1>4, <2>1, <2>2, <2>3 DEF SweepStep
<1>5. ASSUME NEW a \in Appointments, CancelStep(a) PROVE IntentsCommitted'
  BY <1>1, <1>5 DEF CancelStep, ReadForCancel, WriteCancelled, challengeVars
<1>6. ASSUME NEW d \in Challenges, TimeStep(d) \/ DeleteExpired(d) PROVE IntentsCommitted'
  <2>1. CASE TimeStep(d)
    BY <1>1, <2>1 DEF TimeStep, Expire, GrowQuiet, LeaseLapses
  <2>2. CASE DeleteExpired(d)
    <3>1. [AbsentChallenge EXCEPT !.status = "deleted", !.appt = challenge[d].appt].intents = {}
      BY DEF AbsentChallenge
    <3> QED
      BY <2>2, <3>1 DEF DeleteExpired, ChallengesTyped, IntentsCommitted
  <2> QED
    BY <1>6, <2>1, <2>2
<1>7. CASE UNCHANGED vars
  BY <1>1, <1>7 DEF vars, challengeVars
<1> QED
  BY <1>2, <1>3, <1>4, <1>5, <1>6, <1>7 DEF Next

\* A pass that finds no intent has nothing to fence or to restore.
LEMMA StepPassesIdle ==
  ASSUME TypeInv, IntentsCommitted, PassesIdle, [Next]_vars
  PROVE  PassesIdle'
<1>a. sweeper \in [Sweepers -> Sweeper]
  BY DEF TypeInv, PassesTyped, PlacedSweeper
<1>1. CASE sweeper' = sweeper
  BY <1>1 DEF PassesIdle
<1>2. ASSUME NEW t \in Sweepers, NEW r, GotoSweep(t, r), r.todo = {}, r.pc \notin {"fence", "restore"}
      PROVE  PassesIdle'
  BY <1>a, <1>2 DEF PassesIdle, GotoSweep
<1>3. ASSUME NEW t \in Sweepers, SweepStep(t) \/ FailSweep(t) PROVE PassesIdle'
  <2>a. sweeper[t] \in Sweeper /\ sweeper[t].todo = {}
    BY <1>a DEF PassesIdle
  <2>1. ASSUME NEW cs, GotoSweep(t, Scanning(cs)) PROVE PassesIdle'
    BY <1>2, <2>1 DEF Scanning
  <2>2. ASSUME NEW c \in Challenges, ClaimForRecovery(t, c) PROVE PassesIdle'
    <3>1. challenge[c].intents = {}
      BY <2>2 DEF ClaimForRecovery, Claimable, IntentsCommitted
    <3> QED
      BY <1>2, <2>2, <3>1 DEF ClaimForRecovery
  <2>3. CASE JudgeInterrupted(t) \/ CleanupUsages(t)
    <3>1. \A pc : /\ [sweeper[t] EXCEPT !.pc = pc].pc = pc
                  /\ [sweeper[t] EXCEPT !.pc = pc].todo = {}
      BY <2>a DEF Sweeper
    <3> QED
      BY <1>2, <2>3, <3>1 DEF JudgeInterrupted, CleanupUsages
  <2>4. ASSUME FenceOperation(t) \/ RestoreBalance(t) \/ \E l \in Lines : InspectLine(t, l)
        PROVE  FALSE
    BY <2>4, <2>a DEF FenceOperation, RestoreBalance, InspectLine, SweepAt, PassesIdle
  <2> QED
    BY <1>3, <2>1, <2>2, <2>3, <2>4 DEF SweepStep, StartSweep, SkipCandidate,
       ConfirmCompleted, CloseReconciled, FailSweep
<1>4. ASSUME NEW w \in Workers, NewRequest(w) \/ RequestStep(w) PROVE sweeper' = sweeper
  BY <1>4 DEF NewRequest, RequestStep, RequestOtp, CreateChallenge, ResendChallenge,
     LoadChallenge, SaveExpired, SaveAttempt, ClaimChallenge, MarkVerified, RecordIntent,
     Decrement, Acknowledge, RecordUsage, MarkExhausted, CompleteAppointment, FinishChallenge,
     CommitRedemption, FailRequest, sweepVars
<1>5. ASSUME NEW a \in Appointments, CancelStep(a) PROVE sweeper' = sweeper
  BY <1>5 DEF CancelStep, ReadForCancel, WriteCancelled, sweepVars
<1>6. ASSUME NEW c \in Challenges, TimeStep(c) \/ DeleteExpired(c) PROVE sweeper' = sweeper
  BY <1>6 DEF TimeStep, Expire, GrowQuiet, LeaseLapses, DeleteExpired, sweepVars
<1>7. CASE UNCHANGED vars
  BY <1>1, <1>7 DEF vars, sweepVars
<1> QED
  BY <1>1, <1>3, <1>4, <1>5, <1>6, <1>7 DEF Next

\* Only the commit spends, and it completes an appointment that was in progress.
LEMMA StepPaidOnce ==
  ASSUME Transactional, RedemptionAssumption, TypeInv, CommitInv, [Next]_vars
  PROVE  PaidOnce'
<1>a. ApptOf \in [Lines -> Appointments]
  BY DEF RedemptionAssumption
<1>b. \A w \in Workers : ~Decrement(w) /\ ~CompleteAppointment(w)
  BY DEF CommitInv, RequestsWhole, Redeeming, Decrement, CompleteAppointment, At
<1>c. \A s \in Sweepers : ~FenceOperation(s) /\ ~RestoreBalance(s)
  BY DEF CommitInv, PassesIdle, FenceOperation, RestoreBalance, SweepAt
<1>1. CASE \E w \in Workers : CommitRedemption(w)
  <2> PICK w \in Workers : CommitRedemption(w)
    BY <1>1
  <2> DEFINE c0 == worker[w].ch
             a0 == worker[w].appt
  <2>1. /\ worker[w].todo = LinesOf(a0) /\ c0 \in Challenges
        /\ apptStatus[a0] = "in_progress"
        /\ apptStatus' = [apptStatus EXCEPT ![a0] = "completed"]
        /\ applied' = applied \cup Decrements(c0, LinesOf(a0))
    BY RequestAt DEF CommitRedemption, FirstCompletion, CommitInv, RequestsWhole, At, TypeInv,
       HoldsChallenge, Redeeming
  <2>2. \A c \in Challenges, l \in Lines :
          Dec(c, l) \in applied' <=> Dec(c, l) \in applied \/ (c = c0 /\ ApptOf[l] = a0)
    BY <2>1, OperationsDiffer DEF Decrements, LinesOf
  <2>3. \A c \in Challenges, l \in Lines : Restore(c, l) \notin applied'
    BY <2>1, OperationsDiffer DEF Decrements, CommitInv, PaidOnce
  <2>4. \A l \in Lines : apptStatus'[ApptOf[l]] =
                           IF ApptOf[l] = a0 THEN "completed" ELSE apptStatus[ApptOf[l]]
    BY <1>a, <2>1 DEF TypeInv, AppointmentsTyped
  <2>5. \A c \in Challenges, l \in Lines : ApptOf[l] = a0 => Dec(c, l) \notin applied
    BY <2>1 DEF CommitInv, PaidOnce
  <2>6. \A c \in Challenges, l \in Lines :
          Dec(c, l) \in applied' => apptStatus'[ApptOf[l]] # "in_progress"
    BY <2>2, <2>4 DEF CommitInv, PaidOnce
  <2>7. \A c, d \in Challenges, l \in Lines :
          Dec(c, l) \in applied' /\ Dec(d, l) \in applied' => c = d
    BY <2>2, <2>5 DEF CommitInv, PaidOnce
  <2>8. \A l \in Lines : apptStatus'[ApptOf[l]] = "completed" =>
                           \E c \in Challenges : Dec(c, l) \in applied'
    BY <2>1, <2>2, <2>4 DEF CommitInv, PaidOnce
  <2> QED
    BY <2>3, <2>6, <2>7, <2>8 DEF PaidOnce, Dec, Restore
<1>2. CASE ~\E w \in Workers : CommitRedemption(w)
  <2>1. applied' = applied
    BY <1>2, <1>b, <1>c, LedgerSteps
  <2>2. \A l \in Lines : apptStatus'[ApptOf[l]] \in {apptStatus[ApptOf[l]], "cancelled"}
    BY <1>2, <1>a, <1>b, AppointmentMoves
  <2> QED
    BY <2>1, <2>2 DEF CommitInv, PaidOnce, Dec, Restore
<1> QED
  BY <1>1, <1>2

\* CommitInv holds of every reachable state when there are transactions.
LEMMA CommitInvariant == Transactional /\ Spec => [](TypeInv /\ CommitInv)
<1>1. Transactional /\ Init => TypeInv /\ CommitInv
  <2> SUFFICES ASSUME Init PROVE TypeInv /\ CommitInv
    OBVIOUS
  <2>1. RequestsWhole
    BY DEF Init, RequestsWhole, IdleWorker, Redeeming, HoldsChallenge
  <2>2. IntentsCommitted /\ PassesIdle
    BY DEF Init, IntentsCommitted, AbsentChallenge, PassesIdle, Scanning
  <2>3. PaidOnce
    BY RedemptionAssumption DEF Init, PaidOnce, RedemptionAssumption
  <2> QED
    BY <2>1, <2>2, <2>3, InitTypeInv, RedemptionAssumption DEF CommitInv
<1>2. ASSUME Transactional, TypeInv /\ CommitInv, [Next]_vars PROVE (TypeInv /\ CommitInv)'
  <2>1. TypeInv' /\ PaidOnce'
    BY <1>2, StepTyped, StepPaidOnce, RedemptionAssumption
  <2>2. RequestsWhole' /\ IntentsCommitted' /\ PassesIdle'
    BY <1>2, StepRequestsWhole, StepIntents, StepPassesIdle, RedemptionAssumption DEF CommitInv
  <2> QED
    BY <2>1, <2>2 DEF CommitInv
<1>3. CASE Transactional
  <2>1. Init => TypeInv /\ CommitInv
    BY <1>1, <1>3
  <2>2. (TypeInv /\ CommitInv) /\ [Next]_vars => (TypeInv /\ CommitInv)'
    BY <1>2, <1>3
  <2> QED
    BY <2>1, <2>2, PTL DEF Spec
<1> QED
  BY <1>3

\* With transactions a service line never costs the customer two units, however
\* many codes, requests and passes its appointment has seen.
THEOREM ChargedOnce == Transactional /\ Spec => []LineChargedAtMostOnce
<1>1. CommitInv => LineChargedAtMostOnce
  <2> SUFFICES ASSUME CommitInv, NEW l \in Lines PROVE Cardinality(Charges(l)) <= 1
    BY DEF LineChargedAtMostOnce
  <2>1. \A c, d \in Charges(l) : c = d
    BY DEF Charges, CommitInv, PaidOnce
  <2>2. CASE Charges(l) = {}
    BY <2>2, FS_EmptySet
  <2>3. ASSUME NEW c \in Charges(l) PROVE Cardinality(Charges(l)) <= 1
    <3>1. Charges(l) = {c}
      BY <2>1, <2>3
    <3>2. Cardinality({c}) = 1
      BY FS_Singleton
    <3> QED
      BY <3>1, <3>2
  <2> QED
    BY <2>2, <2>3
<1> QED
  BY <1>1, CommitInvariant, PTL

\* With transactions every line of a completed appointment has cost a unit, and no
\* recovery gives it back.
THEOREM PaidOnCompletion == Transactional /\ Spec => []CompletedIsPaid
<1>1. CommitInv => CompletedIsPaid
  BY DEF CommitInv, PaidOnce, CompletedIsPaid, Charges
<1> QED
  BY <1>1, CommitInvariant, PTL

-----------------------------------------------------------------------------
(* When no process sleeps through an age cutoff: a pass only ever takes up a   *)
(* challenge whose request is over, so it undoes all that the request spent,   *)
(* and nothing is spent or restored behind it.                                 *)

\* c has been claimed by a request that is now over.
Redeemed(c) == \E w \in Workers : worker[w].ch = c /\ worker[w].pc \in Redeeming
Abandoned(c) == Claimed(c) /\ ~Redeemed(c)

\* A pass has selected c, or is at work on it.
Taken(c) == \E s \in Sweepers : sweeper[s].ch = c \/ c \in sweeper[s].found

\* Recovery touches abandoned challenges only.
AloneInv ==
  /\ \A c \in Challenges : ~Claimed(c) => challenge[c].state = "pending"
  /\ \A c \in quiet : ~Redeemed(c)
  /\ \A c \in Challenges :
       challenge[c].state \in {"restoring", "reconciled"} \/ Taken(c) => Abandoned(c)
  /\ \A c \in Challenges, l \in Lines : Restore(c, l) \in applied => Abandoned(c)

\* Every decrement, and the one about to be made, has its intent on record as
\* long as the challenge exists.
Named(c, l) == challenge[c].status = "deleted" \/ l \in challenge[c].intents

IntentInv ==
  /\ \A c \in Challenges, l \in Lines : Dec(c, l) \in applied => Named(c, l)
  /\ \A w \in Workers : worker[w].pc = "decrement" => Named(worker[w].ch, worker[w].line)

\* What was spent under c has come back, the lines of ls apart.
SettledBut(c, ls) ==
  \A l \in Lines \ ls : Dec(c, l) \in applied => Restore(c, l) \in applied

SettleInv ==
  /\ \A c \in Challenges : challenge[c].state = "reconciled" => SettledBut(c, {})
  /\ \A s \in Sweepers :
       /\ sweeper[s].pc \in SweepsChallenge => SettledBut(sweeper[s].ch, sweeper[s].todo)
       /\ sweeper[s].pc = "fence" => Dec(sweeper[s].ch, sweeper[s].line) \notin applied
       /\ sweeper[s].pc = "close" => sweeper[s].todo = {}

\* A request works on all the lines of its challenge's appointment: each is still
\* before it or spent.
CoverInv ==
  \A w \in Workers : worker[w].pc \in HoldsChallenge =>
    /\ challenge[worker[w].ch].status # "absent"
    /\ worker[w].appt = challenge[worker[w].ch].appt
    /\ \A l \in LinesOf(worker[w].appt) :
         l \in worker[w].todo \/ Dec(worker[w].ch, l) \in applied
    /\ worker[w].pc \in {"acknowledge", "record"} => Dec(worker[w].ch, worker[w].line) \in applied
    /\ worker[w].pc \in {"complete", "finish"} => worker[w].todo = {}

\* c paid for l, and no pass is about to undo it.
PaysFor(c, l) ==
  /\ challenge[c].appt = ApptOf[l] /\ c \in Charges(l)
  /\ \A s \in Sweepers : sweeper[s].ch = c => sweeper[s].pc = "judge"

PaidInv ==
  \A l \in Lines : apptStatus[ApptOf[l]] = "completed" => \E c \in Challenges : PaysFor(c, l)

\* A challenge comes into the hands of a request only by the claim.
LEMMA RedeemedByClaim ==
  ASSUME RedemptionAssumption, TypeInv, [Next]_vars, NEW c \in Challenges,
         Redeemed(c)', ~Redeemed(c)
  PROVE  \E w \in Workers : ClaimChallenge(w) /\ worker[w].ch = c
<1>1. PICK w \in Workers : worker'[w].ch = c /\ worker'[w].pc \in Redeeming
  BY DEF Redeemed
<1>2. OwnStep(w)
  BY <1>1, OthersStay DEF Redeemed
<1>3. CASE GoesOn(w)
  BY <1>1, <1>3 DEF GoesOn, SameWork, MarkVerified, RecordIntent, Decrement, Acknowledge,
     MarkExhausted, CompleteAppointment, At, Redeemed, Redeeming
<1>4. CASE LineUsed(w)
  BY <1>1, <1>4 DEF LineUsed, RecordUsage, At, Redeemed, Redeeming
<1> QED
  BY <1>1, <1>2, <1>3, <1>4, Lands DEF Loaded, Redeeming

\* A challenge once abandoned is never redeemed again.
LEMMA AbandonedForGood ==
  ASSUME RedemptionAssumption, TypeInv, [Next]_vars, NEW c \in Challenges, Abandoned(c)
  PROVE  Abandoned(c)' /\ \A l \in Lines : Dec(c, l) \in applied' => Dec(c, l) \in applied
<1>1. Claimed(c)'
  BY ClaimedForGood DEF Abandoned
<1>2. ~Redeemed(c)'
  BY RedeemedByClaim DEF Abandoned, Claimed, ClaimChallenge
<1>3. \A l \in Lines : Dec(c, l) \in applied' => Dec(c, l) \in applied
  BY OnlyRedeemerSpends DEF Abandoned, Redeemed
<1> QED
  BY <1>1, <1>2, <1>3 DEF Abandoned

\* How a step may rewrite a challenge: it keeps its appointment and its intents
\* unless it is deleted, and a deleted one is left alone.
KeepsRecord(c) ==
  /\ challenge[c].status = "deleted" => challenge'[c] = challenge[c]
  /\ challenge[c].status # "absent" =>
       /\ challenge'[c].status # "absent" /\ challenge'[c].appt = challenge[c].appt
       /\ challenge'[c].status = "deleted" \/ challenge[c].intents \subseteq challenge'[c].intents

\* Its state is moved on by its redeemer or by a pass that has taken it.
MovesState(c) ==
  \/ challenge'[c].state \in {challenge[c].state, "pending"}
  \/ Redeemed(c) /\ challenge'[c].state \in {"in_redemption", "decremented", "completed"}
  \/ Taken(c) /\ challenge'[c].state \in {"restoring", "completed"}
  \/ /\ challenge'[c].state = "reconciled"
     /\ \E s \in Sweepers : CloseReconciled(s) /\ sweeper[s].ch = c

\* A write either leaves the document alone or replaces it.
LEMMA WriteIsOne ==
  ASSUME TypeInv, NEW d \in Challenges, NEW rec,
         Update(d, rec) \/ \E w \in Workers : worker[w].ch = d /\ Save(w, rec)
  PROVE  /\ \A c \in Challenges \ {d} : challenge'[c] = challenge[c]
         /\ challenge'[d] = challenge[d] \/ (Exists(d) /\ challenge'[d] = rec)
  BY DEF TypeInv, ChallengesTyped, Update, Save

\* What is written decides how the challenges move.
LEMMA WriteMoves ==
  ASSUME TypeInv, NEW d \in Challenges, NEW rec,
         Update(d, rec) \/ \E w \in Workers : worker[w].ch = d /\ Save(w, rec),
         rec.status # "absent", rec.appt = challenge[d].appt,
         challenge[d].intents \subseteq rec.intents,
         \/ rec.state = challenge[d].state
         \/ Redeemed(d) /\ rec.state \in {"in_redemption", "decremented", "completed"}
         \/ Taken(d) /\ rec.state \in {"restoring", "completed"}
         \/ rec.state = "reconciled" /\ \E s \in Sweepers : CloseReconciled(s) /\ sweeper[s].ch = d
  PROVE  \A c \in Challenges : KeepsRecord(c) /\ MovesState(c)
<1>1. ASSUME NEW c \in Challenges, challenge'[c] = challenge[c] PROVE KeepsRecord(c) /\ MovesState(c)
  BY <1>1 DEF KeepsRecord, MovesState
<1>2. ASSUME Exists(d), challenge'[d] = rec PROVE KeepsRecord(d) /\ MovesState(d)
  BY <1>2 DEF KeepsRecord, MovesState, Exists
<1> QED
  BY <1>1, <1>2, WriteIsOne

\* The writes of a request.
LEMMA RequestMoves ==
  ASSUME RedemptionAssumption, TypeInv, NEW w \in Workers, OwnStep(w), NEW c \in Challenges
  PROVE  KeepsRecord(c) /\ MovesState(c)
<1> USE DEF TypeInv
<1> DEFINE d == worker[w].ch
           old == challenge[d]
<1>1. ASSUME UNCHANGED challenge PROVE KeepsRecord(c) /\ MovesState(c)
  BY <1>1 DEF KeepsRecord, MovesState
<1>2. ASSUME NEW e \in Challenges, CreateChallenge(w, e) PROVE KeepsRecord(c) /\ MovesState(c)
  <2>1. challenge[e].status = "absent" /\ challenge' = [challenge EXCEPT ![e] = NewChallenge(worker[w].appt)]
    BY <1>2 DEF CreateChallenge
  <2>2. NewChallenge(worker[w].appt).state = "pending"
    BY DEF NewChallenge
  <2> QED
    BY <2>1, <2>2 DEF ChallengesTyped, KeepsRecord, MovesState
<1>3. CASE ResendChallenge(w)
  <2>1. d \in Challenges /\ old \in Challenge
    BY <1>3, RequestAt DEF ResendChallenge, Worker, ChallengesTyped
  <2>2. /\ Resent(old).status = old.status /\ Resent(old).appt = old.appt
        /\ Resent(old).intents = old.intents /\ Resent(old).state = old.state
    BY <2>1 DEF Resent, Challenge
  <2>3. Save(w, Resent(old)) /\ old.status # "absent"
    BY <1>3 DEF ResendChallenge, Save, Exists
  <2> QED
    BY <2>1, <2>2, <2>3, WriteMoves
<1>4. ASSUME SaveExpired(w) \/ SaveAttempt(w) \/ ClaimChallenge(w)
      PROVE  KeepsRecord(c) /\ MovesState(c)
  <2>1. d \in Challenges /\ old \in Challenge /\ old.status # "absent"
    BY <1>4, RequestAt DEF SaveExpired, SaveAttempt, ClaimChallenge, Save, Exists, At,
       HoldsChallenge, ChallengesTyped
  <2>2. /\ AfterWrongCode(old).appt = old.appt /\ AfterWrongCode(old).status # "absent"
        /\ AfterWrongCode(old).intents = old.intents /\ AfterWrongCode(old).state = old.state
    BY <2>1 DEF Challenge, AfterWrongCode
  <2>3. CASE SaveExpired(w)
    <3>1. PICK rec : rec = [old EXCEPT !.status = "expired"]
      OBVIOUS
    <3>2. /\ rec.status = "expired" /\ rec.appt = old.appt
         /\ rec.intents = old.intents /\ rec.state = old.state
      BY <2>1, <3>1 DEF Challenge
    <3> QED
      BY <2>1, <2>3, <3>1, <3>2, WriteMoves DEF SaveExpired
  <2>4. CASE SaveAttempt(w)
    BY <2>1, <2>2, <2>4, WriteMoves DEF SaveAttempt
  <2>5. CASE ClaimChallenge(w)
    <3>1. PICK rec : rec = [old EXCEPT !.status = "in_redemption"]
      OBVIOUS
    <3>2. /\ rec.status = "in_redemption" /\ rec.appt = old.appt
         /\ rec.intents = old.intents /\ rec.state = old.state
      BY <2>1, <3>1 DEF Challenge
    <3> QED
      BY <2>1, <2>5, <3>1, <3>2, WriteMoves DEF ClaimChallenge
  <2> QED
    BY <1>4, <2>3, <2>4, <2>5
<1>5. ASSUME \/ MarkVerified(w) \/ Acknowledge(w) \/ FinishChallenge(w) \/ CommitRedemption(w)
             \/ \E l \in Lines : RecordIntent(w, l)
      PROVE  KeepsRecord(c) /\ MovesState(c)
  <2>1. worker[w].pc \in Redeeming
    BY <1>5 DEF MarkVerified, Acknowledge, FinishChallenge, CommitRedemption, RecordIntent, At,
       Redeeming
  <2>2. d \in Challenges /\ old \in Challenge /\ Redeemed(d) /\ old.status # "absent"
    <3>1. old.status # "absent"
      BY <1>5 DEF MarkVerified, Acknowledge, FinishChallenge, CommitRedemption, RecordIntent,
         Save, Exists
    <3> QED
      BY <2>1, <3>1, RequestAt DEF HoldsChallenge, ChallengesTyped, Redeemed
  <2>3. CASE MarkVerified(w)
    <3>1. PICK rec : rec = [old EXCEPT !.status = "verified"]
      OBVIOUS
    <3>2. /\ rec.status = "verified" /\ rec.appt = old.appt
         /\ rec.intents = old.intents /\ rec.state = old.state
      BY <2>2, <3>1 DEF Challenge
    <3> QED
      BY <2>2, <2>3, <3>1, <3>2, WriteMoves DEF MarkVerified
  <2>4. CASE Acknowledge(w)
    <3>1. PICK rec : rec = [old EXCEPT !.state = "decremented"]
      OBVIOUS
    <3>2. /\ rec.status = old.status /\ rec.appt = old.appt
         /\ rec.intents = old.intents /\ rec.state = "decremented"
      BY <2>2, <3>1 DEF Challenge
    <3> QED
      BY <2>2, <2>4, <3>1, <3>2, WriteMoves DEF Acknowledge
  <2>5. CASE FinishChallenge(w)
    <3>1. PICK rec : rec = [old EXCEPT !.state = "completed"]
      OBVIOUS
    <3>2. /\ rec.status = old.status /\ rec.appt = old.appt
         /\ rec.intents = old.intents /\ rec.state = "completed"
      BY <2>2, <3>1 DEF Challenge
    <3> QED
      BY <2>2, <2>5, <3>1, <3>2, WriteMoves DEF FinishChallenge
  <2>6. CASE CommitRedemption(w)
    <3>1. PICK rec : rec = [old EXCEPT !.status = "verified", !.state = "completed",
                                       !.intents = @ \cup worker[w].todo]
      OBVIOUS
    <3>2. /\ rec.status = "verified" /\ rec.appt = old.appt /\ rec.state = "completed"
          /\ old.intents \subseteq rec.intents
      BY <2>2, <3>1 DEF Challenge
    <3> QED
      BY <2>2, <2>6, <3>1, <3>2, WriteMoves DEF CommitRedemption
  <2>7. ASSUME NEW l \in Lines, RecordIntent(w, l) PROVE KeepsRecord(c) /\ MovesState(c)
    <3>1. PICK rec : rec = [old EXCEPT !.intents = @ \cup {l}, !.state = "in_redemption"]
      OBVIOUS
    <3>2. /\ rec.status = old.status /\ rec.appt = old.appt /\ rec.state = "in_redemption"
          /\ old.intents \subseteq rec.intents
      BY <2>2, <3>1 DEF Challenge
    <3> QED
      BY <2>2, <2>7, <3>1, <3>2, WriteMoves DEF RecordIntent
  <2> QED
    BY <1>5, <2>3, <2>4, <2>5, <2>6, <2>7
<1> QED
  BY <1>1, <1>2, <1>3, <1>4, <1>5 DEF OwnStep, NewRequest, RequestOtp, LoadChallenge, RequestStep,
     Decrement, RecordUsage, MarkExhausted, CompleteAppointment, FailRequest, challengeVars

\* Every step rewrites a challenge in one of these ways.
LEMMA ChallengeMoves ==
  ASSUME RedemptionAssumption, TypeInv, [Next]_vars, NEW c \in Challenges
  PROVE  KeepsRecord(c) /\ MovesState(c)
<1> USE DEF TypeInv
<1>1. ASSUME UNCHANGED challenge PROVE KeepsRecord(c) /\ MovesState(c)
  BY <1>1 DEF KeepsRecord, MovesState
<1>2. ASSUME NEW s \in Sweepers, SweepStep(s) \/ FailSweep(s) PROVE KeepsRecord(c) /\ MovesState(c)
  <2>1. ASSUME NEW d \in Challenges, ClaimForRecovery(s, d) PROVE KeepsRecord(c) /\ MovesState(c)
    <3>1. PICK rec : rec = [challenge[d] EXCEPT !.state = "restoring"]
      OBVIOUS
    <3>2. /\ rec.status = challenge[d].status /\ rec.appt = challenge[d].appt
          /\ rec.intents = challenge[d].intents /\ rec.state = "restoring"
      BY <3>1 DEF ChallengesTyped, Challenge
    <3>3. rec.status # "absent" /\ Taken(d) /\ Update(d, rec)
      BY <2>1, <3>1, <3>2 DEF ClaimForRecovery, Claimable, Exists, Taken
    <3> QED
      BY <3>2, <3>3, WriteMoves
  <2>2. ASSUME ConfirmCompleted(s) \/ CloseReconciled(s) PROVE KeepsRecord(c) /\ MovesState(c)
    <3> DEFINE d == sweeper[s].ch
               old == challenge[d]
    <3>1. d \in Challenges /\ old \in Challenge /\ Taken(d)
      BY <2>2, PassAt DEF ConfirmCompleted, CloseReconciled, SweepAt, SweepsChallenge,
         ChallengesTyped, Taken
    <3>2. CASE ConfirmCompleted(s)
      <4>1. PICK rec : rec = [old EXCEPT !.status = "verified", !.state = "completed"]
        OBVIOUS
      <4>2. /\ rec.status = "verified" /\ rec.appt = old.appt
            /\ rec.intents = old.intents /\ rec.state = "completed"
        BY <3>1, <4>1 DEF Challenge
      <4> QED
        BY <3>1, <3>2, <4>1, <4>2, WriteMoves DEF ConfirmCompleted
    <3>3. CASE CloseReconciled(s)
      <4>1. PICK rec : rec = [old EXCEPT !.status = "exhausted", !.state = "reconciled"]
        OBVIOUS
      <4>2. /\ rec.status = "exhausted" /\ rec.appt = old.appt
            /\ rec.intents = old.intents /\ rec.state = "reconciled"
        BY <3>1, <4>1 DEF Challenge
      <4>3. Update(d, rec)
        BY <3>3, <4>1 DEF CloseReconciled
      <4> QED
        BY <3>1, <3>3, <4>2, <4>3, WriteMoves
    <3> QED
      BY <2>2, <3>2, <3>3
  <2>3. ASSUME \/ StartSweep(s) \/ JudgeInterrupted(s) \/ FenceOperation(s) \/ RestoreBalance(s)
               \/ CleanupUsages(s) \/ FailSweep(s) \/ (\E l \in Lines : InspectLine(s, l))
               \/ (\E e \in Challenges : SkipCandidate(s, e))
        PROVE  UNCHANGED challenge
    BY <2>3 DEF StartSweep, JudgeInterrupted, FenceOperation, RestoreBalance, CleanupUsages,
       FailSweep, InspectLine, SkipCandidate, challengeVars
  <2> QED
    BY <1>1, <1>2, <2>1, <2>2, <2>3 DEF SweepStep
<1>3. ASSUME NEW a \in Appointments, CancelStep(a) PROVE KeepsRecord(c) /\ MovesState(c)
  BY <1>1, <1>3 DEF CancelStep, ReadForCancel, WriteCancelled, challengeVars
<1>4. ASSUME NEW d \in Challenges, TimeStep(d) \/ DeleteExpired(d)
      PROVE  KeepsRecord(c) /\ MovesState(c)
  <2>1. CASE TimeStep(d)
    BY <1>1, <2>1 DEF TimeStep, Expire, GrowQuiet, LeaseLapses
  <2>2. CASE DeleteExpired(d)
    <3>1. PICK rec : rec = [AbsentChallenge EXCEPT !.status = "deleted", !.appt = challenge[d].appt]
      OBVIOUS
    <3>2. rec.status = "deleted" /\ rec.appt = challenge[d].appt /\ rec.state = "pending"
      BY <3>1 DEF AbsentChallenge
    <3>3. Exists(d) /\ challenge' = [challenge EXCEPT ![d] = rec]
      BY <2>2, <3>1 DEF DeleteExpired
    <3> QED
      BY <3>2, <3>3 DEF ChallengesTyped, KeepsRecord, MovesState, Exists
  <2> QED
    BY <1>4, <2>1, <2>2
<1>5. CASE UNCHANGED vars
  BY <1>1, <1>5 DEF vars, challengeVars
<1> QED
  BY <1>2, <1>3, <1>4, <1>5, RequestMoves DEF OwnStep, Next

\* A pass that works on with the same challenge.
PassGoesOn(s) ==
  /\ sweeper'[s].ch = sweeper[s].ch /\ sweeper'[s].found = sweeper[s].found
  /\ \/ JudgeInterrupted(s) /\ sweeper'[s].pc = "inspect" /\ sweeper'[s].todo = sweeper[s].todo
     \/ \E l \in Lines :
          /\ InspectLine(s, l)
          /\ \/ /\ sweeper'[s].pc = "inspect" /\ sweeper'[s].todo = sweeper[s].todo \ {l}
                /\ Restore(sweeper[s].ch, l) \in applied
             \/ /\ sweeper'[s].pc = "restore" /\ sweeper'[s].todo = sweeper[s].todo
                /\ sweeper'[s].line = l
             \/ /\ sweeper'[s].pc = "fence" /\ sweeper'[s].todo = sweeper[s].todo
                /\ sweeper'[s].line = l /\ Dec(sweeper[s].ch, l) \notin applied
     \/ /\ FenceOperation(s) \/ RestoreBalance(s)
        /\ sweeper'[s].pc = "inspect" /\ sweeper'[s].todo = sweeper[s].todo \ {sweeper[s].line}
     \/ CleanupUsages(s) /\ sweeper'[s].pc = "close" /\ sweeper'[s].todo = sweeper[s].todo

\* It takes up the challenge c of its list.
TakesUp(s, c) ==
  /\ ClaimForRecovery(s, c)
  /\ sweeper'[s].pc = "judge" /\ sweeper'[s].ch = c /\ sweeper'[s].todo = challenge[c].intents
  /\ sweeper'[s].found \subseteq sweeper[s].found

\* It is between two candidates, perhaps with a new list, or over.
LetsGo(s) ==
  /\ sweeper'[s].pc \in {"idle", "scan"} /\ sweeper'[s].ch = NoChallenge
  /\ \/ sweeper'[s].found \subseteq sweeper[s].found
     \/ StartSweep(s) /\ sweeper'[s].found = {c \in Challenges : Interrupted(c)}

\* One of these, or the step is not its own.
PassMoves(s) ==
  \/ sweeper'[s] = sweeper[s]
  \/ PassGoesOn(s)
  \/ \E c \in Challenges : TakesUp(s, c)
  \/ LetsGo(s)

\* Where a pass can be after its own step.
LEMMA PassLands ==
  ASSUME TypeInv, NEW s \in Sweepers, SweepStep(s) \/ FailSweep(s)
  PROVE  PassMoves(s)
<1>a. sweeper \in [Sweepers -> Sweeper] /\ sweeper[s] \in Sweeper
  BY DEF TypeInv, PassesTyped, PlacedSweeper
<1>b. ASSUME NEW r, GotoSweep(s, r) PROVE sweeper'[s] = r
  BY <1>a, <1>b DEF GotoSweep
<1>1. ASSUME NEW cs, GotoSweep(s, Scanning(cs)), cs \subseteq sweeper[s].found PROVE PassMoves(s)
  BY <1>1, <1>b DEF Scanning, PassMoves, LetsGo
<1>2. CASE StartSweep(s)
  <2>1. sweeper'[s] = Scanning({c \in Challenges : Interrupted(c)})
    BY <1>2, <1>b DEF StartSweep
  <2> QED
    BY <1>2, <2>1 DEF Scanning, PassMoves, LetsGo
<1>3. ASSUME NEW c \in Challenges, ClaimForRecovery(s, c) PROVE PassMoves(s)
  <2>1. sweeper'[s] = [pc |-> "judge", found |-> sweeper[s].found \ {c}, ch |-> c,
                       todo |-> challenge[c].intents, line |-> NoLine]
    BY <1>3, <1>b DEF ClaimForRecovery
  <2> QED
    BY <1>3, <2>1 DEF PassMoves, TakesUp
<1>4. CASE JudgeInterrupted(s)
  <2>1. sweeper'[s] = [sweeper[s] EXCEPT !.pc = "inspect"]
    BY <1>4, <1>b DEF JudgeInterrupted
  <2> QED
    BY <1>4, <1>a, <2>1 DEF PassMoves, PassGoesOn, Sweeper
<1>5. ASSUME NEW l \in Lines, InspectLine(s, l) PROVE PassMoves(s)
  <2> DEFINE c == sweeper[s].ch
  <2>1. CASE sweeper'[s] = [sweeper[s] EXCEPT !.todo = @ \ {l}] /\ Restore(c, l) \in applied
    BY <1>5, <1>a, <2>1 DEF PassMoves, PassGoesOn, Sweeper, InspectLine, SweepAt
  <2>2. CASE sweeper'[s] = [sweeper[s] EXCEPT !.pc = "restore", !.line = l]
    BY <1>5, <1>a, <2>2 DEF PassMoves, PassGoesOn, Sweeper
  <2>3. CASE sweeper'[s] = [sweeper[s] EXCEPT !.pc = "fence", !.line = l] /\ ~Committed(c, l)
    BY <1>5, <1>a, <2>3 DEF PassMoves, PassGoesOn, Sweeper, Committed
  <2> QED
    BY <1>5, <1>b, <2>1, <2>2, <2>3 DEF InspectLine
<1>6. CASE FenceOperation(s) \/ RestoreBalance(s)
  <2>1. sweeper'[s] = [sweeper[s] EXCEPT !.pc = "inspect", !.line = NoLine,
                                         !.todo = @ \ {sweeper[s].line}]
    BY <1>6, <1>b DEF FenceOperation, RestoreBalance, LineDone
  <2> QED
    BY <1>6, <1>a, <2>1 DEF PassMoves, PassGoesOn, Sweeper
<1>7. CASE CleanupUsages(s)
  <2>1. sweeper'[s] = [sweeper[s] EXCEPT !.pc = "close"]
    BY <1>7, <1>b DEF CleanupUsages
  <2> QED
    BY <1>7, <1>a, <2>1 DEF PassMoves, PassGoesOn, Sweeper
<1> QED
  BY <1>1, <1>2, <1>3, <1>4, <1>5, <1>6, <1>7 DEF SweepStep, FailSweep, SkipCandidate,
     ConfirmCompleted, CloseReconciled

\* What any step makes of a pass.
LEMMA PassesMove ==
  ASSUME TypeInv, [Next]_vars, NEW s \in Sweepers
  PROVE  PassMoves(s)
<1>1. CASE SweepStep(s) \/ FailSweep(s)
  BY <1>1, PassLands
<1>2. ASSUME NEW t \in Sweepers \ {s}, SweepStep(t) \/ FailSweep(t) PROVE sweeper'[s] = sweeper[s]
  <2>1. \E r : GotoSweep(t, r)
    BY <1>2, ZenonT(60) DEF SweepStep, FailSweep, StartSweep, ClaimForRecovery, SkipCandidate,
       ConfirmCompleted, JudgeInterrupted, InspectLine, FenceOperation, RestoreBalance,
       LineDone, CleanupUsages, CloseReconciled
  <2> QED
    BY <2>1 DEF TypeInv, PassesTyped, GotoSweep
<1>3. ASSUME NEW w \in Workers, NewRequest(w) \/ RequestStep(w) PROVE sweeper' = sweeper
  BY <1>3 DEF NewRequest, RequestStep, RequestOtp, CreateChallenge, ResendChallenge,
     LoadChallenge, SaveExpired, SaveAttempt, ClaimChallenge, MarkVerified, RecordIntent,
     Decrement, Acknowledge, RecordUsage, MarkExhausted, CompleteAppointment, FinishChallenge,
     CommitRedemption, FailRequest, sweepVars
<1>4. ASSUME NEW a \in Appointments, CancelStep(a) PROVE sweeper' = sweeper
  BY <1>4 DEF CancelStep, ReadForCancel, WriteCancelled, sweepVars
<1>5. ASSUME NEW c \in Challenges, TimeStep(c) \/ DeleteExpired(c) PROVE sweeper' = sweeper
  BY <1>5 DEF TimeStep, Expire, GrowQuiet, LeaseLapses, DeleteExpired, sweepVars
<1>6. CASE UNCHANGED vars
  BY <1>6 DEF vars, sweepVars, PassMoves
<1> QED
  BY <1>1, <1>2, <1>3, <1>4, <1>5, <1>6 DEF Next, PassMoves

\* A challenge falls quiet only when nobody holds it.
LEMMA FallsQuiet ==
  ASSUME ~SlowProcesses, TypeInv, [Next]_vars, NEW c \in quiet', c \notin quiet
  PROVE  ~Redeemed(c) /\ UNCHANGED worker
<1>1. ASSUME NEW w \in Workers, OwnStep(w) PROVE quiet' \subseteq quiet
  BY <1>1, ZenonT(60) DEF OwnStep, NewRequest, RequestStep, RequestOtp, CreateChallenge,
     ResendChallenge, LoadChallenge, SaveExpired, SaveAttempt, ClaimChallenge, MarkVerified, RecordIntent,
     Decrement, Acknowledge, RecordUsage, MarkExhausted, CompleteAppointment, FinishChallenge,
     CommitRedemption, FailRequest, challengeVars, Save, Update
<1>2. ASSUME NEW s \in Sweepers, SweepStep(s) \/ FailSweep(s) PROVE quiet' \subseteq quiet
  BY <1>2 DEF SweepStep, FailSweep, StartSweep, ClaimForRecovery, SkipCandidate,
     ConfirmCompleted, JudgeInterrupted, InspectLine, FenceOperation, RestoreBalance, LineDone,
     CleanupUsages, CloseReconciled, challengeVars, Update
<1>3. ASSUME NEW a \in Appointments, CancelStep(a) PROVE quiet' \subseteq quiet
  BY <1>3 DEF CancelStep, ReadForCancel, WriteCancelled, challengeVars
<1>4. ASSUME NEW d \in Challenges, TimeStep(d) \/ DeleteExpired(d)
      PROVE  ~Redeemed(c) /\ UNCHANGED worker
  <2>1. GrowQuiet(d) /\ d = c
    BY <1>4 DEF TimeStep, DeleteExpired, Expire, GrowQuiet, LeaseLapses
  <2> QED
    BY <2>1 DEF GrowQuiet, Held, Redeemed, requestVars
<1>5. CASE UNCHANGED vars
  BY <1>5 DEF vars, challengeVars
<1> QED
  BY <1>1, <1>2, <1>3, <1>4, <1>5 DEF OwnStep, Next

\* Only a pass that holds a challenge gives back what it spent.
LEMMA OnlyPassesRestore ==
  ASSUME TypeInv, [Next]_vars, NEW c, NEW l, Restore(c, l) \in applied', Restore(c, l) \notin applied
  PROVE  \E s \in Sweepers : sweeper[s].ch = c /\ RestoreBalance(s)
<1>1. ASSUME NEW w \in Workers, Decrement(w) \/ CommitRedemption(w) PROVE FALSE
  BY <1>1, OperationsDiffer DEF Decrement, CommitRedemption, Decrements
<1>2. ASSUME NEW s \in Sweepers, FenceOperation(s) PROVE FALSE
  BY <1>2, OperationsDiffer DEF FenceOperation
<1>3. ASSUME NEW s \in Sweepers, RestoreBalance(s) PROVE sweeper[s].ch = c
  BY <1>3, OperationsDiffer DEF RestoreBalance
<1> QED
  BY <1>1, <1>2, <1>3, LedgerSteps

\* Every action keeps recovery away from requests that are still running.
LEMMA StepAlone ==
  ASSUME ~SlowProcesses, RedemptionAssumption, TypeInv, RedeemerInv, AloneInv, [Next]_vars
  PROVE  AloneInv'
<1>a. \A c \in Challenges : Redeemed(c) => Claimed(c)
  BY DEF RedeemerInv, Redeemed
<1>1. ASSUME NEW c \in Challenges, ~Claimed(c)' PROVE challenge'[c].state = "pending"
  <2>1. ~Claimed(c) /\ challenge[c].state = "pending"
    BY <1>1, ClaimedForGood DEF AloneInv
  <2>2. ~Redeemed(c) /\ ~Taken(c)
    BY <1>a, <2>1 DEF AloneInv, Abandoned
  <2>3. ~\E s \in Sweepers : CloseReconciled(s) /\ sweeper[s].ch = c
    BY <2>2 DEF Taken
  <2> QED
    BY <2>1, <2>2, <2>3, ChallengeMoves DEF MovesState
<1>2. ASSUME NEW c \in quiet' PROVE ~Redeemed(c)'
  <2>1. CASE c \notin quiet
    BY <2>1, FallsQuiet DEF Redeemed
  <2>2. CASE c \in quiet
    <3>1. c \in Challenges /\ ~Redeemed(c)
      BY <2>2 DEF AloneInv, TypeInv, ChallengesTyped
    <3>2. \A w \in Workers : ClaimChallenge(w) => worker[w].ch # c
      BY <1>2 DEF ClaimChallenge, Update
    <3> QED
      BY <3>1, <3>2, RedeemedByClaim
  <2> QED
    BY <2>1, <2>2
<1>3. ASSUME NEW c \in Challenges, Taken(c)' PROVE Abandoned(c)
  <2>1. PICK s \in Sweepers : sweeper'[s].ch = c \/ c \in sweeper'[s].found
    BY <1>3 DEF Taken
  <2>2. CASE Taken(c)
    BY <2>2 DEF AloneInv
  <2>3. CASE Interrupted(c)
    <3>1. challenge[c].state \in {"in_redemption", "decremented"} => Claimed(c)
      BY DEF AloneInv
    <3> QED
      BY <2>3, <3>1 DEF Interrupted, Claimed, Abandoned, AloneInv
  <2>4. Taken(c) \/ Interrupted(c)
    BY <2>1, PassesMove, RedemptionAssumption DEF RedemptionAssumption, PassMoves, PassGoesOn,
       TakesUp, ClaimForRecovery, LetsGo, Taken
  <2> QED
    BY <2>2, <2>3, <2>4
<1>4. ASSUME NEW c \in Challenges, challenge'[c].state \in {"restoring", "reconciled"}
      PROVE  Abandoned(c)
  <2>1. CASE challenge[c].state \in {"restoring", "reconciled"} \/ Taken(c)
    BY <2>1 DEF AloneInv
  <2>2. CASE \E s \in Sweepers : CloseReconciled(s) /\ sweeper[s].ch = c
    BY <2>2 DEF AloneInv, Taken
  <2> QED
    BY <1>4, <2>1, <2>2, ChallengeMoves DEF MovesState
<1>5. ASSUME NEW c \in Challenges, NEW l \in Lines, Restore(c, l) \in applied' PROVE Abandoned(c)
  <2>1. CASE Restore(c, l) \in applied
    BY <2>1 DEF AloneInv
  <2>2. CASE Restore(c, l) \notin applied
    BY <1>5, <2>2, OnlyPassesRestore DEF AloneInv, Taken
  <2> QED
    BY <2>1, <2>2
<1>6. \A c \in Challenges : Abandoned(c) => Abandoned(c)'
  BY AbandonedForGood
<1>7. \A c \in Challenges : ~Claimed(c)' => challenge'[c].state = "pending"
  BY <1>1
<1>8. \A c \in Challenges :
        challenge'[c].state \in {"restoring", "reconciled"} \/ Taken(c)' => Abandoned(c)'
  BY <1>3, <1>4, <1>6
<1>9. \A c \in Challenges, l \in Lines : Restore(c, l) \in applied' => Abandoned(c)'
  BY <1>5, <1>6
<1> QED
  BY <1>2, <1>7, <1>8, <1>9 DEF AloneInv, Restore

\* A claimed challenge keeps the names it has.
LEMMA NamesStay ==
  ASSUME RedemptionAssumption, TypeInv, [Next]_vars, NEW c \in Challenges, NEW l, Claimed(c), Named(c, l)
  PROVE  challenge'[c].status = "deleted" \/ l \in challenge'[c].intents
<1>1. KeepsRecord(c) /\ challenge[c].status # "absent"
  BY ChallengeMoves DEF Claimed
<1> QED
  BY <1>1 DEF KeepsRecord, Named

\* Every action records the intent before the unit is spent.
LEMMA StepIntentInv ==
  ASSUME RedemptionAssumption, TypeInv, RedeemerInv, FirstInv, IntentInv, [Next]_vars
  PROVE  IntentInv'
<1> DEFINE NamedNext(c, l) == challenge'[c].status = "deleted" \/ l \in challenge'[c].intents
<1> USE DEF TypeInv
<1>1. ASSUME NEW c \in Challenges, NEW l \in Lines, Dec(c, l) \in applied' PROVE NamedNext(c, l)
  <2>1. CASE Dec(c, l) \in applied
    BY <2>1, NamesStay DEF FirstInv, IntentInv
  <2>2. CASE Dec(c, l) \notin applied
    <3>1. PICK w \in Workers : /\ worker[w].ch = c /\ worker[w].pc \in Redeeming
                               /\ \/ Decrement(w) /\ l = worker[w].line
                                  \/ CommitRedemption(w) /\ l \in worker[w].todo
      BY <1>1, <2>2, OnlyRedeemerSpends
    <3>2. CASE Decrement(w) /\ l = worker[w].line
      BY <3>1, <3>2, NamesStay DEF Decrement, At, IntentInv, RedeemerInv
    <3>3. CASE CommitRedemption(w) /\ l \in worker[w].todo
      <4>1. PICK rec : rec = [challenge[c] EXCEPT !.status = "verified", !.state = "completed",
                                                  !.intents = @ \cup worker[w].todo]
        OBVIOUS
      <4>2. l \in rec.intents
        BY <3>3, <4>1 DEF ChallengesTyped, Challenge
      <4>3. challenge' = [challenge EXCEPT ![c] = rec]
        BY <3>1, <3>3, <4>1 DEF CommitRedemption, Save
      <4> QED
        BY <4>2, <4>3 DEF ChallengesTyped
    <3> QED
      BY <3>1, <3>2, <3>3
  <2> QED
    BY <2>1, <2>2
<1>2. ASSUME NEW v \in Workers, worker'[v].pc = "decrement"
      PROVE  NamedNext(worker'[v].ch, worker'[v].line)
  <2>1. CASE ~OwnStep(v)
    <3>1. worker'[v] = worker[v]
      BY <2>1, OthersStay
    <3>2. worker[v].ch \in Challenges /\ Claimed(worker[v].ch)
      BY <1>2, <3>1, RequestAt DEF RedeemerInv, Redeeming, HoldsChallenge
    <3> QED
      BY <1>2, <3>1, <3>2, NamesStay DEF IntentInv
  <2>2. CASE OwnStep(v)
    <3>1. PICK l \in Lines : RecordIntent(v, l)
      BY <1>2, <2>2, Lands DEF Loaded, GoesOn, LineUsed
    <3> DEFINE c == worker[v].ch
    <3>2. PICK rec : rec = [challenge[c] EXCEPT !.intents = @ \cup {l}, !.state = "in_redemption"]
      OBVIOUS
    <3>3. c \in Challenges /\ worker[v] \in Worker
      BY <3>1, RequestAt DEF RecordIntent, At, HoldsChallenge, Redeeming
    <3>4. l \in rec.intents
      BY <3>2, <3>3 DEF ChallengesTyped, Challenge
    <3>5. challenge' = [challenge EXCEPT ![c] = rec]
      BY <3>1, <3>2 DEF RecordIntent, Save
    <3>6. worker' = [worker EXCEPT ![v] = [worker[v] EXCEPT !.pc = "decrement", !.line = l]]
      BY <3>1 DEF RecordIntent, Goto
    <3>7. worker'[v].ch = c /\ worker'[v].line = l
      BY <3>3, <3>6 DEF RequestsTyped, Worker
    <3> QED
      BY <3>3, <3>4, <3>5, <3>7 DEF ChallengesTyped
  <2> QED
    BY <2>1, <2>2
<1> QED
  BY <1>1, <1>2 DEF IntentInv, Named, Dec

\* What was settled stays settled: nothing is spent under an abandoned challenge.
LEMMA SettledStays ==
  ASSUME RedemptionAssumption, TypeInv, OperationInv, [Next]_vars,
         NEW c \in Challenges, Abandoned(c), NEW ls, SettledBut(c, ls)
  PROVE  \A l \in Lines \ ls : Dec(c, l) \in applied' => Restore(c, l) \in applied'
  BY AbandonedForGood, AppliedGrows DEF SettledBut

\* Every action settles a line before a pass leaves it behind.
LEMMA StepSettle ==
  ASSUME RedemptionAssumption, TypeInv, RedeemerInv, OperationInv, FirstInv, AloneInv,
         IntentInv, SettleInv, [Next]_vars
  PROVE  SettleInv'
<1> DEFINE SettledNext(c, ls) ==
             \A l \in Lines \ ls : Dec(c, l) \in applied' => Restore(c, l) \in applied'
<1>1. ASSUME NEW c \in Challenges, challenge'[c].state = "reconciled" PROVE SettledNext(c, {})
  <2>1. CASE challenge[c].state = "reconciled"
    BY <2>1, SettledStays DEF SettleInv, AloneInv
  <2>2. ASSUME NEW s \in Sweepers, CloseReconciled(s), sweeper[s].ch = c PROVE SettledNext(c, {})
    <3>1. SettledBut(c, {}) /\ Taken(c)
      BY <2>2 DEF SettleInv, CloseReconciled, SweepAt, SweepsChallenge, Taken
    <3> QED
      BY <3>1, SettledStays DEF AloneInv
  <2> QED
    BY <1>1, <2>1, <2>2, ChallengeMoves DEF MovesState
<1>2. ASSUME NEW s \in Sweepers
      PROVE  /\ sweeper'[s].pc \in SweepsChallenge => SettledNext(sweeper'[s].ch, sweeper'[s].todo)
             /\ sweeper'[s].pc = "fence" => Dec(sweeper'[s].ch, sweeper'[s].line) \notin applied'
             /\ sweeper'[s].pc = "close" => sweeper'[s].todo = {}
  <2> DEFINE c == sweeper[s].ch
             Good == /\ sweeper'[s].pc \in SweepsChallenge =>
                          SettledNext(sweeper'[s].ch, sweeper'[s].todo)
                     /\ sweeper'[s].pc = "fence" =>
                          Dec(sweeper'[s].ch, sweeper'[s].line) \notin applied'
                     /\ sweeper'[s].pc = "close" => sweeper'[s].todo = {}
  <2>a. sweeper[s].pc \in SweepsChallenge =>
          /\ c \in Challenges /\ Abandoned(c)
          /\ SettledBut(c, sweeper[s].todo) /\ SettledNext(c, sweeper[s].todo)
    <3>1. sweeper[s].pc \in SweepsChallenge =>
            c \in Challenges /\ Abandoned(c) /\ SettledBut(c, sweeper[s].todo)
      BY PassAt DEF TypeInv, AloneInv, Taken, SettleInv
    <3> QED
      BY <3>1, SettledStays
  <2>1. CASE sweeper'[s] = sweeper[s]
    <3>1. sweeper[s].pc = "fence" => sweeper[s].line \in Lines
      BY PassAt DEF TypeInv, SweepsLine
    <3>2. sweeper[s].pc = "fence" => Dec(c, sweeper[s].line) \notin applied'
      BY <2>a, <3>1, AbandonedForGood DEF SettleInv, SweepsChallenge
    <3> QED
      BY <2>a, <2>1, <3>2 DEF SettleInv
  <2>2. CASE LetsGo(s)
    BY <2>2 DEF LetsGo, SweepsChallenge
  <2>3. ASSUME NEW d \in Challenges, TakesUp(s, d) PROVE Good
    <3>1. Abandoned(d) /\ Exists(d)
      BY <2>3 DEF TakesUp, ClaimForRecovery, Claimable, AloneInv, Taken
    <3>2. SettledBut(d, challenge[d].intents)
      BY <3>1 DEF SettledBut, IntentInv, Named, Exists
    <3>3. SettledNext(d, challenge[d].intents)
      BY <3>1, <3>2, SettledStays
    <3> QED
      BY <2>3, <3>3 DEF TakesUp
  <2>4. CASE PassGoesOn(s)
    <3>1. CASE JudgeInterrupted(s) /\ sweeper'[s].pc = "inspect" /\ sweeper'[s].todo = sweeper[s].todo
      BY <2>4, <3>1, <2>a DEF PassGoesOn, JudgeInterrupted, SweepAt, SweepsChallenge
    <3>2. ASSUME NEW l \in Lines, InspectLine(s, l), sweeper'[s].pc = "inspect",
                 sweeper'[s].todo = sweeper[s].todo \ {l}, Restore(c, l) \in applied
          PROVE  Good
      <4>1. SettledNext(c, sweeper[s].todo) /\ Restore(c, l) \in applied'
        BY <3>2, <2>a, AppliedGrows DEF InspectLine, SweepAt, SweepsChallenge
      <4>2. SettledNext(c, sweeper[s].todo \ {l})
        BY <4>1
      <4> QED
        BY <2>4, <3>2, <4>2 DEF PassGoesOn
    <3>3. ASSUME NEW l \in Lines, InspectLine(s, l), sweeper'[s].pc = "restore",
                 sweeper'[s].todo = sweeper[s].todo
          PROVE  Good
      BY <2>4, <3>3, <2>a DEF PassGoesOn, InspectLine, SweepAt, SweepsChallenge
    <3>4. ASSUME NEW l \in Lines, InspectLine(s, l), sweeper'[s].pc = "fence",
                 sweeper'[s].todo = sweeper[s].todo, sweeper'[s].line = l,
                 Dec(c, l) \notin applied
          PROVE  Good
      <4>1. SettledNext(c, sweeper[s].todo) /\ Dec(c, l) \notin applied'
        BY <3>4, <2>a, AbandonedForGood DEF InspectLine, SweepAt, SweepsChallenge
      <4> QED
        BY <2>4, <3>4, <4>1 DEF PassGoesOn
    <3>5. ASSUME FenceOperation(s) \/ RestoreBalance(s), sweeper'[s].pc = "inspect",
                 sweeper'[s].todo = sweeper[s].todo \ {sweeper[s].line}
          PROVE  Good
      <4> DEFINE l == sweeper[s].line
      <4>1. sweeper[s].pc \in SweepsLine /\ l \in Lines
        BY <3>5, PassAt DEF FenceOperation, RestoreBalance, SweepAt, SweepsLine, TypeInv
      <4>2. Dec(c, l) \in applied' => Restore(c, l) \in applied'
        <5>1. CASE RestoreBalance(s)
          BY <5>1 DEF RestoreBalance
        <5>2. CASE FenceOperation(s)
          BY <5>2, <4>1, <2>a, AbandonedForGood DEF FenceOperation, SweepAt, SettleInv,
             SweepsChallenge
        <5> QED
          BY <3>5, <5>1, <5>2
      <4>3. SettledNext(c, sweeper[s].todo \ {l})
        BY <4>1, <4>2, <2>a DEF SweepsChallenge, SweepsLine
      <4> QED
        BY <2>4, <3>5, <4>3 DEF PassGoesOn
    <3>6. CASE CleanupUsages(s) /\ sweeper'[s].pc = "close" /\ sweeper'[s].todo = sweeper[s].todo
      BY <2>4, <3>6, <2>a DEF PassGoesOn, CleanupUsages, SweepAt, SweepsChallenge
    <3> QED
      BY <2>4, <3>1, <3>2, <3>3, <3>4, <3>5, <3>6 DEF PassGoesOn
  <2> QED
    BY <2>1, <2>2, <2>3, <2>4, PassesMove DEF PassMoves
<1> QED
  BY <1>1, <1>2 DEF SettleInv, SettledBut, Dec, Restore

\* Every action keeps the lines of a request's appointment before it or spent.
LEMMA StepCover ==
  ASSUME RedemptionAssumption, TypeInv, OperationInv, CoverInv, [Next]_vars
  PROVE  CoverInv'
<1> USE DEF TypeInv
<1> DEFINE Covers(v) ==
      worker'[v].pc \in HoldsChallenge =>
        /\ challenge'[worker'[v].ch].status # "absent"
        /\ worker'[v].appt = challenge'[worker'[v].ch].appt
        /\ \A l \in LinesOf(worker'[v].appt) :
             l \in worker'[v].todo \/ Dec(worker'[v].ch, l) \in applied'
        /\ worker'[v].pc \in {"acknowledge", "record"} =>
             Dec(worker'[v].ch, worker'[v].line) \in applied'
        /\ worker'[v].pc \in {"complete", "finish"} => worker'[v].todo = {}
<1>a. applied \subseteq applied'
  BY AppliedGrows
<1>b. ASSUME NEW v \in Workers, worker[v].pc \in HoldsChallenge
      PROVE  /\ worker[v].ch \in Challenges
             /\ challenge'[worker[v].ch].status # "absent"
             /\ worker[v].appt = challenge'[worker[v].ch].appt
  BY <1>b, RequestAt, ChallengeMoves DEF KeepsRecord, CoverInv
<1>1. ASSUME NEW v \in Workers PROVE Covers(v)
  <2>1. CASE ~OwnStep(v)
    <3>1. worker'[v] = worker[v]
      BY <2>1, OthersStay
    <3> QED
      BY <3>1, <1>a, <1>b DEF CoverInv
  <2>2. CASE worker'[v].pc \in {"idle", "issue"}
    BY <2>2 DEF HoldsChallenge, Redeeming
  <2>3. ASSUME NEW c \in Challenges, Loaded(v, c) PROVE Covers(v)
    <3>1. challenge' = challenge /\ challenge[c].status = "pending"
      BY <2>3 DEF Loaded, LoadChallenge, challengeVars
    <3> QED
      BY <2>3, <3>1 DEF Loaded
  <2>4. CASE GoesOn(v)
    <3>1. /\ worker[v].pc \in HoldsChallenge /\ SameWork(v)
          /\ worker[v].pc \notin {"acknowledge"} \/ worker'[v].line = worker[v].line
      BY <2>4 DEF GoesOn, ClaimChallenge, MarkVerified, RecordIntent, Decrement, Acknowledge,
         MarkExhausted, CompleteAppointment, At, HoldsChallenge, Redeeming
    <3>2. worker'[v].pc \in {"acknowledge", "record"} =>
            Dec(worker'[v].ch, worker'[v].line) \in applied'
      <4>1. CASE Decrement(v) /\ worker'[v].line = worker[v].line
        BY <3>1, <4>1 DEF Decrement, SameWork
      <4>2. CASE Acknowledge(v) /\ worker'[v].line = worker[v].line
        BY <3>1, <4>2, <1>a DEF Acknowledge, At, SameWork, CoverInv
      <4> QED
        BY <2>4, <4>1, <4>2 DEF GoesOn
    <3>3. worker'[v].pc \in {"complete", "finish"} => worker'[v].todo = {}
      BY <2>4, <3>1 DEF GoesOn, SameWork, MarkExhausted, CompleteAppointment, At, CoverInv
    <3> QED
      BY <3>1, <3>2, <3>3, <1>a, <1>b DEF SameWork, CoverInv
  <2>5. CASE LineUsed(v)
    <3>1. /\ worker[v].pc = "record" /\ worker[v].pc \in HoldsChallenge
          /\ worker'[v].appt = worker[v].appt
      <4>1. worker'[v] = [worker[v] EXCEPT !.pc = "lines", !.line = NoLine,
                                           !.todo = @ \ {worker[v].line}]
        BY <2>5 DEF LineUsed, RecordUsage, Goto, RequestsTyped
      <4> QED
        BY <2>5, <4>1, RequestAt DEF LineUsed, RecordUsage, At, HoldsChallenge, Redeeming, Worker
    <3>2. Dec(worker[v].ch, worker[v].line) \in applied'
      BY <3>1, <1>a DEF CoverInv
    <3> QED
      BY <2>5, <3>1, <3>2, <1>a, <1>b DEF LineUsed, CoverInv
  <2> QED
    BY <2>1, <2>2, <2>3, <2>4, <2>5, Lands
<1> QED
  BY <1>1 DEF CoverInv, LinesOf, Dec

\* A line whose appointment is completed by w is paid for under w's challenge.
LEMMA CompletionPays ==
  ASSUME RedemptionAssumption, TypeInv, RedeemerInv, OperationInv, AloneInv, CoverInv, [Next]_vars,
         NEW w \in Workers, CompleteAppointment(w) \/ CommitRedemption(w),
         NEW l \in Lines, ApptOf[l] = worker[w].appt
  PROVE  \E c \in Challenges :
           /\ challenge'[c].appt = ApptOf[l]
           /\ Dec(c, l) \in applied' /\ Restore(c, l) \notin applied'
           /\ \A s \in Sweepers : sweeper'[s].ch # c
<1> DEFINE c == worker[w].ch
<1>1. worker[w].pc \in Redeeming /\ worker[w].pc \in HoldsChallenge
  BY DEF CompleteAppointment, CommitRedemption, At, Redeeming, HoldsChallenge
<1>2. c \in Challenges /\ Redeemed(c) /\ ~Abandoned(c)
  BY <1>1, RequestAt DEF TypeInv, Redeemed, Abandoned
<1>3. challenge'[c].appt = ApptOf[l]
  BY <1>1, <1>2, ChallengeMoves DEF KeepsRecord, CoverInv
<1>4. Dec(c, l) \in applied'
  <2>1. l \in worker[w].todo \/ Dec(c, l) \in applied
    BY <1>1 DEF CoverInv, LinesOf
  <2>2. CASE CompleteAppointment(w)
    BY <1>1, <2>1, <2>2, AppliedGrows DEF CompleteAppointment, At, CoverInv
  <2>3. CASE CommitRedemption(w)
    BY <2>1, <2>3 DEF CommitRedemption, Decrements
  <2> QED
    BY <2>2, <2>3
<1>5. Restore(c, l) \notin applied /\ \A s \in Sweepers : sweeper[s].ch # c
  BY <1>2 DEF AloneInv, Taken
<1>6. Restore(c, l) \notin applied' /\ sweeper' = sweeper
  <2>1. sweeper' = sweeper
    BY DEF CompleteAppointment, CommitRedemption, sweepVars
  <2>2. Restore(c, l) \notin applied'
    BY <1>5, OnlyPassesRestore
  <2> QED
    BY <2>1, <2>2
<1> QED
  BY <1>2, <1>3, <1>4, <1>5, <1>6

\* Every action keeps completed appointments paid for.
LEMMA StepPaid ==
  ASSUME RedemptionAssumption, TypeInv, RedeemerInv, OperationInv, FirstInv, AloneInv, CoverInv, PaidInv,
         [Next]_vars
  PROVE  PaidInv'
<1> DEFINE Pays(c, l) ==
             /\ challenge'[c].appt = ApptOf[l]
             /\ Dec(c, l) \in applied' /\ Restore(c, l) \notin applied'
             /\ \A s \in Sweepers : sweeper'[s].ch = c => sweeper'[s].pc = "judge"
<1>1. SUFFICES ASSUME NEW l \in Lines, apptStatus'[ApptOf[l]] = "completed"
               PROVE  \E c \in Challenges : Pays(c, l)
  BY DEF PaidInv, PaysFor, Charges, Dec, Restore
<1>2. CASE apptStatus[ApptOf[l]] = "completed"
  <2>1. PICK c \in Challenges : PaysFor(c, l)
    BY <1>2 DEF PaidInv
  <2>2. Claimed(c) /\ Dec(c, l) \in applied /\ Restore(c, l) \notin applied
    BY <2>1 DEF PaysFor, Charges, FirstInv
  <2>3. challenge'[c].appt = ApptOf[l]
    BY <2>1, <2>2, ChallengeMoves DEF KeepsRecord, PaysFor, Claimed
  <2>4. Dec(c, l) \in applied'
    BY <2>2, AppliedGrows
  <2>5. Restore(c, l) \notin applied'
    BY <2>1, <2>2, OnlyPassesRestore DEF PaysFor, RestoreBalance, SweepAt
  <2>6. ASSUME NEW s \in Sweepers, sweeper'[s].ch = c PROVE sweeper'[s].pc = "judge"
    <3>1. CASE sweeper'[s] = sweeper[s]
      BY <2>1, <2>6, <3>1 DEF PaysFor
    <3>2. CASE PassGoesOn(s)
      <4>1. sweeper[s].ch = c /\ sweeper[s].pc = "judge"
        BY <2>1, <2>6, <3>2 DEF PassGoesOn, PaysFor
      <4>2. JudgeInterrupted(s)
        BY <3>2, <4>1 DEF PassGoesOn, InspectLine, FenceOperation, RestoreBalance, CleanupUsages,
           SweepAt
      <4> QED
        BY <1>2, <2>1, <4>1, <4>2 DEF JudgeInterrupted, PaysFor
    <3>3. CASE \E d \in Challenges : TakesUp(s, d)
      BY <3>3 DEF TakesUp
    <3>4. CASE LetsGo(s)
      BY <2>6, <3>4, RedemptionAssumption DEF LetsGo, RedemptionAssumption
    <3> QED
      BY <3>1, <3>2, <3>3, <3>4, PassesMove DEF PassMoves
  <2> QED
    BY <2>3, <2>4, <2>5, <2>6
<1>3. CASE apptStatus[ApptOf[l]] # "completed"
  <2>1. PICK w \in Workers : /\ CommitRedemption(w) \/ CompleteAppointment(w)
                             /\ worker[w].appt = ApptOf[l]
    BY <1>1, <1>3, AppointmentMoves DEF RedemptionAssumption
  <2> QED
    BY <2>1, CompletionPays
<1> QED
  BY <1>2, <1>3

\* Recovery without slow processes: who may touch a challenge, what is on record,
\* what a pass has settled, and what has been paid for.
RecoveryInv ==
  /\ TypeInv /\ RedeemerInv /\ OperationInv /\ FirstInv
  /\ AloneInv /\ IntentInv /\ SettleInv /\ CoverInv /\ PaidInv

\* RecoveryInv holds of every reachable state, with and without transactions.
LEMMA RecoveryInvariant == ~SlowProcesses /\ Spec => []RecoveryInv
<1>1. Init => RecoveryInv
  <2> SUFFICES ASSUME Init PROVE RecoveryInv
    OBVIOUS
  <2>1. RedeemerInv /\ OperationInv /\ FirstInv
    BY DEF Init, RedeemerInv, SingleRedeemer, FirstInv, ToSpend, IdleWorker, Redeeming,
       OperationInv, Scanning, SweepAt
  <2>2. \A c \in Challenges : ~Taken(c)
    BY RedemptionAssumption DEF Init, Taken, Scanning, RedemptionAssumption
  <2>3. AloneInv
    BY <2>2 DEF Init, AloneInv, AbsentChallenge
  <2>4. IntentInv /\ SettleInv /\ CoverInv
    BY DEF Init, IntentInv, SettleInv, SettledBut, CoverInv, AbsentChallenge, IdleWorker,
       Scanning, SweepsChallenge, HoldsChallenge, Redeeming
  <2>5. PaidInv
    BY RedemptionAssumption DEF Init, PaidInv, RedemptionAssumption
  <2> QED
    BY <2>1, <2>3, <2>4, <2>5, InitTypeInv, RedemptionAssumption DEF RecoveryInv
<1>2. ASSUME ~SlowProcesses, RecoveryInv, [Next]_vars PROVE RecoveryInv'
  <2>1. TypeInv' /\ RedeemerInv' /\ OperationInv' /\ FirstInv'
    BY <1>2, StepTyped, StepRedeemer, StepOperations, StepFirst, RedemptionAssumption
       DEF RecoveryInv
  <2>2. AloneInv' /\ IntentInv' /\ SettleInv'
    BY <1>2, StepAlone, StepIntentInv, StepSettle, RedemptionAssumption DEF RecoveryInv
  <2>3. CoverInv' /\ PaidInv'
    BY <1>2, StepCover, StepPaid, RedemptionAssumption DEF RecoveryInv
  <2> QED
    BY <2>1, <2>2, <2>3 DEF RecoveryInv
<1>3. CASE ~SlowProcesses
  <2>1. RecoveryInv /\ [Next]_vars => RecoveryInv'
    BY <1>2, <1>3
  <2> QED
    BY <1>1, <2>1, PTL DEF Spec
<1> QED
  BY <1>3

\* A challenge closed as reconciled owes nothing: every unit its request spent has
\* been given back, however many passes, crashes and deletions came in between.
THEOREM ReconciledOwesNothing == ~SlowProcesses /\ Spec => []ReconciledIsSettled
<1>1. RecoveryInv => ReconciledIsSettled
  BY DEF RecoveryInv, SettleInv, SettledBut, ReconciledIsSettled, Charges
<1> QED
  BY <1>1, RecoveryInvariant, PTL

\* A completed appointment has been paid for, and no pass takes the payment back,
\* with and without transactions.
THEOREM CompletedStaysPaid == ~SlowProcesses /\ Spec => []CompletedIsPaid
<1>1. RecoveryInv => CompletedIsPaid
  BY DEF RecoveryInv, PaidInv, PaysFor, CompletedIsPaid
<1> QED
  BY <1>1, RecoveryInvariant, PTL
=============================================================================
