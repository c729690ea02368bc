------------------------ MODULE SubscriptionRedemption ------------------------
(***************************************************************************)
(* Redemption of prepaid subscription units at appointment completion: the *)
(* OTP challenge, the completion request that spends the units, and the    *)
(* background sweeper that repairs interrupted completions.                *)
(*                                                                         *)
(* Every await of the code ends a step.  A request keeps the copy of the   *)
(* challenge it loaded: save() succeeds only if nobody has saved the       *)
(* document since (optimisticConcurrency), while findOneAndUpdate and      *)
(* updateOne neither check nor advance the version.                        *)
(***************************************************************************)
EXTENDS Integers, FiniteSets

CONSTANTS
  Appointments,    \* appointments, all in_progress at the start
  Lines,           \* their service lines with an appliedSubscriptionId
  ApptOf,          \* the appointment of each line
  Subscriptions,   \* subscriptions, one service entitlement each
  SubOf,           \* the subscription applied to each line
  Quota,           \* units each subscription starts with
  Challenges,      \* challenge document ids, each created at most once
  Workers,         \* concurrent HTTP requests
  Sweepers,        \* server processes running the reconciliation worker
  MaxAttempts,     \* wrong codes after which a challenge is exhausted (5 in the code)
  Transactional,   \* TRUE: replica set; FALSE: the standalone fallback
  SlowProcesses,   \* TRUE: a process may sleep through an age cutoff
  TTLMonitor,      \* TRUE: MongoDB deletes challenges past expiresAt
  SweepFailures,   \* bound on the crashes of sweepers
  NoChallenge,     \* no challenge held
  NoLine,          \* no line being worked on
  NoAppt           \* no appointment

ASSUME RedemptionAssumption ==
  /\ ApptOf \in [Lines -> Appointments]
  /\ SubOf \in [Lines -> Subscriptions]
  /\ IsFiniteSet(Lines) /\ IsFiniteSet(Challenges)
  /\ Quota \in Nat \ {0}
  /\ MaxAttempts \in Nat \ {0}
  /\ SweepFailures \in Nat
  /\ {Transactional, SlowProcesses, TTLMonitor} \subseteq BOOLEAN
  /\ NoChallenge \notin Challenges
  /\ NoLine \notin Lines
  /\ NoAppt \notin Appointments

VARIABLES
  challenge,   \* subscriptionconsumptionchallenges collection
  expired,     \* challenges whose expiresAt has passed
  quiet,       \* challenges with updatedAt five minutes old or more
  lapsed,      \* challenges whose reconciliationClaimedAt is two minutes old or more
  remaining,   \* remainingQuantity per subscription
  applied,     \* appliedOperations of all subscriptions
  subStatus,   \* status per subscription (and of its only member)
  apptStatus,  \* status per appointment
  cancelling,  \* appointments a cancel request has read as in_progress
  usage,       \* lines with a SubscriptionUsage record
  worker,      \* the requests in flight
  stale,       \* requests whose copy of the challenge has an old version
  sweeper,     \* the reconciliation passes in flight
  failures     \* crashes of sweepers so far

challengeVars == <<challenge, expired, quiet, lapsed>>
subscriptionVars == <<remaining, applied, subStatus>>
apptVars == <<apptStatus, cancelling>>
requestVars == <<worker, stale>>
sweepVars == <<sweeper, failures>>
vars == <<challengeVars, subscriptionVars, apptVars, usage, requestVars, sweepVars>>

-----------------------------------------------------------------------------
(* Documents and processes *)

ChallengeStatus ==
  {"absent", "pending", "in_redemption", "verified", "exhausted", "expired", "deleted"}

RedemptionState ==
  {"pending", "in_redemption", "decremented", "completed", "restoring", "reconciled"}

\* decrements[] is the set of lines with an intent entry.  Its isDecremented and
\* isRestored flags repeat what appliedOperations says and decide nothing more.
Challenge == [status : ChallengeStatus, state : RedemptionState,
              appt : Appointments \cup {NoAppt}, attempts : Nat,
              intents : SUBSET Lines]

AbsentChallenge == [status |-> "absent", state |-> "pending", appt |-> NoAppt,
                    attempts |-> 0, intents |-> {}]

NewChallengeUnknownState(a) == [status |-> "pending", state |-> "unknown", appt |-> a,
                                attempts |-> 0, intents |-> {}]

NewChallenge(a) == [status |-> "pending", state |-> "pending", appt |-> a,
                    attempts |-> 0, intents |-> {}]

Operation == [kind : {"dec", "fence", "restore"}, ch : Challenges, line : Lines]
Dec(c, l) == [kind |-> "dec", ch |-> c, line |-> l]
Fence(c, l) == [kind |-> "fence", ch |-> c, line |-> l]
Restore(c, l) == [kind |-> "restore", ch |-> c, line |-> l]

WorkerPC == {"idle", "issue", "expire", "reject", "claim", "verify", "lines",
             "decrement", "acknowledge", "record", "complete", "finish"}

Worker == [pc : WorkerPC, ch : Challenges \cup {NoChallenge},
           appt : Appointments \cup {NoAppt}, todo : SUBSET Lines,
           line : Lines \cup {NoLine}]

IdleWorker == [pc |-> "idle", ch |-> NoChallenge, appt |-> NoAppt,
               todo |-> {}, line |-> NoLine]

\* The steps between winning the challenge and answering the request.
Redeeming == {"verify", "lines", "decrement", "acknowledge", "record",
              "complete", "finish"}

SweeperPC == {"idle", "scan", "judge", "inspect", "fence", "restore", "close"}

Sweeper == [pc : SweeperPC, found : SUBSET Challenges,
            ch : Challenges \cup {NoChallenge}, todo : SUBSET Lines,
            line : Lines \cup {NoLine}]

\* Between two candidates; a pass with no candidate left is over.
Scanning(cs) == [pc |-> IF cs = {} THEN "idle" ELSE "scan", found |-> cs,
                 ch |-> NoChallenge, todo |-> {}, line |-> NoLine]

LinesOf(a) == {l \in Lines : ApptOf[l] = a}
LinesOn(lines, s) == {l \in lines : SubOf[l] = s}
Exists(c) == challenge[c].status \notin {"absent", "deleted"}
\* Why an operation may or must not touch the balance.
IntentRecorded(c, l) == l \in challenge[c].intents
Committed(c, l) == Dec(c, l) \in applied
NotAppliedYet(c, l) == Dec(c, l) \notin applied
NotRefused(c, l) == {Dec(c, l), Fence(c, l)} \cap applied = {}
Redeemable(s) == subStatus[s] = "active" /\ remaining[s] >= 1

\* c is in the hands of a request or a pass.
Held(c) ==
  \/ \E w \in Workers : worker[w].ch = c /\ worker[w].pc \in Redeeming
  \/ \E s \in Sweepers : sweeper[s].ch = c

Init ==
  /\ challenge = [c \in Challenges |-> AbsentChallenge]
  /\ expired = {} /\ quiet = {} /\ lapsed = {}
  /\ remaining = [s \in Subscriptions |-> Quota]
  /\ applied = {}
  /\ subStatus = [s \in Subscriptions |-> "active"]
  /\ apptStatus = [a \in Appointments |-> "in_progress"]
  /\ cancelling = {}
  /\ usage = {}
  /\ worker = [w \in Workers |-> IdleWorker]
  /\ stale = {}
  /\ sweeper = [s \in Sweepers |-> Scanning({})]
  /\ failures = 0

-----------------------------------------------------------------------------
(* Helpers for the two ways the code writes a challenge *)

\* updateOne / findOneAndUpdate: no version check; no effect on a missing document.
Update(c, rec) ==
  /\ challenge' = IF Exists(c) THEN [challenge EXCEPT ![c] = rec] ELSE challenge
  /\ quiet' = quiet \ {c}

\* challenge.save() by request w: refused when the copy is stale or the document
\* is gone; every other request holding a copy becomes stale.
Save(w, rec) ==
  LET c == worker[w].ch IN
  /\ Exists(c) /\ w \notin stale
  /\ challenge' = [challenge EXCEPT ![c] = rec]
  /\ quiet' = quiet \ {c}
  /\ stale' = stale \cup {v \in Workers \ {w} : worker[v].ch = c}

Goto(w, next) == worker' = [worker EXCEPT ![w] = next]

At(w, pc) == worker[w].pc = pc

-----------------------------------------------------------------------------
(* requestConsumptionOTP *)

\* The appointment and its entitlements are validated, then any pending challenge
\* of the appointment is looked up.
RequestOtp(w, a) ==
  /\ At(w, "idle")
  /\ apptStatus[a] = "in_progress"
  /\ LinesOf(a) # {}
  /\ \A l \in LinesOf(a) : Redeemable(SubOf[l])
  /\ LET Pending == {c \in Challenges : /\ challenge[c].appt = a
                                        /\ challenge[c].status = "pending"}
     IN \E c \in IF Pending = {} THEN {NoChallenge} ELSE Pending :
          Goto(w, [IdleWorker EXCEPT !.pc = "issue", !.ch = c, !.appt = a])
  /\ UNCHANGED <<challengeVars, subscriptionVars, apptVars, usage, stale, sweepVars>>

\* No pending challenge was seen: a new document is created.
CreateChallenge(w, c) ==
  /\ At(w, "issue") /\ worker[w].ch = NoChallenge
  /\ challenge[c].status = "absent"
  /\ challenge' = [challenge EXCEPT ![c] = NewChallenge(worker[w].appt)]
  /\ Goto(w, IdleWorker)
  /\ UNCHANGED <<expired, quiet, lapsed, subscriptionVars, apptVars, usage,
                 stale, sweepVars>>

ResentAsPending(rec) == [rec EXCEPT !.attempts = 0, !.status = "pending"]
Resent(rec) == [rec EXCEPT !.attempts = 0]

\* The pending challenge that was seen gets a new code, expiry and attempt count.
\* Its status is written only in memory, where it already reads "pending".
ResendChallenge(w) ==
  LET c == worker[w].ch IN
  /\ At(w, "issue") /\ c # NoChallenge
  /\ Save(w, Resent(challenge[c]))
  /\ expired' = expired \ {c}
  /\ Goto(w, IdleWorker)
  /\ UNCHANGED <<lapsed, subscriptionVars, apptVars, usage, sweepVars>>

-----------------------------------------------------------------------------
(* completeWithSubscription: checking the code and claiming the challenge *)

\* The findOne has no status filter and no order, so any challenge of the
\* appointment may be the one found; every status but pending is refused.
LoadChallenge(w, c) ==
  LET a == challenge[c].appt IN
  /\ At(w, "idle")
  /\ challenge[c].status = "pending" /\ challenge[c].attempts < MaxAttempts
  /\ apptStatus[a] = "in_progress"
  /\ \E pc \in IF c \in expired THEN {"expire"} ELSE {"reject", "claim"} :
       Goto(w, [pc |-> pc, ch |-> c, appt |-> a, todo |-> LinesOf(a), line |-> NoLine])
  /\ UNCHANGED <<challengeVars, subscriptionVars, apptVars, usage, stale, sweepVars>>

SaveExpired(w) ==
  /\ At(w, "expire")
  /\ Save(w, [challenge[worker[w].ch] EXCEPT !.status = "expired"])
  /\ Goto(w, IdleWorker)
  /\ UNCHANGED <<expired, lapsed, subscriptionVars, apptVars, usage, sweepVars>>

AfterWrongCode(rec) ==
  [rec EXCEPT !.attempts = @ + 1,
              !.status = IF rec.attempts + 1 >= MaxAttempts THEN "exhausted" ELSE @]

UnversionedAttempt(w) ==
  /\ At(w, "reject")
  /\ Update(worker[w].ch, AfterWrongCode(challenge[worker[w].ch]))
  /\ Goto(w, IdleWorker)
  /\ UNCHANGED <<expired, lapsed, subscriptionVars, apptVars, usage, stale, sweepVars>>

SaveAttempt(w) ==
  /\ At(w, "reject")
  /\ Save(w, AfterWrongCode(challenge[worker[w].ch]))
  /\ Goto(w, IdleWorker)
  /\ UNCHANGED <<expired, lapsed, subscriptionVars, apptVars, usage, sweepVars>>

\* The compare-and-set pending -> in_redemption, outside any transaction.
ClaimChallenge(w) ==
  LET c == worker[w].ch IN
  /\ At(w, "claim")
  /\ challenge[c].status = "pending"
  /\ Update(c, [challenge[c] EXCEPT !.status = "in_redemption"])
  /\ Goto(w, [worker[w] EXCEPT !.pc = "verify"])
  /\ UNCHANGED <<expired, lapsed, subscriptionVars, apptVars, usage, stale, sweepVars>>

-----------------------------------------------------------------------------
(* completeWithSubscription without transactions: each write stands alone *)

\* All lines are validated before anything is spent; the challenge is verified.
MarkVerified(w) ==
  /\ ~Transactional
  /\ At(w, "verify")
  /\ \A l \in worker[w].todo : Redeemable(SubOf[l])
  /\ Save(w, [challenge[worker[w].ch] EXCEPT !.status = "verified"])
  /\ Goto(w, [worker[w] EXCEPT !.pc = "lines"])
  /\ UNCHANGED <<expired, lapsed, subscriptionVars, apptVars, usage, sweepVars>>

\* The intent to spend a unit for line l is saved before the unit is spent.
RecordIntent(w, l) ==
  LET c == worker[w].ch IN
  /\ At(w, "lines") /\ l \in worker[w].todo
  /\ Redeemable(SubOf[l])
  /\ Save(w, [challenge[c] EXCEPT !.intents = @ \cup {l}, !.state = "in_redemption"])
  /\ Goto(w, [worker[w] EXCEPT !.pc = "decrement", !.line = l])
  /\ UNCHANGED <<expired, lapsed, subscriptionVars, apptVars, usage, sweepVars>>

\* The guarded findOneAndUpdate on the subscription.  The branch for an operation
\* that is already applied serves a second attempt on the same challenge, which
\* DecrementIsFirstAttempt shows never comes.
Decrement(w) ==
  LET c == worker[w].ch
      l == worker[w].line
  IN
  /\ At(w, "decrement")
  /\ Redeemable(SubOf[l])
  /\ NotRefused(c, l)
  /\ remaining' = [remaining EXCEPT ![SubOf[l]] = @ - 1]
  /\ applied' = applied \cup {Dec(c, l)}
  /\ Goto(w, [worker[w] EXCEPT !.pc = "acknowledge"])
  /\ UNCHANGED <<challengeVars, subStatus, apptVars, usage, stale, sweepVars>>

\* redemptionState is saved; isDecremented is set on a copy and never stored.
Acknowledge(w) ==
  /\ At(w, "acknowledge")
  /\ Save(w, [challenge[worker[w].ch] EXCEPT !.state = "decremented"])
  /\ Goto(w, [worker[w] EXCEPT !.pc = "record"])
  /\ UNCHANGED <<expired, lapsed, subscriptionVars, apptVars, usage, sweepVars>>

\* The usage record; a unique index allows one per appointment line.
RecordUsage(w) ==
  LET l == worker[w].line IN
  /\ At(w, "record")
  /\ l \notin usage
  /\ usage' = usage \cup {l}
  /\ Goto(w, [worker[w] EXCEPT !.pc = "lines", !.line = NoLine, !.todo = @ \ {l}])
  /\ UNCHANGED <<challengeVars, subscriptionVars, apptVars, stale, sweepVars>>

\* Subscriptions that have nothing left become exhausted (one find-and-save each,
\* commuting with the restores that may run in between).
Exhaust(lines) ==
  [s \in Subscriptions |-> IF s \in {SubOf[l] : l \in lines} /\ remaining'[s] = 0
                           THEN "exhausted" ELSE subStatus[s]]

MarkExhausted(w) ==
  /\ At(w, "lines") /\ worker[w].todo = {}
  /\ UNCHANGED <<remaining, applied>>
  /\ subStatus' = Exhaust(LinesOf(worker[w].appt))
  /\ Goto(w, [worker[w] EXCEPT !.pc = "complete"])
  /\ UNCHANGED <<challengeVars, apptVars, usage, stale, sweepVars>>

\* The compare-and-set in_progress -> completed.
CompleteAppointment(w) ==
  LET a == worker[w].appt IN
  /\ At(w, "complete")
  /\ apptStatus[a] = "in_progress"
  /\ apptStatus' = [apptStatus EXCEPT ![a] = "completed"]
  /\ Goto(w, [worker[w] EXCEPT !.pc = "finish"])
  /\ UNCHANGED <<challengeVars, subscriptionVars, cancelling, usage, stale, sweepVars>>

FinishChallenge(w) ==
  /\ At(w, "finish")
  /\ Save(w, [challenge[worker[w].ch] EXCEPT !.state = "completed"])
  /\ Goto(w, IdleWorker)
  /\ UNCHANGED <<expired, lapsed, subscriptionVars, apptVars, usage, sweepVars>>

-----------------------------------------------------------------------------
(* completeWithSubscription inside a transaction: all of it, or nothing *)

OncePerSubscription(c, lines) ==
  {Dec(c, l) : l \in {m \in lines : m = CHOOSE n \in lines : SubOf[n] = SubOf[m]}}
Decrements(c, lines) == {Dec(c, l) : l \in lines}

AnyCompletion(a, lines) == apptStatus[a] # "cancelled"
\* The compare-and-set on the appointment and the unique index on usage records.
FirstCompletion(a, lines) == apptStatus[a] = "in_progress" /\ lines \cap usage = {}

CommitRedemption(w) ==
  LET c == worker[w].ch
      a == worker[w].appt
      lines == worker[w].todo
      Spent(s) == Cardinality(LinesOn(lines, s))
  IN
  /\ Transactional
  /\ At(w, "verify")
  /\ \A l \in lines : Redeemable(SubOf[l]) /\ NotRefused(c, l)
  /\ \A s \in Subscriptions : Spent(s) <= remaining[s]
  /\ FirstCompletion(a, lines)
  /\ Save(w, [challenge[c] EXCEPT !.status = "verified", !.state = "completed",
                                  !.intents = @ \cup lines])
  /\ remaining' = [s \in Subscriptions |-> remaining[s] - Spent(s)]
  /\ applied' = applied \cup Decrements(c, lines)
  /\ subStatus' = Exhaust(lines)
  /\ usage' = usage \cup lines
  /\ apptStatus' = [apptStatus EXCEPT ![a] = "completed"]
  /\ Goto(w, IdleWorker)
  /\ UNCHANGED <<expired, lapsed, cancelling, sweepVars>>

-----------------------------------------------------------------------------
(* A request ends early: a failed check, a refused save, a lost database
   connection or a crash of its server process, at any step. *)
FailAndReopen(w) ==
  LET c == worker[w].ch IN
  /\ ~At(w, "idle")
  /\ challenge' = IF worker[w].pc \in Redeeming /\ Exists(c)
                  THEN [challenge EXCEPT ![c].status = "pending"] ELSE challenge
  /\ Goto(w, IdleWorker)
  /\ stale' = stale \ {w}
  /\ UNCHANGED <<expired, quiet, lapsed, subscriptionVars, apptVars, usage, sweepVars>>

FailRequest(w) ==
  /\ ~At(w, "idle")
  /\ Goto(w, IdleWorker)
  /\ stale' = stale \ {w}
  /\ UNCHANGED <<challengeVars, subscriptionVars, apptVars, usage, sweepVars>>

(* updateStatus to cancelled or no_show: the status is read, and written by id *)
ReadForCancel(a) ==
  /\ apptStatus[a] = "in_progress" /\ a \notin cancelling
  /\ cancelling' = cancelling \cup {a}
  /\ UNCHANGED <<challengeVars, subscriptionVars, apptStatus, usage, requestVars, sweepVars>>

WriteCancelled(a) ==
  /\ a \in cancelling
  /\ cancelling' = cancelling \ {a}
  /\ apptStatus' = [apptStatus EXCEPT ![a] = "cancelled"]
  /\ UNCHANGED <<challengeVars, subscriptionVars, usage, requestVars, sweepVars>>

-----------------------------------------------------------------------------
(* reconcileIncompleteRedemptions *)

GotoSweep(s, next) == sweeper' = [sweeper EXCEPT ![s] = next]

SweepAt(s, pc) == sweeper[s].pc = pc

InterruptedAnyAge(c) ==
  /\ Exists(c)
  /\ \/ challenge[c].status = "in_redemption"
     \/ challenge[c].state \in {"in_redemption", "decremented"}
     \/ challenge[c].state = "restoring" /\ c \in lapsed

InterruptedUnclaimed(c) ==
  /\ Exists(c) /\ c \in quiet
  /\ \/ challenge[c].status = "in_redemption"
     \/ challenge[c].state \in {"in_redemption", "decremented"}

\* What the candidate query selects.
Interrupted(c) ==
  /\ Exists(c)
  /\ \/ /\ c \in quiet
        /\ \/ challenge[c].status = "in_redemption"
           \/ challenge[c].state \in {"in_redemption", "decremented"}
     \/ challenge[c].state = "restoring" /\ c \in lapsed

\* What the claim's findOneAndUpdate accepts: the age is not checked again.
Claimable(c) ==
  /\ Exists(c)
  /\ \/ challenge[c].state \in {"pending", "in_redemption", "decremented"}
     \/ challenge[c].state = "restoring" /\ c \in lapsed

StartSweep(s) ==
  LET found == {c \in Challenges : Interrupted(c)} IN
  /\ SweepAt(s, "idle")
  /\ found # {}
  /\ GotoSweep(s, Scanning(found))
  /\ UNCHANGED <<challengeVars, subscriptionVars, apptVars, usage, requestVars, failures>>

\* A new lease on c; the copy of decrements[] returned here drives the whole repair.
ClaimForRecovery(s, c) ==
  /\ SweepAt(s, "scan") /\ c \in sweeper[s].found
  /\ Claimable(c)
  /\ Update(c, [challenge[c] EXCEPT !.state = "restoring"])
  /\ lapsed' = lapsed \ {c}
  /\ GotoSweep(s, [pc |-> "judge", found |-> sweeper[s].found \ {c}, ch |-> c,
                   todo |-> challenge[c].intents, line |-> NoLine])
  /\ UNCHANGED <<expired, subscriptionVars, apptVars, usage, requestVars, failures>>

\* Another pass holds c, or it was settled or deleted since the query.
SkipCandidate(s, c) ==
  /\ SweepAt(s, "scan") /\ c \in sweeper[s].found
  /\ ~Claimable(c)
  /\ GotoSweep(s, Scanning(sweeper[s].found \ {c}))
  /\ UNCHANGED <<challengeVars, subscriptionVars, apptVars, usage, requestVars, failures>>

\* The appointment did complete: the challenge is closed as used.
ConfirmCompleted(s) ==
  LET c == sweeper[s].ch IN
  /\ SweepAt(s, "judge")
  /\ apptStatus[challenge[c].appt] = "completed"
  /\ Update(c, [challenge[c] EXCEPT !.status = "verified", !.state = "completed"])
  /\ GotoSweep(s, Scanning(sweeper[s].found))
  /\ UNCHANGED <<expired, lapsed, subscriptionVars, apptVars, usage, requestVars, failures>>

\* The appointment did not complete: its decrements are to be undone.
JudgeInterrupted(s) ==
  /\ SweepAt(s, "judge")
  /\ apptStatus[challenge[sweeper[s].ch].appt] # "completed"
  /\ GotoSweep(s, [sweeper[s] EXCEPT !.pc = "inspect"])
  /\ UNCHANGED <<challengeVars, subscriptionVars, apptVars, usage, requestVars, failures>>

\* appliedOperations is read for line l: restored already, applied, or neither.
InspectLine(s, l) ==
  LET c == sweeper[s].ch IN
  /\ SweepAt(s, "inspect") /\ l \in sweeper[s].todo
  /\ \/ /\ Restore(c, l) \in applied
        /\ GotoSweep(s, [sweeper[s] EXCEPT !.todo = @ \ {l}])
     \/ /\ Restore(c, l) \notin applied /\ Committed(c, l)
        /\ GotoSweep(s, [sweeper[s] EXCEPT !.pc = "restore", !.line = l])
     \/ /\ Restore(c, l) \notin applied /\ ~Committed(c, l)
        /\ GotoSweep(s, [sweeper[s] EXCEPT !.pc = "fence", !.line = l])
  /\ UNCHANGED <<challengeVars, subscriptionVars, apptVars, usage, requestVars, failures>>

\* Back to the loop over decrements[]; the entry's marks are stored (updatedAt moves).
LineDone(s) ==
  LET l == sweeper[s].line IN
  /\ quiet' = quiet \ {sweeper[s].ch}
  /\ GotoSweep(s, [sweeper[s] EXCEPT !.pc = "inspect", !.line = NoLine, !.todo = @ \ {l}])

\* fenceOperation: a no-op if the decrement has come through after all, and the
\* caller does not look at the result.
FenceOperation(s) ==
  LET c == sweeper[s].ch
      l == sweeper[s].line
  IN
  /\ SweepAt(s, "fence")
  /\ applied' = IF Committed(c, l) THEN applied ELSE applied \cup {Fence(c, l)}
  /\ LineDone(s)
  /\ UNCHANGED <<challenge, expired, lapsed, remaining, subStatus, apptVars, usage,
                 requestVars, failures>>

AlwaysOne(c, l) == 1
UnitsToRestore(c, l) == IF Restore(c, l) \in applied THEN 0 ELSE 1

\* atomicRestoreMemberEntitlement: once per restore identity, whatever the status.
RestoreBalance(s) ==
  LET c == sweeper[s].ch
      l == sweeper[s].line
  IN
  /\ SweepAt(s, "restore")
  /\ applied' = applied \cup {Restore(c, l)}
  /\ remaining' = [remaining EXCEPT ![SubOf[l]] = @ + UnitsToRestore(c, l)]
  /\ LineDone(s)
  /\ UNCHANGED <<challenge, expired, lapsed, subStatus, apptVars, usage, requestVars,
                 failures>>

\* Every usage record of the appointment is deleted, whichever challenge made it.
CleanupUsages(s) ==
  /\ SweepAt(s, "inspect") /\ sweeper[s].todo = {}
  /\ usage' = usage \ LinesOf(challenge[sweeper[s].ch].appt)
  /\ GotoSweep(s, [sweeper[s] EXCEPT !.pc = "close"])
  /\ UNCHANGED <<challengeVars, subscriptionVars, apptVars, requestVars, failures>>

CloseReconciled(s) ==
  LET c == sweeper[s].ch IN
  /\ SweepAt(s, "close")
  /\ Update(c, [challenge[c] EXCEPT !.status = "exhausted", !.state = "reconciled"])
  /\ GotoSweep(s, Scanning(sweeper[s].found))
  /\ UNCHANGED <<expired, lapsed, subscriptionVars, apptVars, usage, requestVars, failures>>

\* The pass dies between two steps (crash, or a database error on the candidate).
FailSweep(s) ==
  /\ ~SweepAt(s, "idle")
  /\ failures < SweepFailures
  /\ failures' = failures + 1
  /\ GotoSweep(s, Scanning({}))
  /\ UNCHANGED <<challengeVars, subscriptionVars, apptVars, usage, requestVars>>

-----------------------------------------------------------------------------
(* The passing of time *)

\* now > expiresAt, five minutes after the code was sent.
Expire(c) ==
  /\ Exists(c) /\ c \notin expired
  /\ expired' = expired \cup {c}
  /\ UNCHANGED <<challenge, quiet, lapsed, subscriptionVars, apptVars, usage,
                 requestVars, sweepVars>>

\* updatedAt is five minutes old; the last write is never before the code was
\* sent, so expiresAt has passed as well.
GrowQuiet(c) ==
  /\ c \in expired /\ c \notin quiet /\ Exists(c)
  /\ SlowProcesses \/ ~Held(c)
  /\ quiet' = quiet \cup {c}
  /\ UNCHANGED <<challenge, expired, lapsed, subscriptionVars, apptVars, usage,
                 requestVars, sweepVars>>

\* The lease of a recovery is two minutes old.
LeaseLapses(c) ==
  /\ challenge[c].state = "restoring" /\ c \notin lapsed
  /\ SlowProcesses \/ ~Held(c)
  /\ lapsed' = lapsed \cup {c}
  /\ UNCHANGED <<challenge, expired, quiet, subscriptionVars, apptVars, usage,
                 requestVars, sweepVars>>

\* MongoDB's TTL index on expiresAt removes the document, in any state.
DeleteExpired(c) ==
  /\ TTLMonitor
  /\ c \in expired /\ Exists(c)
  /\ challenge' = [challenge EXCEPT ![c] =
                     [AbsentChallenge EXCEPT !.status = "deleted", !.appt = challenge[c].appt]]
  /\ expired' = expired \ {c} /\ quiet' = quiet \ {c} /\ lapsed' = lapsed \ {c}
  /\ UNCHANGED <<subscriptionVars, apptVars, usage,
                 requestVars, sweepVars>>

-----------------------------------------------------------------------------
RequestStep(w) ==
  \/ ResendChallenge(w) \/ SaveExpired(w) \/ SaveAttempt(w) \/ ClaimChallenge(w)
  \/ MarkVerified(w) \/ Decrement(w) \/ Acknowledge(w) \/ RecordUsage(w)
  \/ MarkExhausted(w) \/ CompleteAppointment(w) \/ FinishChallenge(w)
  \/ CommitRedemption(w) \/ FailRequest(w)
  \/ \E c \in Challenges : CreateChallenge(w, c)
  \/ \E l \in Lines : RecordIntent(w, l)

NewRequest(w) ==
  \/ \E a \in Appointments : RequestOtp(w, a)
  \/ \E c \in Challenges : LoadChallenge(w, c)

SweepStep(s) ==
  \/ StartSweep(s) \/ ConfirmCompleted(s) \/ JudgeInterrupted(s)
  \/ FenceOperation(s) \/ RestoreBalance(s) \/ CleanupUsages(s) \/ CloseReconciled(s)
  \/ \E c \in Challenges : ClaimForRecovery(s, c) \/ SkipCandidate(s, c)
  \/ \E l \in Lines : InspectLine(s, l)

CancelStep(a) == ReadForCancel(a) \/ WriteCancelled(a)

TimeStep(c) == Expire(c) \/ GrowQuiet(c) \/ LeaseLapses(c)

Next ==
  \/ \E w \in Workers : NewRequest(w) \/ RequestStep(w)
  \/ \E s \in Sweepers : SweepStep(s) \/ FailSweep(s)
  \/ \E a \in Appointments : CancelStep(a)
  \/ \E c \in Challenges : TimeStep(c) \/ DeleteExpired(c)

Spec == Init /\ [][Next]_vars

\* Requests run to their end, the interval timer keeps starting passes, and time
\* passes.  Nothing obliges a customer to ask for a code or a manager to cancel.
Fairness ==
  /\ \A w \in Workers : WF_vars(RequestStep(w))
  /\ \A s \in Sweepers : WF_vars(SweepStep(s))
  /\ \A c \in Challenges : WF_vars(TimeStep(c))

FairSpec == Spec /\ Fairness

-----------------------------------------------------------------------------
(* Properties *)

\* Every variable holds a value of its kind.
TypeOK ==
  /\ challenge \in [Challenges -> Challenge]
  /\ expired \subseteq Challenges /\ quiet \subseteq Challenges /\ lapsed \subseteq Challenges
  /\ remaining \in [Subscriptions -> Int]
  /\ applied \subseteq Operation
  /\ subStatus \in [Subscriptions -> {"active", "exhausted"}]
  /\ apptStatus \in [Appointments -> {"in_progress", "completed", "cancelled"}]
  /\ cancelling \subseteq Appointments
  /\ usage \subseteq Lines
  /\ worker \in [Workers -> Worker]
  /\ stale \subseteq Workers
  /\ sweeper \in [Sweepers -> Sweeper]
  /\ failures \in 0 .. SweepFailures

OperationsOn(kind, s) == {op \in applied : op.kind = kind /\ SubOf[op.line] = s}

\* The challenges whose completion took a unit for line l and did not give it back.
Charges(l) == {c \in Challenges : Dec(c, l) \in applied /\ Restore(c, l) \notin applied}

\* remainingQuantity is always the quota less the recorded decrements plus the
\* recorded restorations, and stays within the quota, however requests, passes
\* and crashes interleave (the $inc and $push of one update, and the choice of
\* reconcileIncompleteRedemptions to restore only what was applied).
BalanceAccounted ==
  \A s \in Subscriptions :
    /\ remaining[s] = Quota - Cardinality(OperationsOn("dec", s))
                            + Cardinality(OperationsOn("restore", s))
    /\ remaining[s] \in 0 .. Quota

\* At most one request at a time, and no request after another, gets past the
\* compare-and-set of a challenge: a resend or a stale save never makes a
\* claimed challenge claimable again.
SingleRedeemer ==
  \A v, w \in Workers :
    v # w /\ worker[v].pc \in Redeeming /\ worker[w].pc \in Redeeming
      => worker[v].ch # worker[w].ch

\* A request about to spend a unit is the first to do so under its operation
\* identity: completeWithSubscription's branch for an attempt whose
\* acknowledgment was lost is never taken.
DecrementIsFirstAttempt ==
  \A w \in Workers :
    worker[w].pc = "decrement" => Dec(worker[w].ch, worker[w].line) \notin applied

\* Concurrent wrong codes are never lost and never counted past the limit.
AttemptsBounded == \A c \in Challenges : challenge[c].attempts <= MaxAttempts

\* One service line never costs the customer two units at once.
LineChargedAtMostOnce == \A l \in Lines : Cardinality(Charges(l)) <= 1

\* Once its appointment is completed and the requests are over, a service line has
\* cost the customer one unit, however many codes it took to complete it.
CompletedCostsOneUnit ==
  \A l \in Lines :
    Cardinality({c \in Charges(l) : challenge[c].state = "completed" /\ ~Held(c)}) <= 1

\* A completed appointment has been paid for: recovery never gives back the unit
\* of a line whose service is recorded as rendered.
CompletedIsPaid ==
  \A l \in Lines : apptStatus[ApptOf[l]] = "completed" => Charges(l) # {}

\* Recovery closes a challenge as reconciled only when none of its units is
\* still missing from the customer's balance.
ReconciledIsSettled ==
  \A c \in Challenges, l \in Lines :
    challenge[c].state = "reconciled" => c \notin Charges(l)

\* The units of an interrupted completion come back, unless the challenge is
\* closed as used because the appointment was completed after all.
InterruptedIsSettled ==
  \A l \in Lines, c \in Challenges :
    (c \in Charges(l) /\ ~Held(c))
      ~> (c \notin Charges(l) \/ challenge[c].state = "completed")

-----------------------------------------------------------------------------
(* The abstract ledger: an operation identity is a challenge and a line *)

LedgerState ==
  [op \in Challenges \X Lines |->
     IF Restore(op[1], op[2]) \in applied THEN "restored"
     ELSE IF Dec(op[1], op[2]) \in applied THEN "consumed"
     ELSE IF Fence(op[1], op[2]) \in applied THEN "fenced"
     ELSE "unused"]

Ledger == INSTANCE EntitlementLedger WITH
  Operations <- Challenges \X Lines,
  SubscriptionOf <- [op \in Challenges \X Lines |-> SubOf[op[2]]],
  balance <- remaining,
  state <- LedgerState

\* The whole protocol, crashes and races included, implements the ledger: an
\* identity spends at most once, is restored at most once and only if spent, and
\* spends nothing once it is fenced.
LedgerSpec == Ledger!Spec
=============================================================================
