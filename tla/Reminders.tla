------------------------------- MODULE Reminders -------------------------------
(***************************************************************************)
(* The reminders of one appointment: scheduleReminders, cancelReminders    *)
(* and triggerReminder of appointment.service.js, the queues of            *)
(* queues/client.js and the workers of notification.worker.js.             *)
(*                                                                         *)
(* BullMQ: a job is known by its id, which names the appointment, the      *)
(* channel and the offset but not the time; an id that exists, even of a   *)
(* failed job, makes `add` do nothing.  A job runs when its delay has      *)
(* passed, again after a failure or a worker's crash, Attempts times.      *)
(***************************************************************************)
EXTENDS Integers

CONSTANTS
  Channels,     \* the channels of the reminder: "email", "sms" or both
  Offset,       \* minutes before the start at which it is due
  LastMinute,   \* bound of the clock
  Attempts      \* runs of a job (3 in the code)

ASSUME ReminderAssumption ==
  /\ Offset \in Nat /\ LastMinute \in Nat /\ Attempts \in Nat \ {0}

VARIABLES
  minute,   \* the clock
  visit,    \* the appointment: open, start, reminder switched on, channel statuses
  job,      \* the queue's job for each channel
  sender,   \* how far the worker is with it: idle, claimed, sent
  told,     \* messages a worker delivered since the reminder was last scheduled
  disturbed, \* whether a request rewrote the status while a job was unfinished
  edit      \* the channel statuses a request to change the settings has read, if any

reminderVars == <<minute, visit, job, sender, told, disturbed, edit>>

NoEdit == <<>>

NoJob == [phase |-> "none", due |-> 0, tries |-> 0]

\* A worker has met the job, and it is not over.
Unfinished(c) == job[c].tries > 0

\* queue.add: ignored when the id is known.
Added(due) ==
  [c \in Channels |-> IF job[c].phase = "none"
                        THEN [phase |-> "waiting", due |-> due, tries |-> 0]
                        ELSE job[c]]

\* scheduleReminders, for an appointment that starts at `start`: its work takes less
\* than a minute, so no job it adds runs before it has saved.
Schedule(start, enabled) ==
  LET late == ~enabled \/ start - Offset <= minute
  IN  /\ visit' = [status |-> "scheduled", start |-> start, enabled |-> enabled,
                   channel |-> [c \in Channels |-> IF late THEN "cancelled" ELSE "scheduled"]]
      /\ job' = IF late THEN job ELSE Added(start - Offset)
      /\ told' = [c \in Channels |-> 0]
      /\ disturbed' = [c \in Channels |-> Unfinished(c)]
      /\ UNCHANGED <<minute, sender, edit>>

ReminderInit ==
  /\ minute = 0
  /\ visit = [status |-> "absent", start |-> 0, enabled |-> TRUE,
              channel |-> [c \in Channels |-> "pending"]]
  /\ job = [c \in Channels |-> NoJob]
  /\ sender = [c \in Channels |-> "idle"]
  /\ told = [c \in Channels |-> 0]
  /\ disturbed = [c \in Channels |-> FALSE]
  /\ edit = NoEdit

BookVisit(start, enabled) ==
  /\ visit.status = "absent" /\ start >= minute
  /\ Schedule(start, enabled)

\* rescheduleAppointment.  cancelReminders looks for `getJob`, which the queue
\* proxies do not have: it removes nothing.
RescheduleVisit(start) ==
  /\ visit.status = "scheduled" /\ start >= minute
  /\ Schedule(start, visit.enabled)

\* The visit starts, or ends; the channels' statuses and the jobs stay.
CloseVisit ==
  /\ visit.status = "scheduled"
  /\ visit' = [visit EXCEPT !.status = "closed"]
  /\ UNCHANGED <<minute, job, sender, told, disturbed, edit>>

\* updateAppointment with `reminder` copies the whole sub-document it read ...
ReadReminder ==
  /\ visit.status = "scheduled" /\ edit = NoEdit
  /\ edit' = visit.channel
  /\ UNCHANGED <<minute, visit, job, sender, told, disturbed>>

\* ... and writes it back with the new setting, over what a worker has recorded.
SwitchReminder(on) ==
  /\ edit # NoEdit
  /\ visit' = [visit EXCEPT !.enabled = on, !.channel = edit]
  /\ disturbed' = [c \in Channels |-> disturbed[c] \/ Unfinished(c)]
  /\ edit' = NoEdit
  /\ UNCHANGED <<minute, job, sender, told>>

\* triggerReminder sends at once, whatever was sent before.
TriggerReminder(c, ok) ==
  /\ visit.status = "scheduled"
  /\ visit' = [visit EXCEPT !.channel[c] = IF ok THEN "sent" ELSE "failed"]
  /\ disturbed' = [disturbed EXCEPT ![c] = @ \/ Unfinished(c)]
  /\ UNCHANGED <<minute, job, sender, told, edit>>

-----------------------------------------------------------------------------
(* The worker *)

\* Mutant of Claimable: a reminder being sent may be claimed as well.
ClaimableAgain(c) ==
  /\ visit.status = "scheduled" /\ visit.enabled
  /\ visit.channel[c] \in {"scheduled", "pending", "failed", "processing"}

\* The filter of the atomic claim.
Claimable(c) ==
  /\ visit.status = "scheduled" /\ visit.enabled
  /\ visit.channel[c] \in {"scheduled", "pending", "failed"}

\* The job is taken; what cannot be claimed is done, without a message.
Claim(c) ==
  /\ job[c].phase = "waiting" /\ job[c].due <= minute
  /\ IF Claimable(c)
       THEN /\ visit' = [visit EXCEPT !.channel[c] = "processing"]
            /\ sender' = [sender EXCEPT ![c] = "claimed"]
            /\ job' = [job EXCEPT ![c].phase = "running", ![c].tries = @ + 1]
       ELSE /\ job' = [job EXCEPT ![c] = NoJob]
            /\ UNCHANGED <<visit, sender>>
  /\ UNCHANGED <<minute, told, disturbed, edit>>

\* The provider takes the message.
Deliver(c) ==
  /\ sender[c] = "claimed"
  /\ sender' = [sender EXCEPT ![c] = "sent"]
  /\ told' = [told EXCEPT ![c] = @ + 1]
  /\ UNCHANGED <<minute, visit, job, disturbed, edit>>

RecordSent(c) ==
  /\ sender[c] = "sent"
  /\ visit' = [visit EXCEPT !.channel[c] = "sent"]
  /\ job' = [job EXCEPT ![c] = NoJob]
  /\ sender' = [sender EXCEPT ![c] = "idle"]
  /\ UNCHANGED <<minute, told, disturbed, edit>>

\* Mutant of Again: the attempts are not limited.
AgainAlways(c) == [job EXCEPT ![c] = [@ EXCEPT !.phase = "waiting", !.due = minute]]

\* BullMQ runs the job again until its attempts are used up; then its id stays.
Again(c) ==
  [job EXCEPT ![c] = IF @.tries < Attempts THEN [@ EXCEPT !.phase = "waiting", !.due = minute]
                                           ELSE [@ EXCEPT !.phase = "failed"]]

\* The provider refuses: the failure is recorded and the error thrown again; the
\* customer has no address: recorded, and the job is done.
Refused(c, address) ==
  /\ sender[c] = "claimed"
  /\ visit' = [visit EXCEPT !.channel[c] = "failed"]
  /\ job' = IF address THEN Again(c) ELSE [job EXCEPT ![c] = NoJob]
  /\ sender' = [sender EXCEPT ![c] = "idle"]
  /\ UNCHANGED <<minute, told, disturbed, edit>>

\* A crash leaves "processing" behind, and the stalled job is run again.
WorkerCrash(c) ==
  /\ sender[c] # "idle"
  /\ sender' = [sender EXCEPT ![c] = "idle"]
  /\ job' = Again(c)
  /\ UNCHANGED <<minute, visit, told, disturbed, edit>>

MinutePasses ==
  /\ minute < LastMinute
  /\ minute' = minute + 1
  /\ UNCHANGED <<visit, job, sender, told, disturbed, edit>>

ReminderNext ==
  \/ \E start \in 1..LastMinute : RescheduleVisit(start) \/ \E on \in BOOLEAN : BookVisit(start, on)
  \/ CloseVisit \/ ReadReminder \/ MinutePasses \/ \E on \in BOOLEAN : SwitchReminder(on)
  \/ \E c \in Channels :
       \/ \E ok \in BOOLEAN : TriggerReminder(c, ok) \/ Refused(c, ok)
       \/ Claim(c) \/ Deliver(c) \/ RecordSent(c) \/ WorkerCrash(c)

ReminderSpec == ReminderInit /\ [][ReminderNext]_reminderVars

-----------------------------------------------------------------------------
(* Properties *)

ReminderTypeOK ==
  /\ minute \in 0..LastMinute
  /\ visit.status \in {"absent", "scheduled", "closed"} /\ visit.start \in 0..LastMinute
  /\ \A c \in Channels :
       /\ visit.channel[c] \in {"pending", "scheduled", "processing", "sent", "failed", "cancelled"}
       /\ job[c].phase \in {"none", "waiting", "running", "failed"}
       /\ job[c].tries \in 0..Attempts
       /\ sender[c] \in {"idle", "claimed", "sent"}

\* Through retries, crashes and second runs of a job, the workers tell a customer
\* at most once per scheduling on each channel, unless a request rewrote the
\* channel's status while its job was unfinished.
NoAutomaticRepeat == \A c \in Channels : disturbed[c] \/ told[c] <= 1

\* "Cancel old reminders", "Schedule new reminders": a waiting job of a scheduled
\* reminder that no worker has met yet is due when the appointment asks for it.
ReminderAtItsTime ==
  \A c \in Channels :
    visit.status = "scheduled" /\ visit.channel[c] = "scheduled"
      /\ job[c].phase = "waiting" /\ job[c].tries = 0
    => job[c].due = visit.start - Offset
=============================================================================
