----------------------------- MODULE Reminders -----------------------------
(***************************************************************************)
(* Reminders (agent/scheduler.py): reminders.json and check_reminders, the *)
(* job that sends those that are due, one after the other, and notes each  *)
(* one's outcome after it was posted.  APScheduler never runs the job      *)
(* twice at once.                                                          *)
(***************************************************************************)
EXTENDS Naturals, FiniteSets

CONSTANTS
  Reminders,      (* reminder ids                                            *)
  MaxLostAnswers, (* bound: posts whose answer is lost                       *)
  MaxSaveFaults,  (* bound: saves that raise                                 *)
  MaxBoots        (* bound: process deaths                                   *)

ASSUME RemindersAssumption ==
  {MaxLostAnswers, MaxSaveFaults, MaxBoots} \subseteq Nat

VARIABLES
  reminder,       (* reminders.json, and how long each is overdue            *)
  checking,       (* check_reminders: the due ones left, the one at hand,    *)
                  (* and where it stands                                     *)
  delivered,      (* history: how often each was posted                      *)
  doubtful,       (* history: posts coolton could not note                   *)
  reminderSpent   (* history: the bounded events so far                      *)

reminderVars == <<reminder, checking, delivered, doubtful, reminderSpent>>

(* How late it is: 1 not due, 2 due, 3 more than a day late, 4 a week late. *)
Ages == 1..4

(* The states of an entry: never made, waiting to be sent, failed once and  *)
(* backing off until retry_at, sent, given up on, and pruned from the file. *)
ReminderStates == {"none", "pending", "backoff", "sent", "failed", "pruned"}

Reminder(s, a) == [state |-> s, age |-> a]
Check(l, d, r) == [pc |-> l, due |-> d, at |-> r]
NoCheck == Check("idle", {}, {})

Due(r) == reminder[r].state = "pending" /\ reminder[r].age >= 2
Settled(r) == reminder[r].state \in {"sent", "failed", "pruned"}

(* _prune_sent_reminders *)
Prune(f) ==
  [r \in Reminders |->
     IF f[r].state \in {"sent", "failed"} /\ f[r].age = 4 THEN Reminder("pruned", 4) ELSE f[r]]

ReminderEvent(k) == reminderSpent' = [reminderSpent EXCEPT ![k] = @ + 1]
SaveRaises == reminderSpent.saves < MaxSaveFaults /\ ReminderEvent("saves")

----------------------------------------------------------------------------
RemindersInit ==
  /\ reminder = [r \in Reminders |-> Reminder("none", 1)]
  /\ checking = NoCheck
  /\ delivered = [r \in Reminders |-> 0]
  /\ doubtful = [r \in Reminders |-> 0]
  /\ reminderSpent = [k \in {"lost", "saves", "boots"} |-> 0]

(* schedule_reminder: append, prune, save. *)
ScheduleReminder(r) ==
  /\ reminder[r].state = "none"
  /\ reminder' = Prune([reminder EXCEPT ![r] = Reminder("pending", 1)])
  /\ UNCHANGED <<checking, delivered, doubtful, reminderSpent>>

(* Mutant of Grow: the week has no end. *)
GrowOn(r) ==
  /\ reminder[r].state # "none" /\ reminder[r].age < 5
  /\ reminder' = [reminder EXCEPT ![r].age = @ + 1]
  /\ UNCHANGED <<checking, delivered, doubtful, reminderSpent>>

(* Time goes by: due_at passes, then a day, then a week. *)
Grow(r) ==
  /\ reminder[r].state # "none" /\ reminder[r].age < 4
  /\ reminder' = [reminder EXCEPT ![r].age = @ + 1]
  /\ UNCHANGED <<checking, delivered, doubtful, reminderSpent>>

(* retry_at passes. *)
BackoffEnds(r) ==
  /\ reminder[r].state = "backoff"
  /\ reminder' = [reminder EXCEPT ![r].state = "pending"]
  /\ UNCHANGED <<checking, delivered, doubtful, reminderSpent>>

(* _get_due_reminders *)
CheckReminders ==
  /\ checking.pc = "idle"
  /\ {r \in Reminders : Due(r)} # {}
  /\ checking' = Check("next", {r \in Reminders : Due(r)}, {})
  /\ UNCHANGED <<reminder, delivered, doubtful, reminderSpent>>

(* chat.postMessage for the next of them: Slack took it; refused it, for    *)
(* good or for now; or no answer came, whether it was posted or not.        *)
PostReminder(r) ==
  /\ checking.pc = "next" /\ r \in checking.due
  /\ \/ /\ delivered' = [delivered EXCEPT ![r] = @ + 1]
        /\ checking' = Check("sent", checking.due \ {r}, {r})
        /\ UNCHANGED <<doubtful, reminderSpent>>
     \/ /\ \E e \in {"impossible", "refused", "raised"} : checking' = Check(e, checking.due \ {r}, {r})
        /\ UNCHANGED <<delivered, doubtful, reminderSpent>>
     \/ /\ reminderSpent.lost < MaxLostAnswers
        /\ ReminderEvent("lost")
        /\ checking' = Check("raised", checking.due \ {r}, {r})
        /\ delivered' = [delivered EXCEPT ![r] = @ + 1]
        /\ doubtful' = [doubtful EXCEPT ![r] = @ + 1]
  /\ UNCHANGED reminder

(* Mutant of MarkSent: the entry is left as it was. *)
MarkNothing(r) ==
  /\ checking.pc = "sent" /\ checking.at = {r}
  /\ reminder' = Prune(reminder)
  /\ checking' = Check("next", checking.due, {})
  /\ UNCHANGED <<delivered, doubtful, reminderSpent>>

(* _mark_sent.  If its save raises, the except clause records a failure. *)
MarkSent(r) ==
  /\ checking.pc = "sent" /\ checking.at = {r}
  /\ \/ /\ reminder' = Prune([reminder EXCEPT ![r].state = "sent"])
        /\ checking' = Check("next", checking.due, {})
        /\ UNCHANGED <<doubtful, reminderSpent>>
     \/ /\ SaveRaises
        /\ checking' = Check("raised", checking.due, {r})
        /\ doubtful' = [doubtful EXCEPT ![r] = @ + 1]
        /\ UNCHANGED reminder
  /\ UNCHANGED delivered

(* Mutant of RecordFailure: it never gives up. *)
RetryForever(r) ==
  /\ checking.pc \in {"impossible", "refused", "raised"} /\ checking.at = {r}
  /\ reminder' = [reminder EXCEPT ![r].state = "backoff"]
  /\ checking' = Check("next", checking.due, {})
  /\ UNCHANGED <<delivered, doubtful, reminderSpent>>

(* _record_reminder_failure: give up on an error no retry fixes, or when a  *)
(* day late, or back off.  If its save raises inside the try, the except    *)
(* clause calls it again; there, nothing catches it: the job ends, and the  *)
(* rest of the list waits for the next one.                                 *)
RecordFailure(r) ==
  /\ checking.pc \in {"impossible", "refused", "raised"} /\ checking.at = {r}
  /\ \/ /\ reminder' = [reminder EXCEPT ![r].state =
              IF checking.pc = "impossible" \/ reminder[r].age >= 3 THEN "failed" ELSE "backoff"]
        /\ checking' = Check("next", checking.due, {})
        /\ UNCHANGED reminderSpent
     \/ /\ SaveRaises
        /\ checking' = IF checking.pc = "raised" THEN NoCheck ELSE Check("raised", checking.due, {r})
        /\ UNCHANGED reminder
  /\ UNCHANGED <<delivered, doubtful>>

EndCheck ==
  /\ checking.pc = "next" /\ checking.due = {}
  /\ checking' = NoCheck
  /\ UNCHANGED <<reminder, delivered, doubtful, reminderSpent>>

(* The process dies and starts again: the file is all that is left.  A      *)
(* reminder that was posted but not marked is due again.                    *)
RebootReminders ==
  /\ reminderSpent.boots < MaxBoots
  /\ ReminderEvent("boots")
  /\ checking' = NoCheck
  /\ doubtful' = [r \in Reminders |->
       IF checking.pc = "sent" /\ r \in checking.at THEN doubtful[r] + 1 ELSE doubtful[r]]
  /\ UNCHANGED <<reminder, delivered>>

ReminderJob ==
  \/ CheckReminders \/ EndCheck
  \/ \E r \in Reminders : PostReminder(r) \/ MarkSent(r) \/ RecordFailure(r)

RemindersNext ==
  \/ \E r \in Reminders : ScheduleReminder(r) \/ Grow(r) \/ BackoffEnds(r)
  \/ ReminderJob
  \/ RebootReminders

(* The job runs every 30 seconds and its posts have timeouts; time goes by. *)
RemindersSpec ==
  /\ RemindersInit /\ [][RemindersNext]_reminderVars
  /\ WF_reminderVars(ReminderJob)
  /\ \A r \in Reminders : WF_reminderVars(Grow(r)) /\ WF_reminderVars(BackoffEnds(r))

----------------------------------------------------------------------------
RemindersTypeOK ==
  /\ reminder \in [Reminders -> [state : ReminderStates, age : Ages]]
  /\ checking \in [pc : {"idle", "next", "sent", "impossible", "refused", "raised"},
                   due : SUBSET Reminders, at : SUBSET Reminders]
  /\ delivered \in [Reminders -> Nat]
  /\ doubtful \in [Reminders -> Nat]
  /\ reminderSpent \in [{"lost", "saves", "boots"} -> Nat]

(* A reminder is posted once, and once more only for each post coolton did  *)
(* not get to note: an answer that was lost, a save that raised or a death  *)
(* between the post and _mark_sent.                                         *)
DeliveredOnce == \A r \in Reminders : delivered[r] <= 1 + doubtful[r]

(* Every reminder is sent or given up on, however often Slack refuses it.   *)
RemindersSettle == \A r \in Reminders : reminder[r].state = "pending" ~> Settled(r)
============================================================================
