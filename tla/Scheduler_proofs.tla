-------------------------- MODULE Scheduler_proofs --------------------------
(***************************************************************************)
(* What is proved of the scheduler's four parts, for every number of       *)
(* waits, reminders, tasks, threads, callers, faults and restarts: a wait  *)
(* wakes its conversation once; a reminder is posted once per post that    *)
(* was noted; a task's job and its entry agree, and a paused task goes     *)
(* quiet; and the pair of tokens coolton holds is the one Slack accepts.   *)
(* Each part is proved of its own specification: they share no variable.   *)
(***************************************************************************)
EXTENDS Waits, Reminders, ScheduledTasks, TokenRotation, TLAPS

----------------------------------------------------------------------------
(* Waits: a wake-up is in one place: with the waker that saved its wait as  *)
(* fired, in the steering queue, with the executor, or delivered.           *)

Carries(k, w) == waker[k].pc \in {"deciding", "steering", "waking"} /\ w \in waker[k].at

OneWake(w) ==
  /\ woken[w] <= 1
  /\ woken[w] = 1 => w \notin steered \cup waking
  /\ w \notin steered \cap waking
  /\ \A k \in Wakers : Carries(k, w) => woken[w] = 0 /\ w \notin steered \cup waking
  /\ \A k, l \in Wakers : Carries(k, w) /\ Carries(l, w) => k = l

(* Only a wait that was saved as fired has a wake-up anywhere. *)
NotYetFired(w) ==
  waitFile[w] # "fired" =>
    woken[w] = 0 /\ w \notin steered \cup waking /\ \A k \in Wakers : ~Carries(k, w)

(* A waker fires one wait at a time. *)
OneAtATime == \A k \in Wakers : \A v, w \in waker[k].at : v = w

WaitsInv ==
  /\ WaitsTypeOK
  /\ OneAtATime
  /\ \A w \in WaitIds : OneWake(w) /\ NotYetFired(w)

LEMMA WaitsTypeStep == WaitsTypeOK /\ [WaitsNext]_waitVars => WaitsTypeOK'
<1> SUFFICES ASSUME WaitsTypeOK, [WaitsNext]_waitVars PROVE WaitsTypeOK'
  OBVIOUS
<1> USE DEF WaitsTypeOK
<1>1. ASSUME NEW w \in WaitIds, CreateWait(w) PROVE WaitsTypeOK'
  BY <1>1 DEF CreateWait
<1>2. ASSUME NEW w \in WaitIds, AddWaitJob(w) PROVE WaitsTypeOK'
  BY <1>2 DEF AddWaitJob
<1>3. ASSUME NEW w \in WaitIds, DispatchWake(w) PROVE WaitsTypeOK'
  BY <1>3 DEF DispatchWake
<1>4. ASSUME NEW w \in WaitIds, NEW k \in FiringThreads, WaitIsDue(k, w) PROVE WaitsTypeOK'
  BY <1>4 DEF WaitIsDue, Waker, Wakers
<1>5. ASSUME NEW k \in Enders, EndWaitsEarly(k) PROVE WaitsTypeOK'
  BY <1>5 DEF EndWaitsEarly, Waker, Wakers
<1>6. ASSUME NEW k \in Wakers, WakerStep(k) PROVE WaitsTypeOK'
  <2>0. AfterFiring(k) \in [pc : {"idle", "ending"}, left : SUBSET WaitIds, at : SUBSET WaitIds]
    BY <1>6 DEF AfterFiring, NoWaker, Waker
  <2>1. CASE EndNext(k)
    <3> DEFINE WakerShape == [pc : {"idle", "ending", "firing", "deciding", "steering", "waking"},
                              left : SUBSET WaitIds, at : SUBSET WaitIds]
    <3>1. NoWaker \in WakerShape
      BY DEF NoWaker, Waker
    <3>2. \A w \in WaitIds : Waker("firing", waker[k].left \ {w}, {w}) \in WakerShape
      BY DEF Waker
    <3>3. \/ waker' = [waker EXCEPT ![k] = NoWaker]
          \/ \E w \in WaitIds : waker' = [waker EXCEPT ![k] = Waker("firing", waker[k].left \ {w}, {w})]
      BY <2>1 DEF EndNext
    <3>4. waker' \in [Wakers -> WakerShape]
      <4>1. waker \in [Wakers -> WakerShape]
        OBVIOUS
      <4> HIDE DEF WakerShape
      <4> QED
        BY <3>1, <3>2, <3>3, <4>1
    <3> QED
      BY <2>1, <3>4 DEF EndNext
  <2>2. CASE DecideWake(k)
    BY <2>0, <2>2 DEF DecideWake
  <2>3. CASE SteerWake(k)
    BY <2>0, <2>3 DEF SteerWake
  <2>4. CASE SubmitWake(k)
    BY <2>0, <2>4 DEF SubmitWake
  <2>5. ASSUME NEW w \in WaitIds, MarkFired(k, w) PROVE WaitsTypeOK'
    BY <2>0, <2>5, SMTT(60) DEF MarkFired
  <2> QED
    BY <1>6, <2>1, <2>2, <2>3, <2>4, <2>5 DEF WakerStep
<1>7. CASE BanOwner \/ BeginRun
  BY <1>7 DEF BanOwner, BeginRun
<1>8. CASE TakeSteered
  BY <1>8 DEF TakeSteered
<1>9. ASSUME NEW w \in WaitIds, NEW k \in Wakers, FiringFails(k, w) PROVE WaitsTypeOK'
  <2>1. NoWaker \in [pc : {"idle"}, left : SUBSET WaitIds, at : SUBSET WaitIds]
    BY DEF NoWaker, Waker
  <2>2. waitSpent' \in [{"ends", "outages", "faults"} -> Nat]
    BY <1>9 DEF FiringFails, WaitFault
  <2> QED
    BY <1>9, <2>1, <2>2 DEF FiringFails
<1>10. ASSUME NEW w \in WaitIds, WakeFails(w) PROVE WaitsTypeOK'
  BY <1>10 DEF WakeFails, WaitFault
<1>11. CASE RestartWaits
  <2>1. NoWaker \in [pc : {"idle"}, left : SUBSET WaitIds, at : SUBSET WaitIds]
    BY DEF NoWaker, Waker
  <2>2. dropped' \subseteq WaitIds
    BY <1>11 DEF RestartWaits
  <2>3. waitSpent' \in [{"ends", "outages", "faults"} -> Nat]
    BY <1>11 DEF RestartWaits
  <2> QED
    BY <1>11, <2>1, <2>2, <2>3 DEF RestartWaits
<1>12. CASE UNCHANGED waitVars
  BY <1>12 DEF waitVars
<1> QED
  BY <1>1, <1>2, <1>3, <1>4, <1>5, <1>6, <1>7, <1>8, <1>9, <1>10, <1>11, <1>12 DEF WaitsNext, WaitIsServed

(* Steps that put no wait in a waker's hand, deliver none and let no file   *)
(* forget that one was fired.                                               *)
WaitFrame ==
  /\ \A k \in Wakers :
       /\ \A v, w \in waker'[k].at : v = w
       /\ \A w \in WaitIds : Carries(k, w)' => Carries(k, w)
  /\ \A w \in WaitIds :
       /\ waitFile'[w] # "fired" => waitFile[w] # "fired"
       /\ woken'[w] = woken[w]
  /\ steered' \subseteq steered
  /\ waking' \subseteq waking

LEMMA FrameKeepsWakes == WaitsInv /\ WaitsTypeOK' /\ WaitFrame => WaitsInv'
BY DEF WaitsInv, OneAtATime, WaitFrame, OneWake, NotYetFired

LEMMA WaitsStep == WaitsInv /\ [WaitsNext]_waitVars => WaitsInv'
<1> SUFFICES ASSUME WaitsInv, [WaitsNext]_waitVars PROVE WaitsInv'
  OBVIOUS
<1>0. WaitsTypeOK /\ WaitsTypeOK' /\ OneAtATime
  BY WaitsTypeStep DEF WaitsInv
<1>a. ASSUME WaitFrame PROVE WaitsInv'
  BY <1>0, <1>a, FrameKeepsWakes
<1>1. ASSUME NEW w \in WaitIds, CreateWait(w) \/ AddWaitJob(w) PROVE WaitFrame
  BY <1>0, <1>1 DEF CreateWait, AddWaitJob, WaitFrame, Carries, OneAtATime, WaitsTypeOK
<1>2. ASSUME NEW w \in WaitIds, NEW k \in FiringThreads, WaitIsDue(k, w) PROVE WaitFrame
  BY <1>0, <1>2 DEF WaitIsDue, Waker, WaitFrame, Carries, OneAtATime, WaitsTypeOK
<1>3. ASSUME NEW k \in Enders, EndWaitsEarly(k) PROVE WaitFrame
  BY <1>0, <1>3 DEF EndWaitsEarly, Waker, WaitFrame, Carries, OneAtATime, WaitsTypeOK
<1>4. ASSUME BanOwner \/ BeginRun PROVE WaitFrame
  <2>1. UNCHANGED <<waitFile, waker, woken, steered, waking>>
    BY <1>4 DEF BanOwner, BeginRun
  <2>2. \A k \in Wakers : \A w \in WaitIds : Carries(k, w)' => Carries(k, w)
    BY <2>1 DEF Carries
  <2> QED
    BY <1>0, <2>1, <2>2 DEF WaitFrame, OneAtATime, Carries
<1>5. ASSUME RestartWaits PROVE WaitFrame
  <2>1. /\ \A k \in Wakers : waker'[k] = NoWaker
        /\ UNCHANGED <<waitFile, woken>> /\ steered' = {} /\ waking' = {}
    BY <1>5 DEF RestartWaits
  <2>2. NoWaker.pc = "idle" /\ NoWaker.at = {}
    BY DEF NoWaker, Waker
  <2>3. \A k \in Wakers :
          /\ \A v, w \in waker'[k].at : v = w
          /\ \A w \in WaitIds : Carries(k, w)' => Carries(k, w)
    BY <2>1, <2>2 DEF Carries
  <2> QED
    BY <2>1, <2>3 DEF WaitFrame, Carries
<1>6. ASSUME UNCHANGED waitVars PROVE WaitFrame
  <2>1. UNCHANGED <<waitFile, waker, woken, steered, waking>>
    BY <1>6 DEF waitVars
  <2>2. \A k \in Wakers : \A w \in WaitIds : Carries(k, w)' => Carries(k, w)
    BY <2>1 DEF Carries
  <2> QED
    BY <1>0, <2>1, <2>2 DEF WaitFrame, OneAtATime, Carries
<1>7. ASSUME NEW w \in WaitIds, NEW k \in Wakers, FiringFails(k, w) PROVE WaitFrame
  BY <1>0, <1>7 DEF FiringFails, NoWaker, Waker, WaitFrame, Carries, OneAtATime, WaitsTypeOK
<1>8. ASSUME NEW w \in WaitIds, WakeFails(w) PROVE WaitFrame
  BY <1>0, <1>8 DEF WakeFails, WaitFrame, Carries, OneAtATime, WaitsTypeOK
<1>9. CASE TakeSteered
  <2>1. /\ UNCHANGED <<waitFile, waker, waking>> /\ steered' = {}
        /\ \A w \in WaitIds : woken'[w] = IF w \in steered THEN woken[w] + 1 ELSE woken[w]
    BY <1>9 DEF TakeSteered
  <2>2. \A w \in WaitIds, k \in Wakers : Carries(k, w)' <=> Carries(k, w)
    BY <2>1 DEF Carries
  <2>3. \A w \in WaitIds : OneWake(w)' /\ NotYetFired(w)'
    BY <1>0, <2>1, <2>2 DEF WaitsInv, OneWake, NotYetFired, WaitsTypeOK
  <2> QED
    BY <1>0, <2>1, <2>3 DEF WaitsInv, OneAtATime
<1>10. ASSUME NEW w \in WaitIds, DispatchWake(w) PROVE WaitsInv'
  <2>1. /\ UNCHANGED <<waitFile, waker, steered>> /\ waking' = waking \ {w} /\ w \in waking
        /\ \A v \in WaitIds : woken'[v] = IF v = w THEN woken[v] + 1 ELSE woken[v]
    BY <1>0, <1>10 DEF DispatchWake, WaitsTypeOK
  <2>2. \A v \in WaitIds, k \in Wakers : Carries(k, v)' <=> Carries(k, v)
    BY <2>1 DEF Carries
  <2>3. \A v \in WaitIds : OneWake(v)' /\ NotYetFired(v)'
    BY <1>0, <2>1, <2>2 DEF WaitsInv, OneWake, NotYetFired, WaitsTypeOK
  <2> QED
    BY <1>0, <2>1, <2>3 DEF WaitsInv, OneAtATime
<1>11. ASSUME NEW k \in Wakers, WakerStep(k) PROVE WaitsInv'
  <2>0. AfterFiring(k).pc \in {"idle", "ending"} /\ AfterFiring(k).at = {}
    BY DEF AfterFiring, NoWaker, Waker
  <2>1. CASE EndNext(k)
    <3>1. WaitFrame
      BY <1>0, <2>1 DEF EndNext, Waker, NoWaker, WaitFrame, Carries, OneAtATime, WaitsTypeOK
    <3> QED
      BY <3>1, <1>a
  <2>2. CASE DecideWake(k)
    <3>1. WaitFrame
      BY <1>0, <2>0, <2>2 DEF DecideWake, WaitFrame, Carries, OneAtATime, WaitsTypeOK
    <3> QED
      BY <3>1, <1>a
  <2>3. CASE SteerWake(k)
    <3>1. /\ UNCHANGED <<waitFile, waking, woken>> /\ steered' = steered \cup waker[k].at
          /\ waker' = [waker EXCEPT ![k] = AfterFiring(k)] /\ waker[k].pc = "steering"
      BY <2>3 DEF SteerWake
    <3>2. /\ \A v \in WaitIds : v \in waker[k].at => Carries(k, v)
          /\ \A v \in WaitIds : ~Carries(k, v)'
          /\ \A v \in WaitIds, l \in Wakers \ {k} : Carries(l, v)' <=> Carries(l, v)
      BY <1>0, <2>0, <3>1 DEF Carries, WaitsTypeOK
    <3>3. \A v \in WaitIds : OneWake(v)' /\ NotYetFired(v)'
      BY <1>0, <3>1, <3>2 DEF WaitsInv, OneWake, NotYetFired
    <3>4. OneAtATime'
      BY <1>0, <2>0, <3>1 DEF OneAtATime, WaitsTypeOK
    <3> QED
      BY <1>0, <3>3, <3>4 DEF WaitsInv
  <2>4. CASE SubmitWake(k)
    <3>1. /\ UNCHANGED <<waitFile, steered, woken>> /\ waking' = waking \cup waker[k].at
          /\ waker' = [waker EXCEPT ![k] = AfterFiring(k)] /\ waker[k].pc = "waking"
      BY <2>4 DEF SubmitWake
    <3>2. /\ \A v \in WaitIds : v \in waker[k].at => Carries(k, v)
          /\ \A v \in WaitIds : ~Carries(k, v)'
          /\ \A v \in WaitIds, l \in Wakers \ {k} : Carries(l, v)' <=> Carries(l, v)
      BY <1>0, <2>0, <3>1 DEF Carries, WaitsTypeOK
    <3>3. \A v \in WaitIds : OneWake(v)' /\ NotYetFired(v)'
      BY <1>0, <3>1, <3>2 DEF WaitsInv, OneWake, NotYetFired
    <3>4. OneAtATime'
      BY <1>0, <2>0, <3>1 DEF OneAtATime, WaitsTypeOK
    <3> QED
      BY <1>0, <3>3, <3>4 DEF WaitsInv
  <2>5. ASSUME NEW w \in WaitIds, MarkFired(k, w) PROVE WaitsInv'
    <3>1. CASE waitFile[w] # "pending"
      <4>1. WaitFrame
        BY <1>0, <2>0, <2>5, <3>1 DEF MarkFired, WaitFrame, Carries, OneAtATime, WaitsTypeOK
      <4> QED
        BY <4>1, <1>a
    <3>2. CASE waitFile[w] = "pending"
      <4>1. /\ waitFile' = [waitFile EXCEPT ![w] = "fired"]
            /\ waker' = [waker EXCEPT ![k].pc = "deciding"]
            /\ w \in waker[k].at
            /\ UNCHANGED <<woken, steered, waking>>
        BY <2>5, <3>2 DEF MarkFired
      <4>2. /\ \A v \in WaitIds : Carries(k, v)' => v = w
            /\ \A v \in WaitIds, l \in Wakers \ {k} : Carries(l, v)' <=> Carries(l, v)
        BY <1>0, <4>1 DEF Carries, WaitsTypeOK, OneAtATime
      <4>3. /\ waitFile'[w] = "fired" /\ \A v \in WaitIds \ {w} : waitFile'[v] = waitFile[v]
        BY <1>0, <4>1 DEF WaitsTypeOK
      <4>4. \A v \in WaitIds : OneWake(v)' /\ NotYetFired(v)'
        BY <1>0, <3>2, <4>1, <4>2, <4>3 DEF WaitsInv, OneWake, NotYetFired
      <4>5. OneAtATime'
        BY <1>0, <4>1 DEF OneAtATime, WaitsTypeOK
      <4> QED
        BY <1>0, <4>4, <4>5 DEF WaitsInv
    <3> QED
      BY <3>1, <3>2
  <2> QED
    BY <1>11, <2>1, <2>2, <2>3, <2>4, <2>5 DEF WakerStep
<1> QED
  BY <1>a, <1>1, <1>2, <1>3, <1>4, <1>5, <1>6, <1>7, <1>8, <1>9, <1>10, <1>11 DEF WaitsNext, WaitIsServed

LEMMA WaitsStart == WaitsInit => WaitsInv
<1> SUFFICES ASSUME WaitsInit PROVE WaitsInv
  OBVIOUS
<1>1. NoWaker.pc = "idle" /\ NoWaker.at = {}
  BY DEF NoWaker, Waker
<1>2. NoWaker \in [pc : {"idle"}, left : SUBSET WaitIds, at : SUBSET WaitIds]
  BY DEF NoWaker, Waker
<1>3. waitSpent \in [{"ends", "outages", "faults"} -> Nat]
  BY DEF WaitsInit
<1>4. WaitsTypeOK
  BY <1>2, <1>3 DEF WaitsInit, WaitsTypeOK
<1>5. OneAtATime /\ \A w \in WaitIds : OneWake(w) /\ NotYetFired(w)
  BY <1>1 DEF WaitsInit, OneAtATime, OneWake, NotYetFired, Carries
<1> QED
  BY <1>4, <1>5 DEF WaitsInv

(* However many threads, early ends and restarts try to fire it, a wait     *)
(* wakes its conversation at most once (scheduler._fire_wait).              *)
THEOREM EachWaitWakesOnce == WaitsSpec => []WokenOnce
<1>1. WaitsInv => WokenOnce
  BY DEF WaitsInv, WokenOnce, OneWake, WaitsTypeOK
<1> QED
  BY WaitsStart, <1>1, WaitsStep, PTL DEF WaitsSpec

----------------------------------------------------------------------------
(* Reminders: an entry that is still to be sent was posted only as often as *)
(* a note was missed, but for the post that is being noted right now.       *)

Unsent(r) == reminder[r].state \in {"none", "pending", "backoff"}
BeingNoted(r) == checking.pc = "sent" /\ r \in checking.at

PostsAreNoted ==
  \A r \in Reminders :
    /\ delivered[r] <= 1 + doubtful[r]
    /\ Unsent(r) /\ ~BeingNoted(r) => delivered[r] <= doubtful[r]

(* What the job has in hand and what it has still to send is pending, and   *)
(* nothing is both.                                                         *)
ListIsPending ==
  /\ \A r \in checking.due \cup checking.at : reminder[r].state = "pending"
  /\ checking.due \cap checking.at = {}

RemindersInv == RemindersTypeOK /\ PostsAreNoted /\ ListIsPending

(* _prune_sent_reminders drops only what was settled. *)
LEMMA PruneDropsSettled ==
  ASSUME NEW f \in [Reminders -> [state : ReminderStates, age : Ages]]
  PROVE  /\ Prune(f) \in [Reminders -> [state : ReminderStates, age : Ages]]
         /\ \A r \in Reminders :
              \/ Prune(f)[r] = f[r]
              \/ f[r].state \in {"sent", "failed"} /\ Prune(f)[r].state = "pruned"
<1>1. Reminder("pruned", 4) \in [state : ReminderStates, age : Ages] /\ Reminder("pruned", 4).state = "pruned"
  BY DEF Reminder, ReminderStates, Ages
<1> QED
  BY <1>1 DEF Prune

LEMMA RemindersTypeStep == RemindersTypeOK /\ [RemindersNext]_reminderVars => RemindersTypeOK'
<1> SUFFICES ASSUME RemindersTypeOK, [RemindersNext]_reminderVars PROVE RemindersTypeOK'
  OBVIOUS
<1> USE DEF RemindersTypeOK
<1>0. \A k \in {"lost", "saves", "boots"} :
        ReminderEvent(k) => reminderSpent' \in [{"lost", "saves", "boots"} -> Nat]
  BY DEF ReminderEvent
<1>1. ASSUME NEW r \in Reminders, ScheduleReminder(r) PROVE RemindersTypeOK'
  <2>1. [reminder EXCEPT ![r] = Reminder("pending", 1)] \in [Reminders -> [state : ReminderStates, age : Ages]]
    BY DEF Reminder, ReminderStates, Ages
  <2> QED
    BY <1>1, <2>1, PruneDropsSettled DEF ScheduleReminder
<1>2. ASSUME NEW r \in Reminders, Grow(r) PROVE RemindersTypeOK'
  <2>1. reminder[r].age + 1 \in Ages
    BY <1>2 DEF Grow, Ages
  <2>2. reminder' \in [Reminders -> [state : ReminderStates, age : Ages]]
    BY <1>2, <2>1 DEF Grow
  <2> QED
    BY <1>2, <2>2 DEF Grow
<1>3. ASSUME NEW r \in Reminders, BackoffEnds(r) PROVE RemindersTypeOK'
  BY <1>3 DEF BackoffEnds, ReminderStates
<1>4. CASE CheckReminders
  BY <1>4 DEF CheckReminders, Check
<1>5. CASE EndCheck
  BY <1>5 DEF EndCheck, NoCheck, Check
<1>6. ASSUME NEW r \in Reminders, PostReminder(r) PROVE RemindersTypeOK'
  BY <1>0, <1>6, SMTT(60) DEF PostReminder, Check
<1>7. ASSUME NEW r \in Reminders, MarkSent(r) PROVE RemindersTypeOK'
  <2>1. [reminder EXCEPT ![r].state = "sent"] \in [Reminders -> [state : ReminderStates, age : Ages]]
    BY DEF ReminderStates
  <2>2. reminder' \in [Reminders -> [state : ReminderStates, age : Ages]]
    <3>1. Prune([reminder EXCEPT ![r].state = "sent"]) \in [Reminders -> [state : ReminderStates, age : Ages]]
      BY <2>1, PruneDropsSettled
    <3> QED
      BY <1>7, <3>1 DEF MarkSent
  <2>3. reminderSpent' \in [{"lost", "saves", "boots"} -> Nat]
    BY <1>0, <1>7 DEF MarkSent, SaveRaises
  <2> QED
    <3>1. /\ UNCHANGED delivered
          /\ checking' \in {Check("next", checking.due, {}), Check("raised", checking.due, {r})}
          /\ doubtful' \in {doubtful, [doubtful EXCEPT ![r] = @ + 1]}
      BY <1>7 DEF MarkSent
    <3> QED
      BY <2>2, <2>3, <3>1 DEF Check
<1>8. ASSUME NEW r \in Reminders, RecordFailure(r) PROVE RemindersTypeOK'
  BY <1>0, <1>8, SMTT(60) DEF RecordFailure, SaveRaises, Check, NoCheck, ReminderStates
<1>9. CASE RebootReminders
  BY <1>0, <1>9 DEF RebootReminders, Check, NoCheck
<1>10. CASE UNCHANGED reminderVars
  BY <1>10 DEF reminderVars
<1> QED
  BY <1>1, <1>2, <1>3, <1>4, <1>5, <1>6, <1>7, <1>8, <1>9, <1>10 DEF RemindersNext, ReminderJob

LEMMA RemindersStep == RemindersInv /\ [RemindersNext]_reminderVars => RemindersInv'
<1> SUFFICES ASSUME RemindersInv, [RemindersNext]_reminderVars PROVE PostsAreNoted' /\ ListIsPending'
  BY RemindersTypeStep DEF RemindersInv
<1>0. /\ RemindersTypeOK /\ RemindersTypeOK' /\ PostsAreNoted /\ ListIsPending
      /\ \A r \in Reminders : delivered[r] \in Nat /\ doubtful[r] \in Nat
  BY RemindersTypeStep DEF RemindersInv, RemindersTypeOK
<1> DEFINE Goal == PostsAreNoted' /\ ListIsPending'
<1>1. ASSUME NEW r \in Reminders, ScheduleReminder(r) PROVE Goal
  <2> DEFINE f == [reminder EXCEPT ![r] = Reminder("pending", 1)]
  <2>1. /\ f \in [Reminders -> [state : ReminderStates, age : Ages]]
        /\ f[r].state = "pending" /\ \A q \in Reminders \ {r} : f[q] = reminder[q]
    BY <1>0 DEF RemindersTypeOK, Reminder, ReminderStates, Ages
  <2>2. /\ reminder' = Prune(f) /\ reminder[r].state = "none"
        /\ UNCHANGED <<checking, delivered, doubtful>>
    BY <1>1 DEF ScheduleReminder
  <2> HIDE DEF f
  <2>3. \A q \in Reminders :
          \/ reminder'[q] = f[q]
          \/ f[q].state \in {"sent", "failed"} /\ reminder'[q].state = "pruned"
    BY <2>1, <2>2, PruneDropsSettled
  <2> QED
    BY <1>0, <2>1, <2>2, <2>3, SMTT(60) DEF PostsAreNoted, ListIsPending, Unsent, BeingNoted, RemindersTypeOK
<1>2. ASSUME NEW r \in Reminders, Grow(r) \/ BackoffEnds(r) PROVE Goal
  <2>1. /\ UNCHANGED <<checking, delivered, doubtful>>
        /\ \A q \in Reminders :
             /\ reminder[q].state = "pending" => reminder'[q].state = "pending"
             /\ Unsent(q)' <=> Unsent(q)
    BY <1>0, <1>2 DEF Grow, BackoffEnds, RemindersTypeOK, Unsent
  <2> QED
    BY <1>0, <2>1 DEF PostsAreNoted, ListIsPending, BeingNoted, RemindersTypeOK
<1>3. CASE CheckReminders \/ EndCheck
  <2>1. /\ UNCHANGED <<reminder, delivered, doubtful>>
        /\ checking'.at = {} /\ checking'.due \subseteq {r \in Reminders : Due(r)}
        /\ checking.pc \in {"idle", "next"}
    BY <1>3 DEF CheckReminders, EndCheck, Check, NoCheck
  <2> QED
    BY <1>0, <2>1 DEF PostsAreNoted, ListIsPending, Unsent, BeingNoted, Due
<1>4. ASSUME NEW r \in Reminders, PostReminder(r) PROVE Goal
  <2>1. /\ checking.pc = "next" /\ r \in checking.due /\ UNCHANGED reminder
        /\ checking'.due = checking.due \ {r} /\ checking'.at = {r}
        /\ \A q \in Reminders \ {r} : delivered'[q] = delivered[q] /\ doubtful'[q] = doubtful[q]
    BY <1>0, <1>4 DEF PostReminder, Check, RemindersTypeOK
  <2>2. \/ checking'.pc = "sent" /\ delivered'[r] = delivered[r] + 1 /\ doubtful'[r] = doubtful[r]
        \/ delivered'[r] = delivered[r] /\ doubtful'[r] = doubtful[r]
        \/ delivered'[r] = delivered[r] + 1 /\ doubtful'[r] = doubtful[r] + 1
    BY <1>0, <1>4 DEF PostReminder, Check, RemindersTypeOK
  <2>3. Unsent(r) /\ ~BeingNoted(r) /\ delivered[r] <= doubtful[r]
    BY <1>0, <2>1 DEF PostsAreNoted, ListIsPending, Unsent, BeingNoted
  <2>4. PostsAreNoted'
    BY <1>0, <2>1, <2>2, <2>3 DEF PostsAreNoted, Unsent, BeingNoted
  <2>5. ListIsPending'
    BY <1>0, <2>1 DEF ListIsPending
  <2> QED
    BY <2>4, <2>5
<1>5. ASSUME NEW r \in Reminders, MarkSent(r) PROVE Goal
  <2> DEFINE f == [reminder EXCEPT ![r].state = "sent"]
  <2>1. /\ f \in [Reminders -> [state : ReminderStates, age : Ages]]
        /\ f[r].state = "sent" /\ \A q \in Reminders \ {r} : f[q] = reminder[q]
    BY <1>0, SMTT(60) DEF RemindersTypeOK, ReminderStates
  <2>2. /\ checking.pc = "sent" /\ checking.at = {r} /\ UNCHANGED delivered
        /\ checking'.due = checking.due /\ checking'.pc # "sent"
        /\ \A q \in Reminders \ {r} : doubtful'[q] = doubtful[q]
        /\ \/ reminder' = Prune(f) /\ checking'.at = {} /\ doubtful'[r] = doubtful[r]
           \/ UNCHANGED reminder /\ checking'.at = {r} /\ doubtful'[r] = doubtful[r] + 1
    BY <1>0, <1>5 DEF MarkSent, Check, RemindersTypeOK
  <2> HIDE DEF f
  <2>3. \A q \in Reminders :
          \/ Prune(f)[q] = f[q]
          \/ f[q].state \in {"sent", "failed"} /\ Prune(f)[q].state = "pruned"
    BY <2>1, PruneDropsSettled
  <2>4. PostsAreNoted'
    BY <1>0, <2>1, <2>2, <2>3 DEF PostsAreNoted, Unsent, BeingNoted
  <2>5. ListIsPending'
    <3>1. \A q \in Reminders \ {r} : reminder[q].state = "pending" => reminder'[q].state = "pending"
      BY <2>1, <2>2, <2>3
    <3>2. checking.due \subseteq Reminders \ {r}
      BY <1>0, <2>2 DEF ListIsPending, RemindersTypeOK
    <3>3. reminder[r].state = "pending"
      BY <1>0, <2>2 DEF ListIsPending
    <3> QED
      BY <1>0, <2>2, <3>1, <3>2, <3>3 DEF ListIsPending
  <2> QED
    BY <2>4, <2>5
<1>6. ASSUME NEW r \in Reminders, RecordFailure(r) PROVE Goal
  <2>1. /\ checking.pc # "sent" /\ checking'.pc # "sent" /\ checking.at = {r}
        /\ UNCHANGED <<delivered, doubtful>>
        /\ checking'.due \subseteq checking.due
        /\ \A q \in Reminders \ {r} : reminder'[q] = reminder[q]
        /\ \/ checking'.at = {}
           \/ checking'.at = {r} /\ UNCHANGED reminder
    BY <1>0, <1>6 DEF RecordFailure, Check, NoCheck, RemindersTypeOK
  <2>2. Unsent(r) /\ delivered[r] <= doubtful[r]
    BY <1>0, <2>1 DEF PostsAreNoted, ListIsPending, Unsent, BeingNoted
  <2>3. PostsAreNoted'
    BY <1>0, <2>1, <2>2 DEF PostsAreNoted, Unsent, BeingNoted
  <2>4. ListIsPending'
    BY <1>0, <2>1 DEF ListIsPending, RemindersTypeOK
  <2> QED
    BY <2>3, <2>4
<1>7. CASE RebootReminders
  <2>1. /\ checking'.pc = "idle" /\ checking'.due = {} /\ checking'.at = {}
        /\ UNCHANGED <<reminder, delivered>>
        /\ \A q \in Reminders :
             doubtful'[q] = IF BeingNoted(q) THEN doubtful[q] + 1 ELSE doubtful[q]
    BY <1>7 DEF RebootReminders, NoCheck, Check, BeingNoted
  <2> QED
    BY <1>0, <2>1 DEF PostsAreNoted, ListIsPending, Unsent, BeingNoted
<1>8. CASE UNCHANGED reminderVars
  BY <1>0, <1>8 DEF reminderVars, PostsAreNoted, ListIsPending, Unsent, BeingNoted
<1> QED
  BY <1>1, <1>2, <1>3, <1>4, <1>5, <1>6, <1>7, <1>8 DEF RemindersNext, ReminderJob

LEMMA RemindersStart == RemindersInit => RemindersInv
<1> SUFFICES ASSUME RemindersInit PROVE RemindersInv
  OBVIOUS
<1>1. Reminder("none", 1) \in [state : ReminderStates, age : Ages]
  BY DEF Reminder, ReminderStates, Ages
<1>2. reminderSpent \in [{"lost", "saves", "boots"} -> Nat]
  BY DEF RemindersInit
<1>3. checking.pc = "idle" /\ checking.due = {} /\ checking.at = {}
  BY DEF RemindersInit, NoCheck, Check
<1>4. RemindersTypeOK
  BY <1>1, <1>2 DEF RemindersInit, NoCheck, Check, RemindersTypeOK
<1>5. PostsAreNoted /\ ListIsPending
  BY <1>3 DEF RemindersInit, PostsAreNoted, ListIsPending
<1> QED
  BY <1>4, <1>5 DEF RemindersInv

(* A reminder is posted once, and once more only for each post that could   *)
(* not be noted (scheduler.check_reminders, _mark_sent).                    *)
THEOREM EachReminderIsDeliveredOnce == RemindersSpec => []DeliveredOnce
<1>1. RemindersInv => DeliveredOnce
  BY DEF RemindersInv, PostsAreNoted, DeliveredOnce
<1> QED
  BY RemindersStart, <1>1, RemindersStep, PTL DEF RemindersSpec

----------------------------------------------------------------------------
(* Recurring tasks: a call under way explains any difference between a      *)
(* task's entry and its job, unless two overlapped on it or a read failed.  *)

CallIsTyped(c) ==
  IF taskCall[c].pc = "idle" THEN taskCall[c] = NoCall ELSE taskCall[c].task \in Tasks

JobFollows(t) ==
  /\ taskFile[t].state = "new" => t \notin cronJobs /\ \A c \in TaskCallers : taskCall[c].task # t
  /\ t \notin taskTrouble =>
       /\ \A c, d \in TaskCallers : taskCall[c].task = t /\ taskCall[d].task = t => c = d
       /\ \A c \in TaskCallers :
            taskCall[c].task = t =>
              /\ taskCall[c].pc = "arming" => taskFile[t].state = "active"
              /\ taskCall[c].pc = "disarming" => taskFile[t].state # "active"
       /\ (\A c \in TaskCallers : taskCall[c].task = t => taskCall[c].pc = "owned") =>
            (t \in cronJobs <=> taskFile[t].state = "active")

(* Only a task that was active lets a firing on, and it has posted nothing  *)
(* since.                                                                   *)
PostsFollow(t) ==
  /\ posts[t] <= 1
  /\ taskFile[t].state \in {"new", "active"} => posts[t] = 0
  /\ firing[t] = "posting" => posts[t] = 0 /\ taskFile[t].state # "new"

TasksInv ==
  /\ TasksTypeOK
  /\ \A c \in TaskCallers : CallIsTyped(c)
  /\ \A t \in Tasks : JobFollows(t) /\ PostsFollow(t)

LEMMA NoCallIsTyped ==
  /\ NoCall \in [pc : CallPC, op : CallOps, task : Tasks \cup {Absent}]
  /\ NoCall.pc = "idle" /\ NoCall.task = Absent
BY DEF NoCall, TaskCall, CallPC, CallOps

LEMMA EmptiedIsTyped ==
  ASSUME TasksTypeOK
  PROVE  /\ Emptied \in [Tasks -> [state : TaskStates, owner : Users \cup {Absent}]]
         /\ \A t \in Tasks : IF Stored(t) THEN Emptied[t].state = "gone" ELSE Emptied[t] = taskFile[t]
BY DEF Emptied, TaskEntry, TaskStates, Stored, TasksTypeOK

LEMMA UpdatesAreTyped ==
  ASSUME TasksTypeOK
  PROVE  /\ \A t \in Tasks, x \in TaskStates :
              [taskFile EXCEPT ![t].state = x] \in [Tasks -> [state : TaskStates, owner : Users \cup {Absent}]]
         /\ \A c \in TaskCallers, x \in CallPC :
              [taskCall EXCEPT ![c].pc = x] \in [TaskCallers -> [pc : CallPC, op : CallOps, task : Tasks \cup {Absent}]]
BY DEF TasksTypeOK

LEMMA TasksTypeStep == TasksTypeOK /\ (\A c \in TaskCallers : CallIsTyped(c)) /\ [TasksNext]_taskVars
                         => TasksTypeOK' /\ \A c \in TaskCallers : CallIsTyped(c)'
<1> SUFFICES ASSUME TasksTypeOK, \A c \in TaskCallers : CallIsTyped(c), [TasksNext]_taskVars
             PROVE  TasksTypeOK' /\ \A c \in TaskCallers : CallIsTyped(c)'
  OBVIOUS
<1> DEFINE Goal == TasksTypeOK' /\ \A c \in TaskCallers : CallIsTyped(c)'
<1>0. \A c \in TaskCallers : taskCall[c].pc # "idle" => taskCall[c].task \in Tasks
  BY DEF CallIsTyped
<1>1. ASSUME NEW c \in TaskCallers, NEW t \in Tasks, NEW u \in Users,
             CreateTask(c, t, u) \/ CreateUnread(c, t, u)
      PROVE  Goal
  <2>1. /\ TaskEntry("active", u) \in [state : TaskStates, owner : Users \cup {Absent}]
        /\ TaskCall("arming", "create", t) \in [pc : CallPC, op : CallOps, task : Tasks \cup {Absent}]
        /\ TaskCall("arming", "create", t).pc = "arming" /\ TaskCall("arming", "create", t).task = t
    BY DEF TaskEntry, TaskCall, TaskStates, CallPC, CallOps
  <2>2. /\ taskFile' \in [Tasks -> [state : TaskStates, owner : Users \cup {Absent}]]
        /\ taskCall' = [taskCall EXCEPT ![c] = TaskCall("arming", "create", t)]
    BY <1>1, <2>1, EmptiedIsTyped, SMTT(60) DEF CreateTask, CreateUnread, TasksTypeOK
  <2>3. taskTrouble' \subseteq Tasks /\ taskSpent' \in [{"reads", "restarts"} -> Nat]
    BY <1>1 DEF CreateTask, CreateUnread, UnreadFile, TasksTypeOK
  <2>4. TasksTypeOK'
    BY <1>1, <2>1, <2>2, <2>3 DEF CreateTask, CreateUnread, TasksTypeOK
  <2> QED
    BY <2>1, <2>2, <2>4 DEF CallIsTyped, TasksTypeOK
<1>2. ASSUME NEW c \in TaskCallers, NEW t \in Tasks, NEW u \in Users, NEW o \in CallOps,
             OwnsTask(c, o, t, u)
      PROVE  Goal
  <2>1. /\ TaskCall("owned", o, t) \in [pc : CallPC, op : CallOps, task : Tasks \cup {Absent}]
        /\ TaskCall("owned", o, t).pc = "owned" /\ TaskCall("owned", o, t).task = t
    BY DEF TaskCall, CallPC, CallOps
  <2>2. TasksTypeOK'
    BY <1>2, <2>1 DEF OwnsTask, Overlap, TasksTypeOK
  <2> QED
    BY <1>2, <2>1, <2>2 DEF OwnsTask, CallIsTyped, TasksTypeOK
<1>3. ASSUME NEW c \in TaskCallers, CallerStep(c) PROVE Goal
  <2>1. taskCall[c].pc # "idle" /\ taskCall[c].task \in Tasks
    BY <1>0, <1>3 DEF CallerStep, PauseTask, ResumeTask, DeleteTask, ChangeUnread, AddCronJob,
                      RemoveCronJob
  <2> DEFINE Moves ==
        /\ TasksTypeOK'
        /\ \/ taskCall'[c] = NoCall
           \/ taskCall'[c].pc # "idle" /\ taskCall'[c].task = taskCall[c].task
        /\ \A d \in TaskCallers \ {c} : taskCall'[d] = taskCall[d]
  <2>a. {"active", "paused", "gone"} \subseteq TaskStates /\ {"arming", "disarming"} \subseteq CallPC
    BY DEF TaskStates, CallPC
  <2>2. ASSUME PauseTask(c) \/ DeleteTask(c) PROVE Moves
    <3>1. taskFile' \in [Tasks -> [state : TaskStates, owner : Users \cup {Absent}]]
      BY <2>1, <2>2, <2>a, UpdatesAreTyped, SMTT(60) DEF PauseTask, DeleteTask, TasksTypeOK
    <3> QED
      BY <2>1, <2>2, <2>a, <3>1 DEF PauseTask, DeleteTask, TasksTypeOK
  <2>3. ASSUME ResumeTask(c) PROVE Moves
    <3>1. taskFile' \in [Tasks -> [state : TaskStates, owner : Users \cup {Absent}]]
      BY <2>1, <2>3, <2>a, SMTT(60) DEF ResumeTask, TasksTypeOK
    <3>2. posts' \in [Tasks -> Nat]
      BY <2>1, <2>3 DEF ResumeTask, TasksTypeOK
    <3>3. taskCall' \in {[taskCall EXCEPT ![c].pc = "arming"], [taskCall EXCEPT ![c] = NoCall]}
      BY <2>3 DEF ResumeTask
    <3>4. UNCHANGED <<cronJobs, firing, taskTrouble, taskSpent>>
      BY <2>3 DEF ResumeTask
    <3>5. taskCall' \in [TaskCallers -> [pc : CallPC, op : CallOps, task : Tasks \cup {Absent}]]
      BY <2>1, <2>a, <3>3, NoCallIsTyped, UpdatesAreTyped DEF TasksTypeOK
    <3>6. TasksTypeOK'
      BY <3>1, <3>2, <3>4, <3>5 DEF TasksTypeOK
    <3> QED
      BY <2>1, <3>3, <3>6 DEF TasksTypeOK
  <2>4. ASSUME ChangeUnread(c) PROVE Moves
    <3>1. /\ taskFile' \in [Tasks -> [state : TaskStates, owner : Users \cup {Absent}]]
          /\ UNCHANGED <<cronJobs, firing, posts>>
      BY <2>4, EmptiedIsTyped DEF ChangeUnread
    <3>2. taskTrouble' \subseteq Tasks /\ taskSpent' \in [{"reads", "restarts"} -> Nat]
      BY <2>4 DEF ChangeUnread, UnreadFile, TasksTypeOK
    <3>3. taskCall' \in {[taskCall EXCEPT ![c] = NoCall],
                        [taskCall EXCEPT ![c] = TaskCall("disarming", taskCall[c].op, taskCall[c].task)]}
      BY <2>4 DEF ChangeUnread, TasksTypeOK
    <3>4. LET e == TaskCall("disarming", taskCall[c].op, taskCall[c].task)
          IN  /\ e \in [pc : CallPC, op : CallOps, task : Tasks \cup {Absent}]
              /\ e.pc = "disarming" /\ e.task = taskCall[c].task
      BY <2>1 DEF TaskCall, TasksTypeOK, CallPC
    <3> QED
      BY <3>1, <3>2, <3>3, <3>4, NoCallIsTyped DEF TasksTypeOK
  <2>5. ASSUME AddCronJob(c) \/ RemoveCronJob(c) PROVE Moves
    BY <2>1, <2>5, NoCallIsTyped DEF AddCronJob, RemoveCronJob, TasksTypeOK
  <2>6. Moves
    BY <1>3, <2>2, <2>3, <2>4, <2>5 DEF CallerStep
  <2> QED
    BY <2>1, <2>6, NoCallIsTyped DEF CallIsTyped
<1>4. ASSUME NEW t \in Tasks, CallTask(t) \/ FiringStep(t) PROVE Goal
  <2>1. TasksTypeOK'
    BY <1>4 DEF CallTask, FiringStep, FireTask, PostBanner, PostFails, NoteRun, TasksTypeOK
  <2>2. UNCHANGED taskCall
    BY <1>4 DEF CallTask, FiringStep, FireTask, PostBanner, PostFails, NoteRun
  <2> QED
    BY <2>1, <2>2 DEF CallIsTyped
<1>5. CASE RestartTasks
  <2>1. taskSpent' \in [{"reads", "restarts"} -> Nat]
    BY <1>5 DEF RestartTasks, TasksTypeOK
  <2>2. TasksTypeOK'
    BY <1>5, <2>1, NoCallIsTyped DEF RestartTasks, TasksTypeOK
  <2> QED
    BY <1>5, <2>2, NoCallIsTyped DEF RestartTasks, CallIsTyped
<1>6. CASE UNCHANGED taskVars
  BY <1>6 DEF taskVars, TasksTypeOK, CallIsTyped
<1> QED
  BY <1>1, <1>2, <1>3, <1>4, <1>5, <1>6 DEF TasksNext

LEMMA TasksStep == TasksInv /\ [TasksNext]_taskVars => TasksInv'
<1> DEFINE Goal == \A t \in Tasks : JobFollows(t)' /\ PostsFollow(t)'
<1> SUFFICES ASSUME TasksInv, [TasksNext]_taskVars PROVE Goal
  BY TasksTypeStep DEF TasksInv
<1>0. /\ TasksTypeOK /\ TasksTypeOK'
      /\ \A t \in Tasks : JobFollows(t) /\ PostsFollow(t)
      /\ \A c \in TaskCallers : taskCall[c].pc # "idle" => taskCall[c].task \in Tasks
      /\ Absent \notin Tasks
  BY TasksTypeStep, ScheduledTasksAssumption DEF TasksInv, CallIsTyped
<1>1. ASSUME NEW c \in TaskCallers, NEW t \in Tasks, NEW u \in Users,
             CreateTask(c, t, u) \/ CreateUnread(c, t, u)
      PROVE  Goal
  <2>1. /\ taskFile[t].state = "new" /\ taskFile'[t].state = "active" /\ taskCall[c] = NoCall
        /\ taskCall'[c].pc = "arming" /\ taskCall'[c].task = t
        /\ \A d \in TaskCallers \ {c} : taskCall'[d] = taskCall[d]
        /\ UNCHANGED <<cronJobs, firing, posts>>
        /\ taskTrouble \subseteq taskTrouble'
    BY <1>0, <1>1 DEF CreateTask, CreateUnread, UnreadFile, TaskEntry, TaskCall, TasksTypeOK, Emptied
  <2>2. \A q \in Tasks \ {t} :
          \/ taskFile'[q] = taskFile[q]
          \/ Stored(q) /\ taskFile'[q].state = "gone" /\ q \in taskTrouble'
    BY <1>0, <1>1, EmptiedIsTyped DEF CreateTask, CreateUnread, UnreadFile, TasksTypeOK
  <2>3. JobFollows(t)' /\ PostsFollow(t)'
    BY <1>0, <2>1 DEF JobFollows, PostsFollow
  <2>4. \A q \in Tasks \ {t} : JobFollows(q)' /\ PostsFollow(q)'
    BY <1>0, <2>1, <2>2, NoCallIsTyped DEF JobFollows, PostsFollow, Stored
  <2> QED
    BY <2>3, <2>4
<1>2. ASSUME NEW c \in TaskCallers, NEW t \in Tasks, NEW u \in Users, NEW o \in CallOps,
             OwnsTask(c, o, t, u)
      PROVE  Goal
  <2>1. /\ taskCall[c] = NoCall /\ taskFile[t].state # "new"
        /\ taskCall'[c].pc = "owned" /\ taskCall'[c].task = t
        /\ \A d \in TaskCallers \ {c} : taskCall'[d] = taskCall[d]
        /\ taskTrouble \subseteq taskTrouble'
        /\ UNCHANGED <<taskFile, cronJobs, firing, posts>>
    BY <1>0, <1>2 DEF OwnsTask, TaskCall, TasksTypeOK, Stored
  <2>2. t \notin taskTrouble' => \A d \in TaskCallers \ {c} : taskCall[d].task # t
    BY <1>2 DEF OwnsTask, Overlap, CallsOn
  <2>3. JobFollows(t)'
    BY <1>0, <2>1, <2>2, NoCallIsTyped DEF JobFollows
  <2>4. \A q \in Tasks \ {t} : JobFollows(q)'
    BY <1>0, <2>1, NoCallIsTyped DEF JobFollows
  <2> QED
    BY <1>0, <2>1, <2>3, <2>4 DEF PostsFollow
<1>3. ASSUME NEW c \in TaskCallers, CallerStep(c) PROVE Goal
  <2>0. taskCall[c].pc # "idle"
    BY <1>3
    DEF CallerStep, PauseTask, ResumeTask, DeleteTask, ChangeUnread, AddCronJob, RemoveCronJob
  <2>t. PICK t \in Tasks : t = taskCall[c].task
    BY <1>0, <2>0
  <2>1. /\ taskCall[c].pc # "idle" /\ t = taskCall[c].task /\ taskFile[t].state # "new"
        /\ taskTrouble \subseteq taskTrouble'
    BY <1>0, <1>3, <2>0, <2>t
    DEF CallerStep, PauseTask, ResumeTask, DeleteTask, ChangeUnread, AddCronJob, RemoveCronJob,
        UnreadFile, JobFollows
  <2>2. /\ \A d \in TaskCallers \ {c} : taskCall'[d] = taskCall[d]
        /\ \/ taskCall'[c] = NoCall
           \/ taskCall'[c].pc \in {"arming", "disarming"} /\ taskCall'[c].task = t
    BY <1>0, <1>3, <2>1
    DEF CallerStep, PauseTask, ResumeTask, DeleteTask, ChangeUnread, AddCronJob, RemoveCronJob,
        TasksTypeOK, TaskCall
  <2>3. /\ \A q \in Tasks \ {t} :
             /\ \/ taskFile'[q] = taskFile[q]
                \/ Stored(q) /\ taskFile'[q].state = "gone" /\ q \in taskTrouble'
             /\ posts'[q] = posts[q] /\ (q \in cronJobs' <=> q \in cronJobs)
        /\ UNCHANGED firing
    BY <1>0, <1>3, <2>1, EmptiedIsTyped
    DEF CallerStep, PauseTask, ResumeTask, DeleteTask, ChangeUnread, AddCronJob, RemoveCronJob,
        UnreadFile, TasksTypeOK
  <2>4. /\ taskFile'[t].state # "new"
        /\ taskFile'[t].state = "active" => taskFile[t].state = "active" \/ posts'[t] = 0
        /\ posts'[t] \in {posts[t], 0}
    BY <1>0, <1>3, <2>1, EmptiedIsTyped
    DEF CallerStep, PauseTask, ResumeTask, DeleteTask, ChangeUnread, AddCronJob, RemoveCronJob,
        TasksTypeOK, Stored
  <2>5. t \notin taskTrouble' =>
          \/ /\ taskCall'[c].pc = "arming" /\ taskFile'[t].state = "active"
          \/ /\ taskCall'[c].pc = "disarming" /\ taskFile'[t].state # "active"
          \/ /\ taskCall'[c] = NoCall /\ (t \in cronJobs' <=> taskFile'[t].state = "active")
    <3> SUFFICES ASSUME t \notin taskTrouble'
                 PROVE  \/ /\ taskCall'[c].pc = "arming" /\ taskFile'[t].state = "active"
                        \/ /\ taskCall'[c].pc = "disarming" /\ taskFile'[t].state # "active"
                        \/ /\ taskCall'[c] = NoCall /\ (t \in cronJobs' <=> taskFile'[t].state = "active")
      OBVIOUS
    <3>1. /\ \A d \in TaskCallers : taskCall[d].task = t => d = c
          /\ taskCall[c].pc = "arming" => taskFile[t].state = "active"
          /\ taskCall[c].pc = "disarming" => taskFile[t].state # "active"
          /\ taskCall[c].pc = "owned" => (t \in cronJobs <=> taskFile[t].state = "active")
      BY <1>0, <2>1 DEF JobFollows
    <3>2. CASE PauseTask(c) \/ DeleteTask(c)
      BY <1>0, <2>1, <3>2 DEF PauseTask, DeleteTask, TasksTypeOK, Stored
    <3>3. CASE ResumeTask(c)
      BY <1>0, <2>1, <3>1, <3>3 DEF ResumeTask, TasksTypeOK, Stored
    <3>4. CASE ChangeUnread(c)
      <4>1. ~Stored(t) /\ taskFile'[t] = taskFile[t]
        BY <1>0, <2>1, <3>4, EmptiedIsTyped DEF ChangeUnread, UnreadFile
      <4> QED
        BY <1>0, <2>1, <3>1, <3>4, <4>1 DEF ChangeUnread, TasksTypeOK, TaskCall, Stored
    <3>5. CASE AddCronJob(c) \/ RemoveCronJob(c)
      BY <1>0, <2>1, <3>1, <3>5 DEF AddCronJob, RemoveCronJob, TasksTypeOK
    <3> QED
      BY <1>3, <3>2, <3>3, <3>4, <3>5 DEF CallerStep
  <2>6. JobFollows(t)'
    BY <1>0, <2>1, <2>2, <2>4, <2>5, NoCallIsTyped DEF JobFollows
  <2>7. PostsFollow(t)'
    BY <1>0, <2>1, <2>3, <2>4 DEF PostsFollow
  <2>8. \A q \in Tasks \ {t} : JobFollows(q)'
    BY <1>0, <2>1, <2>2, <2>3, NoCallIsTyped DEF JobFollows, Stored
  <2>9. \A q \in Tasks \ {t} : PostsFollow(q)'
    BY <1>0, <2>3 DEF PostsFollow, Stored
  <2> QED
    BY <2>6, <2>7, <2>8, <2>9
<1>4. ASSUME NEW t \in Tasks, CallTask(t) \/ FiringStep(t) PROVE Goal
  <2>1. /\ UNCHANGED <<taskFile, cronJobs, taskCall, taskTrouble>>
        /\ \A q \in Tasks \ {t} : firing'[q] = firing[q] /\ posts'[q] = posts[q]
    BY <1>0, <1>4
    DEF CallTask, FiringStep, FireTask, PostBanner, PostFails, NoteRun, TasksTypeOK
  <2>2. \/ firing'[t] # "posting" /\ posts'[t] = posts[t]
        \/ firing'[t] = "posting" /\ posts'[t] = posts[t] /\ taskFile[t].state = "active"
        \/ /\ firing[t] = "posting" /\ firing'[t] # "posting"
           /\ posts'[t] = IF taskFile[t].state = "active" THEN 0 ELSE posts[t] + 1
    BY <1>0, <1>4
    DEF CallTask, FiringStep, FireTask, PostBanner, PostFails, NoteRun, TasksTypeOK
  <2>3. \A q \in Tasks : JobFollows(q)'
    BY <1>0, <2>1 DEF JobFollows
  <2>4. \A q \in Tasks : PostsFollow(q)'
    BY <1>0, <2>1, <2>2 DEF PostsFollow
  <2> QED
    BY <2>3, <2>4
<1>5. CASE RestartTasks
  <2>1. /\ UNCHANGED <<taskFile, posts>>
        /\ \A c \in TaskCallers : taskCall'[c].task \notin Tasks
        /\ \A q \in Tasks : firing'[q] = "idle" /\ (q \in cronJobs' <=> taskFile[q].state = "active")
    BY <1>0, <1>5, NoCallIsTyped DEF RestartTasks
  <2> QED
    BY <1>0, <2>1 DEF JobFollows, PostsFollow
<1>6. CASE UNCHANGED taskVars
  BY <1>0, <1>6 DEF taskVars, JobFollows, PostsFollow
<1> HIDE DEF Goal
<1> QED
  BY <1>1, <1>2, <1>3, <1>4, <1>5, <1>6 DEF TasksNext

LEMMA TasksStart == TasksInit => TasksInv
<1> SUFFICES ASSUME TasksInit PROVE TasksInv
  OBVIOUS
<1>1. /\ TaskEntry("new", Absent) \in [state : TaskStates, owner : Users \cup {Absent}]
      /\ TaskEntry("new", Absent).state = "new"
  BY DEF TaskEntry, TaskStates
<1>2. taskSpent \in [{"reads", "restarts"} -> Nat]
  BY DEF TasksInit
<1>3. TasksTypeOK
  BY <1>1, <1>2, NoCallIsTyped DEF TasksInit, TasksTypeOK
<1>4. \A c \in TaskCallers : CallIsTyped(c) /\ taskCall[c].task \notin Tasks
  BY NoCallIsTyped, ScheduledTasksAssumption DEF TasksInit, CallIsTyped
<1> QED
  BY <1>1, <1>3, <1>4 DEF TasksInit, TasksInv, JobFollows, PostsFollow

(* Once nobody changes a task, APScheduler has a job for it exactly when    *)
(* the file says it is active, but for calls that overlapped on it and      *)
(* reads that failed (scheduler.py, create to delete_scheduled_task); and   *)
(* after a pause or a deletion at most the firing under way still posts     *)
(* (_fire_task asks the file again).                                        *)
THEOREM TheFileRules == TasksSpec => []FileRules
<1>1. TasksInv => FileRules
  BY DEF TasksInv, JobFollows, PostsFollow, FileRules, JobsMatchFile, PauseSilences, CallsOn
<1> QED
  BY <1>1, TasksStart, TasksStep, PTL DEF TasksSpec

----------------------------------------------------------------------------
(* Token rotation: one rotator at a time is past the flag, and only that    *)
(* one, between Slack's answer and the cache, holds what the file or the    *)
(* cache does not have yet.                                                 *)

Entered(k) == rotator[k].pc \in {"reading", "calling", "saving", "caching", "leaving"}

OneRotates ==
  /\ \A k \in Rotators : Entered(k) => rotating
  /\ \A k, l \in Rotators : Entered(k) /\ Entered(l) => k = l

PairInHand ==
  /\ \A k \in Rotators : rotator[k].pc = "saving" => rotator[k].pair \in 1..MaxPairs
  /\ forfeited = {} =>
       /\ \A k \in Rotators : rotator[k].pc \in {"saving", "caching"} => rotator[k].pair = slackPair
       /\ (\A k \in Rotators : rotator[k].pc # "saving") => filePair = slackPair
       /\ (\A k \in Rotators : rotator[k].pc \notin {"saving", "caching"}) => cache \subseteq {slackPair}

RotationInv == RotationTypeOK /\ OneRotates /\ PairInHand

LEMMA RotationTypeStep ==
  RotationTypeOK /\ PairInHand /\ [RotationNext]_rotationVars => RotationTypeOK'
<1> SUFFICES ASSUME RotationTypeOK, PairInHand, [RotationNext]_rotationVars PROVE RotationTypeOK'
  OBVIOUS
<1> DEFINE Rs == [pc : {"idle", "due", "reading", "calling", "saving", "caching", "leaving"}, pair : Pairs]
<1>0. /\ NoRotator \in Rs
      /\ \A p \in Pairs : \A x \in {"due", "reading", "calling", "saving", "caching", "leaving"} :
           Rotator(x, p) \in Rs
      /\ 0 \in Pairs
      /\ \A p \in Pairs : p \in Nat /\ (p < MaxPairs => p + 1 \in Pairs)
  BY TokenRotationAssumption DEF NoRotator, Rotator, Pairs
<1>1. /\ rotator \in [Rotators -> Rs] /\ slackPair \in Pairs /\ filePair \in Pairs
      /\ cache \in SUBSET Pairs /\ Loaded \in SUBSET Pairs
  BY DEF RotationTypeOK, Loaded
<1>2. \A k \in {"calls", "stops"} : RotationEvent(k) => rotationSpent' \in [{"calls", "stops"} -> Nat]
  BY DEF RotationEvent, RotationTypeOK
<1>3. \A k \in Rotators : rotator[k].pc = "saving" => rotator[k].pair - 1 \in Pairs
  BY TokenRotationAssumption DEF PairInHand, Pairs
<1>4. ASSUME NEW k \in Rotators, RotatorStep(k) PROVE RotationTypeOK'
  <2>0. rotator[k].pair \in Pairs
    BY <1>1
  <2> HIDE DEF Rs
  <2>1. CASE CheckRotation(k)
    BY <1>0, <1>1, <2>1 DEF CheckRotation, RotationTypeOK, Rs
  <2>2. CASE EnterRotation(k)
    BY <1>0, <1>1, <2>2 DEF EnterRotation, RotationTypeOK, Rs
  <2>3. CASE ReadRefreshToken(k)
    <3>1. \A p \in Loaded : Rotator("calling", p) \in Rs
      BY <1>0, <1>1
    <3>2. rotator' \in [Rotators -> Rs]
      BY <1>1, <2>3, <3>1 DEF ReadRefreshToken
    <3> QED
      BY <1>1, <2>3, <3>2 DEF ReadRefreshToken, RotationTypeOK, Rs
  <2>4. CASE CallRotate(k)
    <3>1. rotator' \in [Rotators -> Rs]
      BY <1>0, <1>1, <2>0, <2>4 DEF CallRotate
    <3>2. slackPair' \in Pairs /\ presented' \subseteq Pairs /\ forfeited' \subseteq Pairs
      BY <1>0, <1>1, <2>0, <2>4 DEF CallRotate, RotationTypeOK
    <3>3. rotationSpent' \in [{"calls", "stops"} -> Nat]
      BY <1>2, <2>4 DEF CallRotate, RotationTypeOK
    <3> QED
      BY <2>4, <3>1, <3>2, <3>3 DEF CallRotate, RotationTypeOK, Rs
  <2>5. CASE PersistPair(k)
    <3>1. rotator' \in [Rotators -> Rs]
      BY <1>0, <1>1, <2>5 DEF PersistPair, Rs
    <3>2. filePair' \in Pairs /\ forfeited' \subseteq Pairs /\ expiring' \in BOOLEAN
      BY <1>3, <2>0, <2>5 DEF PersistPair, RotationTypeOK
    <3>3. rotationSpent' \in [{"calls", "stops"} -> Nat]
      BY <1>2, <2>5 DEF PersistPair, RotationTypeOK
    <3> QED
      BY <2>5, <3>1, <3>2, <3>3 DEF PersistPair, RotationTypeOK, Rs
  <2>6. CASE CachePair(k)
    BY <1>0, <1>1, <2>0, <2>6 DEF CachePair, RotationTypeOK, Rs
  <2>7. CASE LeaveRotation(k)
    BY <1>0, <1>1, <2>7 DEF LeaveRotation, RotationTypeOK, Rs
  <2> QED
    BY <1>4, <2>1, <2>2, <2>3, <2>4, <2>5, <2>6, <2>7 DEF RotatorStep
<1>5. CASE Expire
  BY <1>5 DEF Expire, RotationTypeOK
<1>6. CASE RestartRotation
  <2>1. rotationSpent' \in [{"calls", "stops"} -> Nat]
    BY <1>2, <1>6 DEF RestartRotation
  <2>2. forfeited' \subseteq Pairs
    BY <1>3, <1>6 DEF RestartRotation, RotationTypeOK
  <2> QED
    BY <1>0, <1>6, <2>1, <2>2 DEF RestartRotation, RotationTypeOK
<1>7. CASE UNCHANGED rotationVars
  BY <1>7 DEF rotationVars, RotationTypeOK
<1> QED
  BY <1>4, <1>5, <1>6, <1>7 DEF RotationNext

LEMMA RotationStep == RotationInv /\ [RotationNext]_rotationVars => RotationInv'
<1> DEFINE Goal == OneRotates' /\ PairInHand'
<1> SUFFICES ASSUME RotationInv, [RotationNext]_rotationVars PROVE Goal
  BY RotationTypeStep DEF RotationInv
<1>0. /\ RotationTypeOK /\ RotationTypeOK' /\ OneRotates /\ PairInHand
      /\ NoRotator.pc = "idle" /\ \A x, p : Rotator(x, p).pc = x /\ Rotator(x, p).pair = p
  BY RotationTypeStep DEF RotationInv, NoRotator, Rotator
<1>1. ASSUME NEW k \in Rotators, RotatorStep(k) PROVE Goal
  <2>1. CASE CheckRotation(k)
    <3>1. /\ rotator'[k].pc = "due" /\ rotator[k].pc = "idle"
          /\ \A l \in Rotators \ {k} : rotator'[l] = rotator[l]
          /\ cache' = Loaded /\ UNCHANGED <<slackPair, filePair, rotating, forfeited>>
      BY <1>0, <2>1 DEF CheckRotation, RotationTypeOK
    <3> QED
      BY <1>0, <3>1 DEF OneRotates, PairInHand, Entered, Loaded
  <2>2. CASE EnterRotation(k)
    <3>1. /\ rotator[k].pc = "due" /\ rotator'[k].pc = IF rotating THEN "idle" ELSE "reading"
          /\ \A l \in Rotators \ {k} : rotator'[l] = rotator[l]
          /\ rotating' = TRUE /\ UNCHANGED <<slackPair, filePair, cache, forfeited>>
      BY <1>0, <2>2 DEF EnterRotation, RotationTypeOK
    <3> QED
      BY <1>0, <3>1 DEF OneRotates, PairInHand, Entered
  <2>3. CASE ReadRefreshToken(k)
    <3>1. /\ rotator[k].pc = "reading" /\ rotator'[k].pc = "calling"
          /\ \A l \in Rotators \ {k} : rotator'[l] = rotator[l]
          /\ cache' = Loaded /\ UNCHANGED <<slackPair, filePair, rotating, forfeited>>
      BY <1>0, <2>3 DEF ReadRefreshToken, RotationTypeOK
    <3> QED
      BY <1>0, <3>1 DEF OneRotates, PairInHand, Entered, Loaded
  <2>4. CASE CallRotate(k)
    <3>1. /\ rotator[k].pc = "calling" /\ rotator'[k].pc \in {"saving", "leaving"}
          /\ \A l \in Rotators \ {k} : rotator'[l] = rotator[l]
          /\ UNCHANGED <<filePair, cache, rotating>> /\ forfeited \subseteq forfeited'
          /\ \/ rotator'[k].pc = "saving" /\ rotator'[k].pair = slackPair' /\ slackPair' = slackPair + 1
                /\ slackPair < MaxPairs /\ UNCHANGED forfeited
             \/ rotator'[k].pc = "leaving" /\ UNCHANGED slackPair
             \/ rotator'[k].pc = "leaving" /\ forfeited' # {}
      <4> DEFINE q == rotator[k].pair
      <4>1. \A x, p : rotator' = [rotator EXCEPT ![k] = Rotator(x, p)] =>
                       /\ rotator'[k].pc = x /\ rotator'[k].pair = p
                       /\ \A l \in Rotators \ {k} : rotator'[l] = rotator[l]
        BY <1>0 DEF RotationTypeOK
      <4>2. \/ /\ q = slackPair /\ q < MaxPairs /\ slackPair' = q + 1
               /\ \/ rotator' = [rotator EXCEPT ![k] = Rotator("saving", q + 1)] /\ UNCHANGED forfeited
                  \/ /\ forfeited' = forfeited \cup {q}
                     /\ rotator' = [rotator EXCEPT ![k] = Rotator("leaving", 0)]
            \/ /\ rotator' = [rotator EXCEPT ![k] = Rotator("leaving", 0)]
               /\ UNCHANGED <<slackPair, forfeited>>
        BY <2>4 DEF CallRotate
      <4>3. rotator[k].pc = "calling" /\ UNCHANGED <<filePair, cache, rotating>>
        BY <2>4 DEF CallRotate
      <4> HIDE DEF q
      <4>4. CASE rotator' = [rotator EXCEPT ![k] = Rotator("saving", q + 1)]
        BY <4>1, <4>2, <4>3, <4>4
      <4>5. CASE rotator' = [rotator EXCEPT ![k] = Rotator("leaving", 0)]
        BY <4>1, <4>2, <4>3, <4>5
      <4> QED
        BY <4>2, <4>4, <4>5
    <3>2. \A l \in Rotators \ {k} : rotator[l].pc \notin {"saving", "caching"}
      BY <1>0, <3>1 DEF OneRotates, Entered
    <3>3. OneRotates'
      BY <1>0, <3>1 DEF OneRotates, Entered
    <3>4. slackPair < MaxPairs => slackPair + 1 \in 1..MaxPairs
      BY <1>0, TokenRotationAssumption DEF RotationTypeOK, Pairs
    <3>5. PairInHand'
      BY <1>0, <3>1, <3>2, <3>4 DEF PairInHand
    <3> QED
      BY <3>3, <3>5
  <2>5. CASE PersistPair(k)
    <3>1. /\ rotator[k].pc = "saving" /\ rotator'[k].pc \in {"caching", "leaving"}
          /\ \A l \in Rotators \ {k} : rotator'[l] = rotator[l]
          /\ UNCHANGED <<slackPair, cache, rotating>>
          /\ \/ rotator'[k].pc = "caching" /\ rotator'[k].pair = rotator[k].pair
                /\ filePair' = rotator[k].pair /\ UNCHANGED forfeited
             \/ rotator'[k].pc = "leaving" /\ forfeited' # {}
      <4>1. rotator[k].pc = "saving" /\ UNCHANGED <<slackPair, cache, rotating>>
        BY <2>5 DEF PersistPair
      <4>2. CASE /\ rotator' = [rotator EXCEPT ![k].pc = "caching"]
                 /\ filePair' = rotator[k].pair /\ UNCHANGED forfeited
        BY <1>0, <4>1, <4>2 DEF RotationTypeOK
      <4>3. CASE /\ rotator' = [rotator EXCEPT ![k] = Rotator("leaving", 0)] /\ forfeited' # {}
        BY <1>0, <4>1, <4>3 DEF RotationTypeOK
      <4> QED
        BY <2>5, <4>2, <4>3 DEF PersistPair
    <3>2. \A l \in Rotators \ {k} : rotator[l].pc \notin {"saving", "caching"}
      BY <1>0, <3>1 DEF OneRotates, Entered
    <3>3. OneRotates'
      BY <1>0, <3>1 DEF OneRotates, Entered
    <3>4. PairInHand'
      BY <1>0, <3>1, <3>2 DEF PairInHand
    <3> QED
      BY <3>3, <3>4
  <2>6. CASE CachePair(k)
    <3>1. /\ rotator[k].pc = "caching" /\ rotator'[k].pc = "leaving"
          /\ \A l \in Rotators \ {k} : rotator'[l] = rotator[l]
          /\ cache' = {rotator[k].pair} /\ UNCHANGED <<slackPair, filePair, rotating, forfeited>>
      BY <1>0, <2>6 DEF CachePair, RotationTypeOK
    <3> QED
      BY <1>0, <3>1 DEF OneRotates, PairInHand, Entered
  <2>7. CASE LeaveRotation(k)
    <3>1. /\ rotator[k].pc = "leaving" /\ rotator'[k].pc = "idle"
          /\ \A l \in Rotators \ {k} : rotator'[l] = rotator[l]
          /\ UNCHANGED <<slackPair, filePair, cache, forfeited>>
      BY <1>0, <2>7 DEF LeaveRotation, RotationTypeOK
    <3> QED
      BY <1>0, <3>1 DEF OneRotates, PairInHand, Entered
  <2> QED
    BY <1>1, <2>1, <2>2, <2>3, <2>4, <2>5, <2>6, <2>7 DEF RotatorStep
<1>2. CASE Expire
  BY <1>0, <1>2 DEF Expire, OneRotates, PairInHand, Entered
<1>3. CASE RestartRotation
  <2>1. /\ \A k \in Rotators : rotator'[k].pc = "idle"
        /\ cache' = {} /\ UNCHANGED <<slackPair, filePair>>
        /\ forfeited' = {} => forfeited = {} /\ \A k \in Rotators : rotator[k].pc # "saving"
    BY <1>0, <1>3 DEF RestartRotation
  <2> QED
    BY <1>0, <2>1 DEF OneRotates, PairInHand, Entered
<1>4. CASE UNCHANGED rotationVars
  BY <1>0, <1>4 DEF rotationVars, OneRotates, PairInHand, Entered
<1> QED
  BY <1>1, <1>2, <1>3, <1>4 DEF RotationNext

LEMMA RotationStart == RotationInit => RotationInv
<1> SUFFICES ASSUME RotationInit PROVE RotationInv
  OBVIOUS
<1>1. 0 \in Pairs /\ NoRotator.pc = "idle" /\ NoRotator = [pc |-> "idle", pair |-> 0]
  BY TokenRotationAssumption DEF Pairs, NoRotator, Rotator
<1>2. rotationSpent \in [{"calls", "stops"} -> Nat]
  BY DEF RotationInit
<1>3. RotationTypeOK
  BY <1>1, <1>2 DEF RotationInit, RotationTypeOK
<1>4. OneRotates /\ PairInHand
  BY <1>1 DEF RotationInit, OneRotates, PairInHand, Entered
<1> QED
  BY <1>3, <1>4 DEF RotationInv

(* The pair coolton would trade in next is the one Slack accepts, on disk   *)
(* and in the cache, whenever no rotation is under way, unless the          *)
(* successor of a pair was lost (token_rotation._persist).                  *)
THEOREM HeldPairIsAccepted == RotationSpec => []PairIsAccepted
<1>1. RotationInv => PairIsAccepted
  BY DEF RotationInv, PairInHand, PairIsAccepted
<1> QED
  BY RotationStart, <1>1, RotationStep, PTL DEF RotationSpec
============================================================================
