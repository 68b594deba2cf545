------------------------------- MODULE Waits -------------------------------
(***************************************************************************)
(* One-off waits (agent/scheduler.py): wait_tool ends its turn and asks to *)
(* be woken later.  wait_tasks.json is rewritten under wait_tasks_lock;    *)
(* APScheduler's job of a wait, end_waits_early and a restart may all try  *)
(* to fire it.  A waker is a thread in _fire_wait.                         *)
(*                                                                         *)
(* The conversation's run is the environment: it may begin and end at any  *)
(* time, and takes what was steered into it (ThreadTurns has its inside).  *)
(***************************************************************************)
EXTENDS Naturals, FiniteSets

CONSTANTS
  WaitIds,      (* waits of one conversation                                 *)
  FiringThreads, (* the threads APScheduler runs _fire_wait on              *)
  Enders,       (* end_waits_early: the person's "I'm done"                  *)
  MaxEnds,      (* bound: calls of end_waits_early                           *)
  MaxOutages,   (* bound: process deaths                                     *)
  MaxWaitFaults (* bound: writes of the file and wake-ups that fail          *)

ASSUME WaitsAssumption ==
  /\ FiringThreads \cap Enders = {}
  /\ {MaxEnds, MaxOutages, MaxWaitFaults} \subseteq Nat

Wakers == FiringThreads \cup Enders

VARIABLES
  waitFile,     (* wait_tasks.json: new, pending or fired                    *)
  waitJobs,     (* the waits APScheduler has a job for                       *)
  creating,     (* waits saved whose job create_wait has still to add        *)
  waker,        (* each waker: where it stands and the waits it has to fire  *)
  woken,        (* history: wake-ups delivered for each wait                 *)
  ownerBanned,  (* ban_store.is_banned of who set the waits                  *)
  runActive,    (* active_runs.is_run_active of the conversation             *)
  steered,      (* wake-ups in steering_store's queue                        *)
  waking,       (* wake-ups handed to _wake_executor                         *)
  dropped,      (* history: waits saved as fired whose wake-up was then lost *)
  stalled,      (* history: waits that could not be saved as fired, and have *)
                (* no job any more (until a restart)                         *)
  waitSpent     (* history: the bounded events so far                        *)

waitVars == <<waitFile, waitJobs, creating, waker, woken, ownerBanned, runActive, steered, waking,
              dropped, stalled, waitSpent>>

Waker(l, ws, w) == [pc |-> l, left |-> ws, at |-> w]
NoWaker == Waker("idle", {}, {})

(* A wait fired on disk that is still on its way to the conversation. *)
OnItsWay(w) == w \in steered \cup waking \/ \E k \in Wakers : waker[k].pc # "idle" /\ w \in waker[k].at

----------------------------------------------------------------------------
WaitsInit ==
  /\ waitFile = [w \in WaitIds |-> "new"]
  /\ waitJobs = {}
  /\ creating = {}
  /\ waker = [k \in Wakers |-> NoWaker]
  /\ woken = [w \in WaitIds |-> 0]
  /\ ownerBanned = FALSE
  /\ runActive = FALSE
  /\ steered = {}
  /\ waking = {}
  /\ dropped = {} /\ stalled = {}
  /\ waitSpent = [k \in {"ends", "outages", "faults"} |-> 0]

WaitFault ==
  /\ waitSpent.faults < MaxWaitFaults
  /\ waitSpent' = [waitSpent EXCEPT !.faults = @ + 1]

(* create_wait: prune, append and save under the lock, by the turn. *)
CreateWait(w) ==
  /\ runActive
  /\ waitFile[w] = "new"
  /\ waitFile' = [waitFile EXCEPT ![w] = "pending"]
  /\ creating' = creating \cup {w}
  /\ UNCHANGED <<waitJobs, waker, woken, runActive, steered, waking, dropped, stalled, waitSpent, ownerBanned>>

(* _add_wait_job with create_wait's own entry, which says it has not fired. *)
AddWaitJob(w) ==
  /\ w \in creating
  /\ creating' = creating \ {w}
  /\ waitJobs' = waitJobs \cup {w}
  /\ UNCHANGED <<waitFile, waker, woken, runActive, steered, waking, dropped, stalled, waitSpent, ownerBanned>>

(* The run date comes, however late (misfire_grace_time=None). *)
WaitIsDue(k, w) ==
  /\ k \in FiringThreads /\ waker[k] = NoWaker
  /\ w \in waitJobs
  /\ waitJobs' = waitJobs \ {w}
  /\ waker' = [waker EXCEPT ![k] = Waker("firing", {}, {w})]
  /\ UNCHANGED <<waitFile, creating, woken, runActive, steered, waking, dropped, stalled, waitSpent, ownerBanned>>

(* end_waits_early reads the pending waits, then fires them one by one. *)
EndWaitsEarly(k) ==
  /\ k \in Enders /\ waker[k] = NoWaker
  /\ waitSpent.ends < MaxEnds
  /\ waker' = [waker EXCEPT ![k] = Waker("ending", {w \in WaitIds : waitFile[w] = "pending"}, {})]
  /\ waitSpent' = [waitSpent EXCEPT !.ends = @ + 1]
  /\ UNCHANGED <<waitFile, waitJobs, creating, woken, runActive, steered, waking, dropped, stalled, ownerBanned>>

EndNext(k) ==
  /\ waker[k].pc = "ending"
  /\ \/ /\ waker[k].left = {}
        /\ waker' = [waker EXCEPT ![k] = NoWaker]
        /\ UNCHANGED waitJobs
     \/ \E w \in waker[k].left :
          /\ waitJobs' = waitJobs \ {w}
          /\ waker' = [waker EXCEPT ![k] = Waker("firing", @.left \ {w}, {w})]
  /\ UNCHANGED <<waitFile, creating, woken, runActive, steered, waking, dropped, stalled, waitSpent, ownerBanned>>

(* Back to end_waits_early's list, or done. *)
AfterFiring(k) == IF k \in Enders THEN Waker("ending", waker[k].left, {}) ELSE NoWaker

(* Mutant of MarkFired: whoever comes later fires it again. *)
MarkFiredAgain(k, w) ==
  /\ waker[k].pc = "firing" /\ w \in waker[k].at
  /\ waitFile' = [waitFile EXCEPT ![w] = "fired"]
  /\ waker' = [waker EXCEPT ![k].pc = "deciding"]
  /\ UNCHANGED <<waitJobs, creating, woken, runActive, steered, waking, dropped, stalled, waitSpent, ownerBanned>>

(* Mutant of MarkFired: saving it as fired is all it does. *)
MarkFiredOnly(k, w) ==
  /\ waker[k].pc = "firing" /\ w \in waker[k].at
  /\ waitFile' = [waitFile EXCEPT ![w] = "fired"]
  /\ waker' = [waker EXCEPT ![k] = AfterFiring(k)]
  /\ UNCHANGED <<waitJobs, creating, woken, runActive, steered, waking, dropped, stalled, waitSpent, ownerBanned>>

(* _fire_wait: whoever saves it as fired first goes on with it. *)
MarkFired(k, w) ==
  /\ waker[k].pc = "firing" /\ w \in waker[k].at
  /\ \/ /\ waitFile[w] = "pending"
        /\ waitFile' = [waitFile EXCEPT ![w] = "fired"]
        /\ waker' = [waker EXCEPT ![k].pc = "deciding"]
     \/ /\ waitFile[w] # "pending"
        /\ waker' = [waker EXCEPT ![k] = AfterFiring(k)]
        /\ UNCHANGED waitFile
  /\ UNCHANGED <<waitJobs, creating, woken, runActive, steered, waking, dropped, stalled, waitSpent, ownerBanned>>

(* The save raises: the wait is still pending, but its job is gone, and     *)
(* end_waits_early fires none of the rest.                                  *)
FiringFails(k, w) ==
  /\ waker[k].pc = "firing" /\ w \in waker[k].at
  /\ waitFile[w] = "pending"
  /\ WaitFault
  /\ waker' = [waker EXCEPT ![k] = NoWaker]
  /\ stalled' = stalled \cup {w}
  /\ UNCHANGED <<waitFile, waitJobs, creating, woken, runActive, steered, waking, dropped, ownerBanned>>

(* A banned owner's wait ends here; else is_run_active decides, and the     *)
(* queue or the executor follows.                                           *)
DecideWake(k) ==
  /\ waker[k].pc = "deciding"
  /\ \/ ownerBanned /\ waker' = [waker EXCEPT ![k] = AfterFiring(k)]
     \/ /\ ~ownerBanned
        /\ waker' = [waker EXCEPT ![k].pc = IF runActive THEN "steering" ELSE "waking"]
  /\ UNCHANGED <<waitFile, waitJobs, creating, woken, runActive, steered, waking, dropped, stalled, waitSpent, ownerBanned>>

SteerWake(k) ==
  /\ waker[k].pc = "steering"
  /\ steered' = steered \cup waker[k].at
  /\ waker' = [waker EXCEPT ![k] = AfterFiring(k)]
  /\ UNCHANGED <<waitFile, waitJobs, creating, woken, runActive, waking, dropped, stalled, waitSpent, ownerBanned>>

SubmitWake(k) ==
  /\ waker[k].pc = "waking"
  /\ waking' = waking \cup waker[k].at
  /\ waker' = [waker EXCEPT ![k] = AfterFiring(k)]
  /\ UNCHANGED <<waitFile, waitJobs, creating, woken, runActive, steered, dropped, stalled, waitSpent, ownerBanned>>

(* _dispatch_wake: the banner, and a turn with the wake-up as its prompt. *)
DispatchWake(w) ==
  /\ w \in waking
  /\ waking' = waking \ {w}
  /\ woken' = [woken EXCEPT ![w] = @ + 1]
  /\ runActive' = TRUE
  /\ UNCHANGED <<waitFile, waitJobs, creating, waker, steered, dropped, stalled, waitSpent, ownerBanned>>

(* ... or neither: the token is missing, or the banner could not be posted  *)
(* or logged, which _wake_slack and _wake_web only log.                     *)
WakeFails(w) ==
  /\ w \in waking
  /\ WaitFault
  /\ waking' = waking \ {w}
  /\ dropped' = dropped \cup {w}
  /\ UNCHANGED <<waitFile, waitJobs, creating, waker, woken, runActive, steered, stalled, ownerBanned>>

BanOwner ==
  /\ ~ownerBanned
  /\ ownerBanned' = TRUE
  /\ UNCHANGED <<waitFile, waitJobs, creating, waker, woken, runActive, steered, waking, dropped, stalled, waitSpent>>

(* The conversation's runs, seen from here: one begins; it takes what was   *)
(* steered into it, between two tools or when it ends.                      *)
BeginRun ==
  /\ ~runActive
  /\ runActive' = TRUE
  /\ UNCHANGED <<waitFile, waitJobs, creating, waker, woken, steered, waking, dropped, stalled, waitSpent, ownerBanned>>

TakeSteered ==
  /\ runActive
  /\ steered' = {}
  /\ woken' = [w \in WaitIds |-> IF w \in steered THEN woken[w] + 1 ELSE woken[w]]
  /\ runActive' \in BOOLEAN
  /\ UNCHANGED <<waitFile, waitJobs, creating, waker, waking, dropped, stalled, waitSpent, ownerBanned>>

(* The process dies; start_scheduler's _sync_wait_jobs adds a job for each  *)
(* wait that the file says has not fired.                                   *)
RestartWaits ==
  /\ waitSpent.outages < MaxOutages
  /\ waitSpent' = [waitSpent EXCEPT !.outages = @ + 1]
  /\ dropped' = dropped \cup {w \in WaitIds : waitFile[w] = "fired" /\ OnItsWay(w)}
  /\ waitJobs' = {w \in WaitIds : waitFile[w] = "pending"}
  /\ creating' = {}
  /\ waker' = [k \in Wakers |-> NoWaker]
  /\ runActive' = FALSE
  /\ steered' = {} /\ waking' = {} /\ stalled' = {}
  /\ UNCHANGED <<waitFile, woken, ownerBanned>>

WakerStep(k) ==
  \/ EndNext(k) \/ DecideWake(k) \/ SteerWake(k) \/ SubmitWake(k)
  \/ \E w \in WaitIds : MarkFired(k, w)

WaitIsServed(w) == AddWaitJob(w) \/ DispatchWake(w) \/ \E k \in FiringThreads : WaitIsDue(k, w)

WaitsNext ==
  \/ \E w \in WaitIds :
       \/ CreateWait(w) \/ WaitIsServed(w) \/ WakeFails(w)
       \/ \E k \in Wakers : FiringFails(k, w)
  \/ \E k \in Enders : EndWaitsEarly(k)
  \/ \E k \in Wakers : WakerStep(k)
  \/ BanOwner \/ BeginRun \/ TakeSteered
  \/ RestartWaits

(* Threads go on, and APScheduler runs what is due. *)
WaitsSpec ==
  /\ WaitsInit /\ [][WaitsNext]_waitVars
  /\ \A w \in WaitIds : WF_waitVars(WaitIsServed(w))
  /\ \A k \in Wakers : WF_waitVars(WakerStep(k))

----------------------------------------------------------------------------
WaitsTypeOK ==
  /\ waitFile \in [WaitIds -> {"new", "pending", "fired"}]
  /\ waitJobs \subseteq WaitIds
  /\ creating \subseteq WaitIds
  /\ waker \in [Wakers -> [pc : {"idle", "ending", "firing", "deciding", "steering", "waking"},
                          left : SUBSET WaitIds, at : SUBSET WaitIds]]
  /\ woken \in [WaitIds -> Nat]
  /\ {ownerBanned, runActive} \subseteq BOOLEAN
  /\ steered \subseteq WaitIds
  /\ waking \subseteq WaitIds
  /\ dropped \subseteq WaitIds
  /\ stalled \subseteq WaitIds
  /\ waitSpent \in [{"ends", "outages", "faults"} -> Nat]

(* However many threads, early ends and restarts try to fire it, a wait     *)
(* wakes its conversation once.                                             *)
WokenOnce ==
  \A w \in WaitIds : woken[w] <= 1 /\ (woken[w] = 1 => w \notin steered \cup waking)

(* A pending wait is handed to its conversation, after a restart too,       *)
(* unless its owner is banned, its wake-up was lost once it was saved as    *)
(* fired (a death, or a wake-up that failed), or it could not be saved.     *)
WaitsWake ==
  \A w \in WaitIds :
    waitFile[w] = "pending" ~> woken[w] = 1 \/ w \in steered \cup dropped \cup stalled \/ ownerBanned
============================================================================
