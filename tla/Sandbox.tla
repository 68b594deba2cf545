------------------------------ MODULE Sandbox ------------------------------
(***************************************************************************)
(* One thread's E2B sandbox and everything that connects to it or pauses   *)
(* it: the tool calls of the turn, the end of the turn, the keepalive      *)
(* timers, the huddle's desktop capture, a person's control of the         *)
(* desktop, the poller of background jobs and the deletion of a web        *)
(* conversation.                                                           *)
(*                                                                         *)
(* The thread's lock (KeyedLocks) makes get_or_create_sandbox, the end of  *)
(* a sandbox_use block and pause_if_idle exclude each other; each is one   *)
(* action here, except that a new sandbox is created and stored in two,    *)
(* with the lock held between them (LockFree).  Nothing else in this code  *)
(* holds that lock.                                                        *)
(***************************************************************************)
EXTENDS Naturals, FiniteSets

CONSTANTS
  Calls,       (* the tool calls one turn can have in flight                 *)
  Kinds,       (* what the calls may be: see CallKinds                       *)
  Screen,      (* the huddle's DesktopCapture thread                         *)
  Poller,      (* the scheduler's poll_background_jobs                       *)
  Control,     (* human_control's timer                                      *)
  Deleter,     (* a web request that deletes the conversation                *)
  Turn,        (* the thread that runs the turn                              *)
  Sandboxes,   (* E2B sandboxes                                              *)
  Jobs,
  Timers,      (* threading.Timer objects of sandbox_keepalive               *)
  Nil,
  MaxTurns,    (* bound: turns                                               *)
  MaxCalls,    (* bound: tool calls, over all turns                          *)
  MaxScreens,  (* bound: desktop captures                                    *)
  MaxDeletes,  (* bound: deletions                                           *)
  MaxLosses,   (* bound: sandboxes E2B recycles                              *)
  MaxFailures, (* bound: remote calls that fail                              *)
  MaxCrashes   (* bound: process deaths                                      *)

(* run_linux_command; code mode, skill scripts and compression; the other   *)
(* file, data, desktop and streaming tools; the background-job tools; the   *)
(* two forms of ask_human_for_challenge; set_sandbox_keepalive.             *)
CallKinds == {"command", "script", "plain", "launch", "check", "kill", "hand", "unhand", "set"}

ASSUME SandboxAssumption ==
  /\ Kinds \subseteq CallKinds
  /\ {Screen, Poller, Control, Deleter, Turn} \cap Calls = {}
  /\ Cardinality({Screen, Poller, Control, Deleter, Turn}) = 5
  /\ Nil \notin Sandboxes \cup Timers \cup Jobs
  /\ IsFiniteSet(Calls)
  /\ {MaxTurns, MaxCalls, MaxScreens, MaxDeletes, MaxLosses, MaxFailures, MaxCrashes} \subseteq Nat

Threads == Calls \cup {Screen, Poller, Control, Deleter, Turn}

VARIABLES
  th,         (* each thread: where it stands, what it is doing, its sandbox *)
              (* object, its job and what it learned of it                   *)
  stored,     (* thread_sandboxes.json                                       *)
  vm,         (* E2B: the state of each sandbox                              *)
  inUse,      (* sandbox_helpers._in_use                                     *)
  running,    (* sandbox_helpers._running                                    *)
  entry,      (* sandbox_keepalive._timers                                   *)
  timer,      (* the state of each Timer                                     *)
  keepalive,  (* deps.sandbox_keepalive_seconds > 0                          *)
  control,    (* human_control._timers has an entry                          *)
  registered, (* background_jobs.json                                        *)
  job,        (* the job's process in its sandbox                            *)
  announced,  (* history: how often the poller announced each job            *)
  mishaps,    (* history: what went wrong so far                             *)
  spent       (* history: the bounded events so far                          *)

box   == <<stored, vm>>
use   == <<inUse, running>>
keep  == <<entry, timer, keepalive>>
bg    == <<registered, job>>
ghost == <<announced, mishaps, spent>>
vars  == <<th, box, use, keep, control, bg, ghost>>

----------------------------------------------------------------------------
State(l, k, v, j) == [pc |-> l, kind |-> k, vm |-> v, job |-> j, status |-> "none"]
Idle == State("idle", "none", Nil, Nil)

(* Inside a sandbox_use block. *)
UsePC == {"getting", "saving", "adding", "working", "arming", "exiting", "leaving"}
UseKinds == {"command", "script"}
InBlock(t) == th[t].kind \in UseKinds /\ th[t].pc \in UsePC

At(t, l) == th[t].pc = l
Goto(t, l) == th' = [th EXCEPT ![t].pc = l]
Done(t)    == th' = [th EXCEPT ![t] = Idle]

LockFree   == \A t \in Threads : ~At(t, "saving")
TurnIsLive == ~At(Turn, "idle")        (* active_runs.is_run_active          *)
HasPendingJobs == registered # {}

(* What the constants bound. *)
Bounded == {"turns", "calls", "screens", "deletes", "losses", "failures", "crashes"}

Fails == spent.failures < MaxFailures
Count(k) == spent' = [spent EXCEPT ![k] = @ + 1]

(* Pausing sandbox v: _pause_quietly, or E2B refusing it. *)
PauseQuietly(v) ==
  \/ /\ vm[v] # "gone"
     /\ vm' = [vm EXCEPT ![v] = "paused"]
     /\ running' = FALSE
     /\ UNCHANGED <<mishaps, spent>>
  \/ /\ vm[v] = "gone"
     /\ UNCHANGED <<vm, running, mishaps, spent>>
  \/ /\ vm[v] # "gone" /\ Fails
     /\ vm' \in {vm, [vm EXCEPT ![v] = "awake"]}
     /\ mishaps' = mishaps \cup {"pause"}
     /\ Count("failures")
     /\ UNCHANGED running

(* pause_if_idle, with the sandbox object or the stored one. *)
PauseIfIdle(v) ==
  /\ LockFree
  /\ \/ inUse = 0 /\ v # Nil /\ PauseQuietly(v)
     \/ (inUse > 0 \/ v = Nil) /\ UNCHANGED <<vm, running, mishaps, spent>>

(* Timer.cancel stops a Timer that did not fire yet. *)
CancelsTimer(x) == timer[x] = "armed"

(* sandbox_keepalive.cancel: a Timer that already fired is not stopped.     *)
Cancel ==
  /\ entry' = Nil
  /\ timer' = [x \in Timers |-> IF x = entry /\ CancelsTimer(x) THEN "free" ELSE timer[x]]

----------------------------------------------------------------------------
(* Threads start. *)

Begin(t, k, l, j) == th' = [th EXCEPT ![t] = State(l, k, Nil, j)]

StartTurn ==
  /\ At(Turn, "idle")
  /\ spent.turns < MaxTurns
  /\ Count("turns")
  /\ Begin(Turn, "turn", "live", Nil)
  /\ keepalive' = FALSE
  /\ UNCHANGED <<box, use, entry, timer, control, bg, announced, mishaps>>

CanCall(c) == At(c, "idle") /\ At(Turn, "live") /\ spent.calls < MaxCalls

(* sandbox_use counts the call before it connects. *)
EnterBlock(t) ==
  /\ LockFree
  /\ inUse' = inUse + 1
  /\ UNCHANGED running

UseSandbox(c) ==
  /\ CanCall(c) /\ Count("calls")
  /\ \E k \in Kinds \cap UseKinds : Begin(c, k, "getting", Nil)
  /\ EnterBlock(c)
  /\ UNCHANGED <<box, keep, control, bg, announced, mishaps>>

(* Ids (uuid4) no call has taken yet. *)
NewJobs == {j \in Jobs : job[j].state = "none" /\ \A t \in Calls : th[t].job # j}

(* Every other tool connects without counting itself. *)
CallTool(c) ==
  /\ CanCall(c) /\ Count("calls")
  /\ \/ \E k \in Kinds \cap {"plain", "hand"} : Begin(c, k, "getting", Nil)
     \/ \E j \in NewJobs : "launch" \in Kinds /\ Begin(c, "launch", "getting", j)
     \/ \E k \in Kinds \cap {"check", "kill"}, j \in Jobs :
          job[j].state # "none" /\ Begin(c, k, "getting", j)
     \/ "unhand" \in Kinds /\ Begin(c, "unhand", "popping", Nil)
  /\ UNCHANGED <<box, use, keep, control, bg, announced, mishaps>>

(* set_sandbox_keepalive_tool. *)
SetKeepalive(c) ==
  /\ "set" \in Kinds
  /\ CanCall(c) /\ Count("calls")
  /\ \/ keepalive' = TRUE /\ Begin(c, "set", "arming", Nil) /\ UNCHANGED <<entry, timer>>
     \/ keepalive' = FALSE /\ Cancel /\ UNCHANGED th
  /\ UNCHANGED <<box, use, control, bg, announced, mishaps>>

(* The first desktop action in a huddle's turn starts showing the desktop.  *)
StartScreen ==
  /\ At(Screen, "idle") /\ At(Turn, "live")
  /\ spent.screens < MaxScreens
  /\ Count("screens")
  /\ Begin(Screen, "script", "getting", Nil)
  /\ EnterBlock(Screen)
  /\ UNCHANGED <<box, keep, control, bg, announced, mishaps>>

(* _poll_one of a job on the list, or of one nobody checked on for hours.   *)
StartPoll ==
  /\ At(Poller, "idle")
  /\ \E j \in registered : Begin(Poller, "poll", "getting", j)
  /\ UNCHANGED <<box, use, keep, control, bg, ghost>>

Abandon ==
  /\ At(Poller, "idle")
  /\ \E j \in registered : registered' = registered \ {j}
  /\ mishaps' = IF \A x \in Timers : timer[x] = "free" THEN mishaps \cup {"abandon"} ELSE mishaps
  /\ UNCHANGED <<th, box, use, keep, control, job, announced, spent>>

ControlExpires ==
  /\ At(Control, "idle") /\ control
  /\ Begin(Control, "unhand", "popping", Nil)
  /\ UNCHANGED <<box, use, keep, control, bg, ghost>>

(* kill_thread_sandbox reads the stored id, and takes no lock at all.       *)
StartDelete ==
  /\ At(Deleter, "idle") /\ stored # Nil
  /\ spent.deletes < MaxDeletes
  /\ Count("deletes")
  /\ th' = [th EXCEPT ![Deleter] = State("destroying", "delete", stored, Nil)]
  /\ mishaps' = mishaps \cup {"delete"}
  /\ UNCHANGED <<box, use, keep, control, bg, announced>>

----------------------------------------------------------------------------
(* get_or_create_sandbox. *)

(* Sandboxes E2B still has. *)
Alive == {v \in Sandboxes : vm[v] \in {"awake", "paused"}}

(* The stored sandbox answers (resuming it if it was paused), or there is   *)
(* none, or E2B recycled it: a new one is created, and the lock is held.    *)
Connect(t) ==
  /\ At(t, "getting") /\ LockFree
  /\ \/ /\ stored \in Alive
        /\ vm' = [vm EXCEPT ![stored] = "awake"]
        /\ th' = [th EXCEPT ![t] = State("adding", @.kind, stored, @.job)]
        /\ UNCHANGED stored
     \/ /\ stored \notin Alive
        /\ \E v \in Sandboxes :
             /\ vm[v] = "none"
             /\ vm' = [vm EXCEPT ![v] = "awake"]
             /\ th' = [th EXCEPT ![t] = State("saving", @.kind, v, @.job)]
        /\ stored' = Nil
  /\ UNCHANGED <<use, keep, control, bg, ghost>>

(* What is left when get_or_create_sandbox raises: nothing happened, or the *)
(* stored sandbox was resumed and then did not answer, or a new one was     *)
(* created and not provisioned, and nobody keeps its id.                    *)
HalfConnected ==
  \/ UNCHANGED box
  \/ stored \in Alive /\ vm' = [vm EXCEPT ![stored] = "awake"] /\ UNCHANGED stored
  \/ /\ stored \notin Alive
     /\ stored' = Nil
     /\ \/ UNCHANGED vm
        \/ \E v \in Sandboxes : vm[v] = "none" /\ vm' = [vm EXCEPT ![v] = "awake"]

(* The desktop capture tries again or is stopped, any other sandbox_use      *)
(* block ends, stop() goes on to the pause (its second try failed too), and  *)
(* every other caller returns the error.                                     *)
AfterFailure(t) ==
  \/ t = Screen /\ UNCHANGED th
  \/ th[t].kind \in UseKinds /\ Goto(t, "exiting")
  \/ th[t].kind = "unhand" /\ Goto(t, "asking")
  \/ th[t].kind \notin UseKinds \cup {"unhand"} /\ Done(t)

(* Mutant of ConnectFails: the caller gives its count back, and so does the *)
(* end of its block.                                                        *)
ConnectFailsTwice(t) ==
  /\ At(t, "getting") /\ LockFree
  /\ Fails /\ Count("failures")
  /\ HalfConnected
  /\ AfterFailure(t)
  /\ inUse' = IF th[t].kind \in UseKinds THEN inUse - 1 ELSE inUse
  /\ mishaps' = mishaps \cup {"connect"}
  /\ UNCHANGED <<running, keep, control, bg, announced>>

ConnectFails(t) ==
  /\ At(t, "getting") /\ LockFree
  /\ Fails /\ Count("failures")
  /\ HalfConnected
  /\ AfterFailure(t)
  /\ mishaps' = mishaps \cup {"connect"}
  /\ UNCHANGED <<use, keep, control, bg, announced>>

(* Mutant of Save: the new sandbox's id is not stored. *)
SaveNothing(t) ==
  /\ At(t, "saving")
  /\ Goto(t, "adding")
  /\ UNCHANGED <<box, use, keep, control, bg, ghost>>

Save(t) ==
  /\ At(t, "saving")
  /\ stored' = th[t].vm
  /\ Goto(t, "adding")
  /\ UNCHANGED <<vm, use, keep, control, bg, ghost>>

(* The lock is released, then the thread is added to _running.              *)
Add(t) ==
  /\ At(t, "adding")
  /\ running' = TRUE
  /\ Goto(t, "working")
  /\ UNCHANGED <<box, inUse, keep, control, bg, ghost>>

----------------------------------------------------------------------------
(* What each caller does with the sandbox. *)

Works(t, k) == At(t, "working") /\ th[t].kind = k
Answers(t)  == vm[th[t].vm] = "awake"

(* run_linux_command's finally block: a stream or a background job keeps    *)
(* the sandbox up, otherwise the end of the block pauses it.                *)
CommandEnds(t) ==
  /\ Works(t, "command")
  /\ Goto(t, IF keepalive \/ HasPendingJobs THEN "arming" ELSE "exiting")
  /\ UNCHANGED <<box, use, keep, control, bg, ghost>>

ScriptEnds(t) ==
  /\ Works(t, "script")
  /\ Goto(t, "exiting")
  /\ UNCHANGED <<box, use, keep, control, bg, ghost>>

(* A capture failed: connect again. *)
CaptureFails ==
  /\ Works(Screen, "script") /\ ~Answers(Screen)
  /\ Goto(Screen, "getting")
  /\ UNCHANGED <<box, use, keep, control, bg, ghost>>

(* File tools leave the sandbox as it is; a desktop action resets the       *)
(* countdown of a stream; a stream tool starts one.                         *)
PlainEnds(t) ==
  /\ Works(t, "plain")
  /\ \/ Done(t) /\ UNCHANGED keepalive
     \/ Answers(t) /\ Goto(t, "arming") /\ keepalive' = TRUE
  /\ UNCHANGED <<box, use, entry, timer, control, bg, ghost>>

(* run_background_command. *)
Launch(t) ==
  /\ Works(t, "launch")
  /\ \/ /\ Answers(t)
        /\ job' = [job EXCEPT ![th[t].job] = [state |-> "running", vm |-> th[t].vm]]
        /\ Goto(t, "registering")
        /\ UNCHANGED ghost
     \/ /\ ~Answers(t) \/ Fails
        /\ Goto(t, "pausing")
        /\ IF Answers(t) THEN Count("failures") /\ UNCHANGED <<announced, mishaps>> ELSE UNCHANGED ghost
        /\ UNCHANGED job
  /\ UNCHANGED <<box, use, keep, control, registered>>

Register(t) ==
  /\ At(t, "registering")
  /\ registered' = registered \cup {th[t].job}
  /\ Goto(t, "arming")
  /\ UNCHANGED <<box, use, keep, control, job, ghost>>

(* The pid file's process, in the sandbox this caller is connected to.      *)
StatusIn(j, v) ==
  IF job[j].vm # v THEN "UNKNOWN" ELSE IF job[j].state = "running" THEN "RUNNING" ELSE "EXITED"

(* Mutant of ReadStatus: only an UNKNOWN job is taken off the list. *)
ReadStatusKeeps(t) ==
  /\ Works(t, "check") \/ Works(t, "poll")
  /\ IF Answers(t) /\ StatusIn(th[t].job, th[t].vm) = "UNKNOWN"
       THEN th' = [th EXCEPT ![t].status = "UNKNOWN", ![t].pc = "unregistering"]
       ELSE Goto(t, "deciding")
  /\ UNCHANGED <<box, use, keep, control, bg, ghost>>

(* get_job_status. *)
ReadStatus(t) ==
  /\ Works(t, "check") \/ Works(t, "poll")
  /\ IF Answers(t)
       THEN LET s == StatusIn(th[t].job, th[t].vm) IN
            th' = [th EXCEPT ![t].status = s, ![t].pc = IF s = "RUNNING" THEN "arming" ELSE "unregistering"]
       ELSE Goto(t, "deciding")
  /\ UNCHANGED <<box, use, keep, control, bg, ghost>>

(* kill_background_command. *)
StopJob(t) ==
  /\ Works(t, "kill")
  /\ IF Answers(t)
       THEN /\ job' = IF StatusIn(th[t].job, th[t].vm) = "RUNNING"
                        THEN [job EXCEPT ![th[t].job].state = "exited"] ELSE job
            /\ Goto(t, "unregistering")
       ELSE Goto(t, "deciding") /\ UNCHANGED job
  /\ UNCHANGED <<box, use, keep, control, registered, ghost>>

(* Mutant of Unregister: the job stays on the list. *)
UnregisterNothing(t) ==
  /\ At(t, "unregistering")
  /\ Goto(t, "deciding")
  /\ UNCHANGED <<box, use, keep, control, bg, ghost>>

Unregister(t) ==
  /\ At(t, "unregistering")
  /\ registered' = registered \ {th[t].job}
  /\ Goto(t, "deciding")
  /\ UNCHANGED <<box, use, keep, control, job, ghost>>

(* After get_job_status, the poller announces a job that does not run.      *)
Finish(t) ==
  IF th[t].kind = "poll" /\ th[t].status \in {"EXITED", "UNKNOWN"} THEN Goto(t, "notifying") ELSE Done(t)

(* Mutant of Decide: the last job's end does not pause. *)
DecideNoPause(t) ==
  /\ At(t, "deciding")
  /\ IF HasPendingJobs THEN Goto(t, "arming") ELSE Finish(t)
  /\ UNCHANGED <<box, use, keep, control, bg, ghost>>

(* _rearm_or_pause, when this job no longer runs. *)
Decide(t) ==
  /\ At(t, "deciding")
  /\ Goto(t, IF HasPendingJobs THEN "arming" ELSE "pausing")
  /\ UNCHANGED <<box, use, keep, control, bg, ghost>>

Notify ==
  /\ At(Poller, "notifying")
  /\ announced' = [announced EXCEPT ![th[Poller].job] = @ + 1]
  /\ Done(Poller)
  /\ UNCHANGED <<box, use, keep, control, bg, mishaps, spent>>

(* human_control.start turns control on, unless start_control failed.       *)
HandOver(t) ==
  /\ Works(t, "hand")
  /\ IF Answers(t)
       THEN control' = TRUE /\ keepalive' = TRUE /\ Goto(t, "arming")
       ELSE Done(t) /\ UNCHANGED <<control, keepalive>>
  /\ UNCHANGED <<box, use, entry, timer, bg, ghost>>

(* sandbox_keepalive.arm: a pending countdown is cancelled (its Timer stands *)
(* for the new one here) and another one starts.  A control whose link could *)
(* not be sent is turned off at once.                                       *)
Arm(t) ==
  /\ At(t, "arming")
  /\ \E x \in Timers :
       /\ IF entry # Nil /\ CancelsTimer(entry) THEN x = entry ELSE timer[x] = "free"
       /\ timer' = [timer EXCEPT ![x] = "armed"]
       /\ entry' = x
  /\ CASE th[t].kind = "command" -> Goto(t, "leaving")
       [] th[t].kind = "hand"    -> Done(t) \/ th' = [th EXCEPT ![t].pc = "popping", ![t].kind = "unhand"]
       [] OTHER                  -> Finish(t)
  /\ UNCHANGED <<box, use, keepalive, control, bg, ghost>>

(* Mutant of PauseStep: the sandbox is paused although it is in use. *)
PauseAnyway(t) ==
  /\ At(t, "pausing") /\ LockFree
  /\ LET v == IF th[t].kind \in {"launch", "check", "kill", "poll"} THEN th[t].vm ELSE stored IN
     IF v = Nil THEN UNCHANGED <<vm, running, mishaps, spent>> ELSE PauseQuietly(v)
  /\ IF t = Turn THEN Goto(t, "left") ELSE Finish(t)
  /\ UNCHANGED <<stored, inUse, keep, control, bg, announced>>

(* pause_if_idle: the job tools pass their sandbox object, the others none. *)
PauseStep(t) ==
  /\ At(t, "pausing")
  /\ PauseIfIdle(IF th[t].kind \in {"launch", "check", "kill", "poll"} THEN th[t].vm ELSE stored)
  /\ IF t = Turn THEN Goto(t, "left") ELSE Finish(t)
  /\ UNCHANGED <<stored, inUse, keep, control, bg, announced>>

(* The end of a sandbox_use block. *)
ExitBlock(t) ==
  /\ th[t].pc \in {"exiting", "leaving"} /\ LockFree
  /\ inUse' = inUse - 1
  /\ IF inUse = 1 /\ At(t, "exiting") /\ th[t].vm # Nil
       THEN PauseQuietly(th[t].vm)
       ELSE UNCHANGED <<vm, running, mishaps, spent>>
  /\ Done(t)
  /\ UNCHANGED <<stored, keep, control, bg, announced>>

----------------------------------------------------------------------------
(* human_control.stop; a failing try may be followed by another one. *)

PopControl(t) ==
  /\ At(t, "popping")
  /\ control' = FALSE
  /\ IF control THEN Goto(t, "getting") ELSE Done(t)
  /\ UNCHANGED <<box, use, keep, bg, ghost>>

StopControl(t) ==
  /\ Works(t, "unhand")
  /\ \/ Goto(t, "asking")
     \/ ~Answers(t) /\ Goto(t, "getting")
  /\ UNCHANGED <<box, use, keep, control, bg, ghost>>

(* A running turn pauses the sandbox when it ends, but its mark outlives   *)
(* run_agent's look at control and at the sandbox.                          *)
AskRun(t) ==
  /\ At(t, "asking")
  /\ IF TurnIsLive THEN Done(t) ELSE Goto(t, "flagging")
  /\ mishaps' = IF TurnIsLive /\ ~At(Turn, "live") THEN mishaps \cup {"handover"} ELSE mishaps
  /\ UNCHANGED <<box, use, keep, control, bg, announced, spent>>

(* pause_if_running. *)
ReadFlag(t) ==
  /\ At(t, "flagging")
  /\ IF running THEN Goto(t, "pausing") ELSE IF t = Turn THEN Goto(t, "left") ELSE Done(t)
  /\ UNCHANGED <<box, use, keep, control, bg, ghost>>

(* The end of a turn: run_agent's finally block, then run_agent_turn's.     *)
EndRun ==
  /\ At(Turn, "live")
  /\ \A c \in Calls : At(c, "idle")
  /\ Goto(Turn, IF control THEN "left" ELSE "counting")
  /\ UNCHANGED <<box, use, keep, control, bg, ghost>>

(* _should_force_pause_sandbox. *)
CheckJobs ==
  /\ At(Turn, "counting")
  /\ Goto(Turn, IF HasPendingJobs THEN "left" ELSE "cancelling")
  /\ UNCHANGED <<box, use, keep, control, bg, ghost>>

CancelTimer ==
  /\ At(Turn, "cancelling")
  /\ Cancel
  /\ Goto(Turn, "flagging")
  /\ UNCHANGED <<box, use, keepalive, control, bg, ghost>>

Unmark ==
  /\ At(Turn, "left")
  /\ Done(Turn)
  /\ UNCHANGED <<box, use, keep, control, bg, ghost>>

----------------------------------------------------------------------------
(* sandbox_keepalive's timers. *)

Fire(x) ==
  /\ timer[x] = "armed"
  /\ timer' = [timer EXCEPT ![x] = "fired"]
  /\ UNCHANGED <<th, box, use, entry, keepalive, control, bg, ghost>>

(* _pause drops whatever entry there is, its own or a newer timer's ...     *)
DropEntry(x) ==
  /\ timer[x] = "fired"
  /\ timer' = [timer EXCEPT ![x] = "pausing"]
  /\ entry' = Nil
  /\ UNCHANGED <<th, box, use, keepalive, control, bg, ghost>>

(* ... and pauses the sandbox if no block uses it. *)
TimerPauses(x) ==
  /\ timer[x] = "pausing"
  /\ PauseIfIdle(stored)
  /\ timer' = [timer EXCEPT ![x] = "free"]
  /\ UNCHANGED <<th, stored, inUse, entry, keepalive, control, bg, announced>>

----------------------------------------------------------------------------
(* E2B, the deletion of the conversation, and the process's death. *)

(* A process only makes progress while its sandbox is awake. *)
JobExits(j) ==
  /\ job[j].state = "running" /\ vm[job[j].vm] = "awake"
  /\ job' = [job EXCEPT ![j].state = "exited"]
  /\ UNCHANGED <<th, box, use, keep, control, registered, ghost>>

Recycle(v) ==
  /\ vm[v] \in {"awake", "paused"}
  /\ spent.losses < MaxLosses
  /\ Count("losses")
  /\ vm' = [vm EXCEPT ![v] = "gone"]
  /\ UNCHANGED <<th, stored, use, keep, control, bg, announced, mishaps>>

Destroy ==
  /\ At(Deleter, "destroying")
  /\ \/ vm' = [vm EXCEPT ![th[Deleter].vm] = "gone"] /\ UNCHANGED spent
     \/ Fails /\ Count("failures") /\ UNCHANGED vm
  /\ Goto(Deleter, "forgetting")
  /\ UNCHANGED <<stored, use, keep, control, bg, announced, mishaps>>

ForgetStored ==
  /\ At(Deleter, "forgetting")
  /\ stored' = Nil
  /\ Done(Deleter)
  /\ UNCHANGED <<vm, use, keep, control, bg, ghost>>

Crash ==
  /\ spent.crashes < MaxCrashes
  /\ Count("crashes")
  /\ th' = [t \in Threads |-> Idle]
  /\ inUse' = 0
  /\ running' = FALSE
  /\ entry' = Nil
  /\ timer' = [x \in Timers |-> "free"]
  /\ keepalive' = FALSE
  /\ control' = FALSE
  /\ mishaps' = mishaps \cup {"crash"}
  /\ UNCHANGED <<box, bg, announced>>

----------------------------------------------------------------------------
Init ==
  /\ th = [t \in Threads |-> Idle]
  /\ stored = Nil
  /\ vm = [v \in Sandboxes |-> "none"]
  /\ inUse = 0
  /\ running = FALSE
  /\ entry = Nil
  /\ timer = [x \in Timers |-> "free"]
  /\ keepalive = FALSE
  /\ control = FALSE
  /\ registered = {}
  /\ job = [j \in Jobs |-> [state |-> "none", vm |-> Nil]]
  /\ announced = [j \in Jobs |-> 0]
  /\ mishaps = {}
  /\ spent = [k \in Bounded |-> 0]

CallStarts(c) == UseSandbox(c) \/ CallTool(c) \/ SetKeepalive(c)

Connecting(t) == Connect(t) \/ Save(t) \/ Add(t)

Working(t) ==
  \/ CommandEnds(t) \/ ScriptEnds(t) \/ PlainEnds(t) \/ Launch(t) \/ Register(t)
  \/ ReadStatus(t) \/ StopJob(t) \/ Unregister(t) \/ Decide(t) \/ HandOver(t)
  \/ Arm(t) \/ PauseStep(t) \/ ExitBlock(t)
  \/ PopControl(t) \/ StopControl(t) \/ AskRun(t) \/ ReadFlag(t)

TurnEnds == EndRun \/ CheckJobs \/ CancelTimer \/ Unmark

TimerStep(x) == Fire(x) \/ DropEntry(x) \/ TimerPauses(x)

Next ==
  \/ StartTurn \/ StartScreen \/ StartPoll \/ Abandon \/ ControlExpires \/ StartDelete
  \/ \E c \in Calls : CallStarts(c)
  \/ \E t \in Threads : Connecting(t) \/ ConnectFails(t) \/ Working(t)
  \/ CaptureFails \/ Notify \/ TurnEnds
  \/ \E x \in Timers : TimerStep(x)
  \/ \E j \in Jobs : JobExits(j)
  \/ \E v \in Sandboxes : Recycle(v)
  \/ Destroy \/ ForgetStored \/ Crash

(* A countdown lasts minutes, a poll seconds and each poll restarts the     *)
(* countdown: not every one of them ends in the middle of a poll.           *)
BetweenPolls(x) ==
  /\ SF_vars(At(Poller, "idle") /\ Fire(x))
  /\ SF_vars(At(Poller, "idle") /\ DropEntry(x))
  /\ SF_vars(At(Poller, "idle") /\ TimerPauses(x))

(* A thread that started goes on (each remote call has a timeout), a timer  *)
(* that is armed fires, a turn ends, the poller keeps polling, and a job    *)
(* that keeps getting time to run ends.                                     *)
Fairness ==
  /\ \A t \in Threads : WF_vars(Connecting(t) \/ Working(t))
  /\ \A x \in Timers : WF_vars(TimerStep(x)) /\ BetweenPolls(x)
  /\ WF_vars(TurnEnds) /\ WF_vars(StartPoll) /\ WF_vars(Notify) /\ WF_vars(ControlExpires)
  /\ WF_vars(Destroy) /\ WF_vars(ForgetStored)
  /\ \A j \in Jobs : SF_vars(JobExits(j))

Spec == Init /\ [][Next]_vars /\ Fairness

----------------------------------------------------------------------------
(* Properties. *)

PCs == {"idle", "live", "getting", "saving", "adding", "working", "registering", "unregistering",
        "deciding", "arming", "pausing", "notifying", "exiting", "leaving", "popping", "asking",
        "flagging", "counting", "cancelling", "left", "destroying", "forgetting"}

TypeOK ==
  /\ th \in [Threads -> [pc: PCs, kind: CallKinds \cup {"none", "poll", "turn", "delete"},
                         vm: Sandboxes \cup {Nil}, job: Jobs \cup {Nil},
                         status: {"none", "RUNNING", "EXITED", "UNKNOWN"}]]
  /\ stored \in Sandboxes \cup {Nil}
  /\ vm \in [Sandboxes -> {"none", "awake", "paused", "gone"}]
  /\ inUse \in Nat
  /\ running \in BOOLEAN
  /\ entry \in Timers \cup {Nil}
  /\ timer \in [Timers -> {"free", "armed", "fired", "pausing"}]
  /\ keepalive \in BOOLEAN
  /\ control \in BOOLEAN
  /\ registered \subseteq Jobs
  /\ job \in [Jobs -> [state: {"none", "running", "exited"}, vm: Sandboxes \cup {Nil}]]
  /\ announced \in [Jobs -> Nat]
  /\ mishaps \subseteq {"pause", "connect", "handover", "delete", "crash", "abandon"}
  /\ spent \in [Bounded -> Nat]

(* _in_use counts the sandbox_use blocks that are open: one too few would   *)
(* pause a sandbox in use, one too many would never pause it again.         *)
UseIsCounted == inUse = Cardinality({t \in Threads : InBlock(t)})

(* Nothing coolton does pauses a sandbox while a command in a sandbox_use   *)
(* block runs in it: no timer, no end of another call or of a turn, no poll.*)
UsersStayAwake ==
  \A t \in Threads :
    InBlock(t) /\ th[t].pc \in {"adding", "working", "arming"} => vm[th[t].vm] # "paused"

(* Parallel callers share one sandbox: every other one is paused or gone,   *)
(* unless a conversation was deleted, the process died or connecting failed *)
(* meanwhile.                                                               *)
OneSandbox ==
  mishaps \cap {"delete", "crash", "connect"} = {} =>
    \A v \in Sandboxes :
      vm[v] = "awake" => v = stored \/ \E t \in Threads : At(t, "saving") /\ th[t].vm = v

(* The poller announces a job's end once, whoever else looks at it.         *)
AnnouncedOnce == \A j \in Jobs : announced[j] <= 1

(* Someone needs the sandbox awake, or is about to pause it. *)
Busy ==
  \/ TurnIsLive \/ HasPendingJobs \/ control
  \/ \E t \in {Screen, Poller, Control, Deleter} : ~At(t, "idle")

(* An awake sandbox nothing needs any more is paused.  Failing remote calls *)
(* aside, only a turn that ended under a person's control may leave it up.  *)
SandboxRests ==
  \A v \in Sandboxes :
    (vm[v] = "awake" /\ ~Busy) ~> (vm[v] # "awake" \/ Busy \/ mishaps # {})

(* A background job on the list gets to run and leaves the list.            *)
JobsFinish == \A j \in Jobs : j \in registered ~> j \notin registered

(* sandbox_helpers: a call that's done only pauses the sandbox when no      *)
(* other call is still using it.                                            *)
CallsStayAwake ==
  \A c \in Calls : th[c].pc \in {"adding", "working"} => vm[th[c].vm] # "paused"

=============================================================================
