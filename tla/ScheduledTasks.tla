--------------------------- MODULE ScheduledTasks ---------------------------
(***************************************************************************)
(* Recurring tasks (agent/scheduler.py): scheduled_tasks.json, read and    *)
(* rewritten under scheduled_tasks_lock, and APScheduler's jobs, which     *)
(* every operation changes after it has let that lock go.                  *)
(*                                                                         *)
(* A caller is one call of the tools that create, pause, resume or delete  *)
(* a task; a firing is the run of _fire_task on an APScheduler thread (at  *)
(* most one per task, max_instances = 1), which posts a banner and hands   *)
(* the turn to _task_executor.                                             *)
(***************************************************************************)
EXTENDS Naturals, FiniteSets

CONSTANTS
  Tasks,        (* task ids                                                  *)
  Users,
  Admins,       (* ADMIN_USER_IDS                                            *)
  TaskCallers,  (* tool calls in flight at once                              *)
  Absent,
  MaxTasks,     (* MAX_TASKS_PER_USER                                        *)
  MaxReads,     (* bound: reads of the file that fail                        *)
  MaxRestarts   (* bound: process deaths                                     *)

ASSUME ScheduledTasksAssumption ==
  /\ Absent \notin Tasks \cup Users
  /\ IsFiniteSet(Tasks)
  /\ {MaxTasks, MaxReads, MaxRestarts} \subseteq Nat

VARIABLES
  taskFile,   (* scheduled_tasks.json: each id's state and owner             *)
  cronJobs,   (* the ids APScheduler has a job for                           *)
  taskCall,   (* what each caller does, to which task, and where it stands   *)
  firing,     (* each task's firing: idle, called, posting or noting         *)
  posts,      (* history: banners posted since the task was last active      *)
  taskTrouble,(* history: tasks two callers changed at once; reads that      *)
              (* failed                                                      *)
  taskSpent   (* history: the bounded events so far                          *)

taskVars == <<taskFile, cronJobs, taskCall, firing, posts, taskTrouble, taskSpent>>

TaskStates == {"new", "active", "paused", "gone"}
CallPC     == {"idle", "owned", "arming", "disarming"}
CallOps    == {"none", "create", "pause", "resume", "delete"}

TaskEntry(s, u)  == [state |-> s, owner |-> u]
TaskCall(l, o, t) == [pc |-> l, op |-> o, task |-> t]
NoCall == TaskCall("idle", "none", Absent)

Stored(t) == taskFile[t].state \in {"active", "paused"}
OwnedBy(u) == {t \in Tasks : Stored(t) /\ taskFile[t].owner = u}

(* A call that may still change t's job. *)
CallsOn(t) == {c \in TaskCallers : taskCall[c].task = t}

(* Two calls on one task at once, as far as they change it. *)
Overlap(c, t) == IF CallsOn(t) \ {c} = {} THEN {} ELSE {t}

----------------------------------------------------------------------------
TasksInit ==
  /\ taskFile = [t \in Tasks |-> TaskEntry("new", Absent)]
  /\ cronJobs = {}
  /\ taskCall = [c \in TaskCallers |-> NoCall]
  /\ firing = [t \in Tasks |-> "idle"]
  /\ posts = [t \in Tasks |-> 0]
  /\ taskTrouble = {}
  /\ taskSpent = [k \in {"reads", "restarts"} |-> 0]

(* load_json of a file that cannot be read answers as if there were none,   *)
(* and what is saved next replaces it.                                      *)
UnreadFile ==
  /\ taskSpent.reads < MaxReads
  /\ taskTrouble' = taskTrouble \cup {t \in Tasks : Stored(t)}
  /\ taskSpent' = [taskSpent EXCEPT !.reads = @ + 1]

Emptied == [t \in Tasks |-> IF Stored(t) THEN TaskEntry("gone", taskFile[t].owner) ELSE taskFile[t]]

(* create_scheduled_task: the count and the append are under one lock; the  *)
(* job comes after it.                                                      *)
CreateTask(c, t, u) ==
  /\ taskCall[c] = NoCall
  /\ taskFile[t].state = "new"
  /\ Cardinality(OwnedBy(u)) < MaxTasks
  /\ taskFile' = [taskFile EXCEPT ![t] = TaskEntry("active", u)]
  /\ taskCall' = [taskCall EXCEPT ![c] = TaskCall("arming", "create", t)]
  /\ UNCHANGED <<cronJobs, firing, posts, taskTrouble, taskSpent>>

CreateUnread(c, t, u) ==
  /\ taskCall[c] = NoCall
  /\ taskFile[t].state = "new"
  /\ MaxTasks > 0
  /\ taskFile' = [Emptied EXCEPT ![t] = TaskEntry("active", u)]
  /\ taskCall' = [taskCall EXCEPT ![c] = TaskCall("arming", "create", t)]
  /\ UnreadFile
  /\ UNCHANGED <<cronJobs, firing, posts>>

(* _get_owned_task: the first of the two reads of pause, resume, delete. *)
OwnsTask(c, o, t, u) ==
  /\ taskCall[c] = NoCall
  /\ o \in {"pause", "resume", "delete"}
  /\ Stored(t)
  /\ taskFile[t].owner = u \/ u \in Admins
  /\ taskCall' = [taskCall EXCEPT ![c] = TaskCall("owned", o, t)]
  /\ taskTrouble' = taskTrouble \cup Overlap(c, t)
  /\ UNCHANGED <<taskFile, cronJobs, firing, posts, taskSpent>>

(* pause_scheduled_task: a task deleted meanwhile stays deleted. *)
PauseTask(c) ==
  LET t == taskCall[c].task IN
  /\ taskCall[c].pc = "owned" /\ taskCall[c].op = "pause"
  /\ taskFile' = IF Stored(t) THEN [taskFile EXCEPT ![t].state = "paused"] ELSE taskFile
  /\ taskCall' = [taskCall EXCEPT ![c].pc = "disarming"]
  /\ UNCHANGED <<cronJobs, firing, posts, taskTrouble, taskSpent>>

(* resume_scheduled_task, with the entry it just updated, or none. *)
ResumeTask(c) ==
  LET t == taskCall[c].task IN
  /\ taskCall[c].pc = "owned" /\ taskCall[c].op = "resume"
  /\ \/ /\ Stored(t)
        /\ taskFile' = [taskFile EXCEPT ![t].state = "active"]
        /\ posts' = [posts EXCEPT ![t] = 0]
        /\ taskCall' = [taskCall EXCEPT ![c].pc = "arming"]
     \/ /\ ~Stored(t)
        /\ taskCall' = [taskCall EXCEPT ![c] = NoCall]
        /\ UNCHANGED <<taskFile, posts>>
  /\ UNCHANGED <<cronJobs, firing, taskTrouble, taskSpent>>

DeleteTask(c) ==
  LET t == taskCall[c].task IN
  /\ taskCall[c].pc = "owned" /\ taskCall[c].op = "delete"
  /\ taskFile' = [taskFile EXCEPT ![t].state = "gone"]
  /\ taskCall' = [taskCall EXCEPT ![c].pc = "disarming"]
  /\ UNCHANGED <<cronJobs, firing, posts, taskTrouble, taskSpent>>

(* The second read of a pause, a resume or a deletion fails. *)
ChangeUnread(c) ==
  /\ taskCall[c].pc = "owned"
  /\ taskFile' = Emptied
  /\ taskCall' = [taskCall EXCEPT ![c] =
       IF @.op = "resume" THEN NoCall ELSE TaskCall("disarming", @.op, @.task)]
  /\ UnreadFile
  /\ UNCHANGED <<cronJobs, firing, posts>>

(* _add_cron_job, whose own copy of the task is never a paused one here. *)
AddCronJob(c) ==
  /\ taskCall[c].pc = "arming"
  /\ cronJobs' = cronJobs \cup {taskCall[c].task}
  /\ taskCall' = [taskCall EXCEPT ![c] = NoCall]
  /\ UNCHANGED <<taskFile, firing, posts, taskTrouble, taskSpent>>

(* remove_job, whose error for a job that is not there is dropped. *)
RemoveCronJob(c) ==
  /\ taskCall[c].pc = "disarming"
  /\ cronJobs' = cronJobs \ {taskCall[c].task}
  /\ taskCall' = [taskCall EXCEPT ![c] = NoCall]
  /\ UNCHANGED <<taskFile, firing, posts, taskTrouble, taskSpent>>

----------------------------------------------------------------------------
(* The time comes; the call waits for a thread, and remove_job no longer    *)
(* stops it.                                                                *)
CallTask(t) ==
  /\ t \in cronJobs
  /\ firing[t] = "idle"
  /\ firing' = [firing EXCEPT ![t] = "called"]
  /\ UNCHANGED <<taskFile, cronJobs, taskCall, posts, taskTrouble, taskSpent>>

(* _fire_task: the file is asked again, then the banner is posted without   *)
(* the lock, then the run is noted.                                        *)
FireTask(t) ==
  /\ firing[t] = "called"
  /\ firing' = [firing EXCEPT ![t] = IF taskFile[t].state = "active" THEN "posting" ELSE "idle"]
  /\ UNCHANGED <<taskFile, cronJobs, taskCall, posts, taskTrouble, taskSpent>>

PostBanner(t) ==
  /\ firing[t] = "posting"
  /\ firing' = [firing EXCEPT ![t] = "noting"]
  /\ posts' = [posts EXCEPT ![t] = IF taskFile[t].state = "active" THEN 0 ELSE @ + 1]
  /\ UNCHANGED <<taskFile, cronJobs, taskCall, taskTrouble, taskSpent>>

(* Slack refuses the banner, or the owner is banned. *)
PostFails(t) ==
  /\ firing[t] = "posting"
  /\ firing' = [firing EXCEPT ![t] = "idle"]
  /\ UNCHANGED <<taskFile, cronJobs, taskCall, posts, taskTrouble, taskSpent>>

(* last_run_at and next_run_at, if the task is still there, and the turn    *)
(* goes to _task_executor: from there on it is ThreadTurns'.                *)
NoteRun(t) ==
  /\ firing[t] = "noting"
  /\ firing' = [firing EXCEPT ![t] = "idle"]
  /\ UNCHANGED <<taskFile, cronJobs, taskCall, posts, taskTrouble, taskSpent>>

(* Mutant of RestartTasks: paused tasks get their jobs back too. *)
RestartTasksAll ==
  /\ taskSpent.restarts < MaxRestarts
  /\ cronJobs' = {t \in Tasks : Stored(t)}
  /\ taskCall' = [c \in TaskCallers |-> NoCall]
  /\ firing' = [t \in Tasks |-> "idle"]
  /\ taskTrouble' = {}
  /\ taskSpent' = [taskSpent EXCEPT !.restarts = @ + 1]
  /\ UNCHANGED <<taskFile, posts>>

(* The process dies and start_scheduler runs again: _sync_cron_jobs adds    *)
(* every stored task's job before any caller is there.                      *)
RestartTasks ==
  /\ taskSpent.restarts < MaxRestarts
  /\ cronJobs' = {t \in Tasks : taskFile[t].state = "active"}
  /\ taskCall' = [c \in TaskCallers |-> NoCall]
  /\ firing' = [t \in Tasks |-> "idle"]
  /\ taskTrouble' = {}
  /\ taskSpent' = [taskSpent EXCEPT !.restarts = @ + 1]
  /\ UNCHANGED <<taskFile, posts>>

CallerStep(c) ==
  \/ PauseTask(c) \/ ResumeTask(c) \/ DeleteTask(c) \/ ChangeUnread(c)
  \/ AddCronJob(c) \/ RemoveCronJob(c)

FiringStep(t) == FireTask(t) \/ PostBanner(t) \/ PostFails(t) \/ NoteRun(t)

TasksNext ==
  \/ \E c \in TaskCallers, t \in Tasks, u \in Users :
       \/ CreateTask(c, t, u)
       \/ CreateUnread(c, t, u)
       \/ \E o \in CallOps : OwnsTask(c, o, t, u)
  \/ \E c \in TaskCallers : CallerStep(c)
  \/ \E t \in Tasks : CallTask(t) \/ FiringStep(t)
  \/ RestartTasks

TasksSpec == TasksInit /\ [][TasksNext]_taskVars

----------------------------------------------------------------------------
TasksTypeOK ==
  /\ taskFile \in [Tasks -> [state : TaskStates, owner : Users \cup {Absent}]]
  /\ cronJobs \subseteq Tasks
  /\ taskCall \in [TaskCallers -> [pc : CallPC, op : CallOps, task : Tasks \cup {Absent}]]
  /\ firing \in [Tasks -> {"idle", "called", "posting", "noting"}]
  /\ posts \in [Tasks -> Nat]
  /\ taskTrouble \subseteq Tasks
  /\ taskSpent \in [{"reads", "restarts"} -> Nat]

(* Once nobody changes a task, APScheduler has a job for it exactly when    *)
(* the file says it is active, unless two callers changed it at once (a     *)
(* pause and a resume that overlap may leave an active task without a job   *)
(* until the next start) or the file could not be read.                     *)
JobsMatchFile ==
  \A t \in Tasks \ taskTrouble :
    CallsOn(t) = {} => (t \in cronJobs <=> taskFile[t].state = "active")

(* After a task is paused or deleted, at most the firing that was already   *)
(* under way still posts, whatever job a race left behind.                  *)
PauseSilences == \A t \in Tasks : posts[t] <= 1

(* The file rules the timers, and what they post. *)
FileRules == JobsMatchFile /\ PauseSilences
============================================================================
