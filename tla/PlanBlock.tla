----------------------------- MODULE PlanBlock -----------------------------
(***************************************************************************)
(* What a turn shows of itself in its Slack thread: the plan message, with *)
(* one task per step (agent/plan_block.py), which continues in another     *)
(* message when it is full, and the thread's agent session, which Slack    *)
(* shows as working (agent/thread_status.py).                              *)
(*                                                                         *)
(* The turn runs in one thread, the refresh of the session in its timer's. *)
(* A call to Slack may fail, and a post may be made whose answer is lost.  *)
(* What the tasks say is left out.                                         *)
(***************************************************************************)
EXTENDS Naturals, FiniteSets, Sequences

CONSTANTS
  ToolCalls,       (* the calls of tools a turn may make                     *)
  Thoughts,        (* the responses with reasoning it may get                *)
  PlanTaskLimit,   (* PLAN_TASK_LIMIT                                        *)
  SlackTasks,      (* how many tasks Slack takes in one plan                 *)
  ThinkingTask, ModelTask, RespondTask, ErrorTask,  (* tasks that are no step  *)
  MaxAttempts,     (* bound: attempts of a turn (the chain's length)         *)
  MaxPlanEvents    (* bound: calls to Slack that fail, ticks and deaths      *)

ASSUME PlanAssumption ==
  /\ {PlanTaskLimit, SlackTasks, MaxAttempts, MaxPlanEvents} \subseteq Nat
  /\ PlanTaskLimit < SlackTasks
  /\ ToolCalls \cap Thoughts = {}
  /\ {ThinkingTask, ModelTask, RespondTask, ErrorTask} \cap (ToolCalls \cup Thoughts) = {}
  /\ ThinkingTask \notin {ModelTask, RespondTask, ErrorTask}
  /\ ModelTask \notin {RespondTask, ErrorTask} /\ RespondTask # ErrorTask

VARIABLES
  showing,      (* the turn: where it is, the calls the model's response     *)
                (* made that have not begun, those that run, and the calls   *)
                (* and thoughts there were, and how many attempts            *)
  block,        (* deps.plan_ts (0: None), plan_earlier_ts and plan_tasks    *)
  plans,        (* the thread's plan messages: their tasks, or Deleted       *)
  session,      (* Slack's status of the thread, whether _state has it, and  *)
                (* whether its timer is about to call Slack                  *)
  spoilt,       (* history: messages left behind by a failure or a death     *)
  stuck,        (* history: the session was left processing by a late tick,  *)
                (* a failed call or a death                                  *)
  planEvents    (* history: the bounded events so far                        *)

planVars == <<showing, block, plans, session, spoilt, stuck, planEvents>>

Deleted    == <<>>
InProgress == "in_progress"
Finished   == {"complete", "error"}
NoCalls    == [at |-> "begin", pending |-> {}, running |-> {}, made |-> {}, attempts |-> 0]

PlanInit ==
  /\ showing = NoCalls
  /\ block = [ts |-> 0, earlier |-> {}, tasks |-> <<>>]
  /\ plans = <<>>
  /\ session = [status |-> "active", kept |-> FALSE, ticking |-> FALSE]
  /\ spoilt = {} /\ stuck = FALSE /\ planEvents = 0

PlanEvent == planEvents < MaxPlanEvents /\ planEvents' = planEvents + 1
Calm      == UNCHANGED planEvents

Except(tasks, ks) == [k \in DOMAIN tasks \ ks |-> tasks[k]]
Only(tasks, ks)    == [k \in DOMAIN tasks \cap ks |-> tasks[k]]
InStatus(tasks, ss) == {k \in DOMAIN tasks : tasks[k] \in ss}
With(tasks, ks, s) == [k \in DOMAIN tasks \cup ks |-> IF k \in ks THEN s ELSE tasks[k]]

Placeholder == [k \in {ThinkingTask} |-> InProgress]

(* The terminal calls: nothing is in progress any more. *)
AllDone(tasks) == [k \in DOMAIN tasks |-> IF tasks[k] = InProgress THEN "complete" ELSE tasks[k]]

----------------------------------------------------------------------------
(* Mutant of Frozen: the message that is left keeps every task. *)
FrozenWhole(tasks) == tasks

(* _roll_over_if_full: what stays in the full message. *)
Frozen(tasks) == Only(tasks, InStatus(tasks, Finished))

(* _roll_over_if_full: the finished tasks stay in the full message and the  *)
(* others, or a placeholder, go to a new one.  Its outcomes: the block,     *)
(* what Slack shows, what is spoilt, and whether a call failed.             *)
RollOvers(tasks) ==
  LET full     == block.ts # 0 /\ Cardinality(DOMAIN tasks) > PlanTaskLimit
      finished == InStatus(tasks, Finished)
      carried  == Except(tasks, finished)
      frozen   == [plans EXCEPT ![block.ts] = Frozen(tasks)]
      next     == Append(frozen, IF carried = <<>> THEN Placeholder ELSE carried)
      same     == [block EXCEPT !.tasks = tasks]
      moved    == [ts |-> Len(next), earlier |-> block.earlier \cup {block.ts}, tasks |-> carried]
      Outcome(b, s, left, failed) == [block |-> b, plans |-> s, spoilt |-> left, failed |-> failed]
  IN IF ~full \/ finished = {} THEN {Outcome(same, plans, spoilt, FALSE)}
     ELSE {Outcome(moved, next, spoilt, FALSE), Outcome(same, plans, spoilt, TRUE),
           Outcome(same, frozen, spoilt, TRUE), Outcome(same, next, spoilt \cup {Len(next)}, TRUE)}

(* chat.update, of a plan Slack takes. *)
TooFull(tasks) == Cardinality(DOMAIN tasks) > SlackTasks

ShownPlan(messages, ts, tasks) ==
  IF TooFull(tasks) THEN messages ELSE [messages EXCEPT ![ts] = tasks]

(* update_plan_message: the placeholder goes once there is anything else;   *)
(* an update that fails is made good by the next one.                       *)
UpdatePlanMessage(tasks) ==
  IF block.ts = 0 THEN UNCHANGED <<block, plans, spoilt>> /\ Calm
  ELSE \E r \in RollOvers(tasks), failed \in BOOLEAN :
         LET now == IF Cardinality(DOMAIN r.block.tasks) > 1
                      THEN Except(r.block.tasks, {ThinkingTask}) ELSE r.block.tasks
         IN /\ block' = [r.block EXCEPT !.tasks = now]
            /\ plans' = IF failed THEN r.plans ELSE ShownPlan(r.plans, r.block.ts, now)
            /\ spoilt' = r.spoilt
            /\ IF failed \/ r.failed THEN PlanEvent ELSE Calm

(* A terminal call of _retrying's, which works in the end or is given up. *)
LastUpdate(tasks) ==
  \/ plans' = ShownPlan(plans, block.ts, tasks) /\ UNCHANGED spoilt /\ Calm
  \/ spoilt' = spoilt \cup {block.ts} /\ UNCHANGED plans /\ PlanEvent

----------------------------------------------------------------------------
(* The turn (run_agent_turn, run_agent and the hooks of the plan). *)

Goes(from, to) == showing.at = from /\ showing' = [showing EXCEPT !.at = to]

(* send_plan_message *)
SendPlanMessage ==
  /\ Goes("begin", "session")
  /\ LET Sent(ts) == block' = [ts |-> ts, earlier |-> {}, tasks |-> Placeholder]
     IN \/ Sent(0) /\ PlanEvent /\ UNCHANGED <<plans, spoilt>>
        \/ /\ plans' = Append(plans, Placeholder)
           /\ \/ Sent(Len(plans')) /\ UNCHANGED spoilt /\ Calm
              \/ Sent(0) /\ spoilt' = spoilt \cup {Len(plans')} /\ PlanEvent
  /\ UNCHANGED <<session, stuck>>

(* thread_status.start, in a thread that has a reply by now. *)
StartSession(hasReply) ==
  /\ Goes("session", "attempt")
  /\ IF block.ts = 0 /\ ~hasReply THEN UNCHANGED <<session, stuck>> /\ Calm
     ELSE /\ stuck' = FALSE
          /\ \/ session' = [session EXCEPT !.kept = TRUE, !.status = "processing"] /\ Calm
             \/ session' = [session EXCEPT !.kept = TRUE] /\ PlanEvent
  /\ UNCHANGED <<block, plans, spoilt>>

(* set_model_task, as an attempt starts. *)
SetModelTask ==
  /\ showing.at = "attempt" /\ showing.attempts < MaxAttempts
  /\ showing' = [showing EXCEPT !.at = "model", !.attempts = @ + 1]
  /\ UpdatePlanMessage(With(block.tasks, {ModelTask}, "complete"))
  /\ UNCHANGED <<session, stuck>>

(* after_model: the response calls tools or is the final one. *)
AfterModel(calls, thoughts) ==
  /\ showing.at = "model"
  /\ (calls \cup thoughts) \cap showing.made = {}
  /\ showing' = [showing EXCEPT !.at = IF calls = {} THEN "replying" ELSE "tools",
                                !.pending = calls, !.made = @ \cup calls \cup thoughts]
  /\ IF thoughts = {} THEN UNCHANGED <<block, plans, spoilt>> /\ Calm
     ELSE UpdatePlanMessage(With(Except(block.tasks, {ThinkingTask}), thoughts, "complete"))
  /\ UNCHANGED <<session, stuck>>

(* before_tool; Jev's search is not shown as a step. *)
ShowCall(c, isPreload) ==
  /\ showing.at = "tools" /\ c \in showing.pending
  /\ showing' = [showing EXCEPT !.pending = @ \ {c}, !.running = @ \cup {c}]
  /\ IF isPreload THEN UNCHANGED <<block, plans, spoilt>> /\ Calm
     ELSE UpdatePlanMessage(With(Except(block.tasks, {ThinkingTask}), {c}, InProgress))
  /\ UNCHANGED <<session, stuck>>

(* before_tool, after a !stop. *)
StopHalts == Goes("tools", "wrong") /\ showing.pending # {}
             /\ Calm /\ UNCHANGED <<block, plans, session, spoilt, stuck>>

(* after_tool and on_tool_error: the call's task, if it has one. *)
ShowEnd(c, status) ==
  IF c \in DOMAIN block.tasks THEN UpdatePlanMessage(With(block.tasks, {c}, status))
  ELSE UNCHANGED <<block, plans, spoilt>> /\ Calm

ShowResult(c) ==
  /\ showing.at = "tools" /\ c \in showing.running
  /\ LET left == showing.running \ {c} IN
     showing' = [showing EXCEPT !.running = left,
                   !.at = IF left \cup showing.pending = {} THEN "model" ELSE "tools"]
  /\ ShowEnd(c, "complete")
  /\ UNCHANGED <<session, stuck>>

(* A tool fails, and the attempt with it; skip and wait_tool end the turn.  *)
(* The calls beside it end without a word.                                  *)
OnToolError(c, to) ==
  /\ showing.at = "tools" /\ c \in showing.running
  /\ showing' = [showing EXCEPT !.at = to, !.pending = {}, !.running = {}]
  /\ ShowEnd(c, IF to = "attempt" THEN "error" ELSE "complete")
  /\ UNCHANGED <<session, stuck>>

(* The model fails; there is another attempt, or none. *)
AttemptEnds == (Goes("model", "attempt") \/ Goes("attempt", "wrong"))
               /\ Calm /\ UNCHANGED <<block, plans, session, spoilt, stuck>>

(* finalize_plan_message *)
FinalizePlan ==
  /\ Goes("replying", "posting")
  /\ IF block.ts = 0 THEN UNCHANGED <<block, plans, spoilt>> /\ Calm
     ELSE LET tasks == With(With(AllDone(block.tasks), {ModelTask}, "complete"), {RespondTask}, InProgress) IN
          block' = [block EXCEPT !.tasks = tasks] /\ LastUpdate(tasks)
  /\ UNCHANGED <<session, stuck>>

(* The answer is posted, or that fails. *)
PostAnswer == (Goes("posting", "posted") \/ Goes("posting", "wrong"))
              /\ Calm /\ UNCHANGED <<block, plans, session, spoilt, stuck>>

(* complete_plan_message: after the answer, or skip with preserve. *)
CompletePlan ==
  /\ Goes("posted", "saving") \/ Goes("preserved", "saving")
  /\ IF block.ts = 0 THEN UNCHANGED <<block, plans, spoilt>> /\ Calm
     ELSE LET tasks == AllDone(block.tasks) IN
          block' = [block EXCEPT !.tasks = tasks] /\ LastUpdate(tasks)
  /\ UNCHANGED <<session, stuck>>

(* What comes after may still fail (the observed history, the trace). *)
SaveTurn == (Goes("saving", "ending") \/ Goes("saving", "wrong"))
            /\ Calm /\ UNCHANGED <<block, plans, session, spoilt, stuck>>

(* set_plan_error: a failure, or a !stop. *)
SetPlanError ==
  /\ Goes("wrong", "ending")
  /\ IF block.ts = 0 THEN UNCHANGED <<block, plans, spoilt>> /\ Calm
     ELSE LET tasks == With(AllDone(block.tasks), {ErrorTask}, "error") IN
          block' = [block EXCEPT !.tasks = tasks, !.ts = 0] /\ LastUpdate(tasks)
  /\ UNCHANGED <<session, stuck>>

(* delete_plan_message: skip leaves nothing in the thread. *)
DeletePlan ==
  /\ Goes("skipped", "saving")
  /\ IF block.ts = 0 THEN UNCHANGED <<block, plans, spoilt>> /\ Calm
     ELSE LET all == block.earlier \cup {block.ts} IN
          /\ block' = [block EXCEPT !.ts = 0, !.earlier = {}]
          /\ \/ spoilt' = spoilt /\ Calm
             \/ \E m \in all : spoilt' = spoilt \cup {m} /\ PlanEvent
          /\ plans' = [m \in DOMAIN plans |-> IF m \in all \ spoilt' THEN Deleted ELSE plans[m]]
  /\ UNCHANGED <<session, stuck>>

(* thread_status.stop: of a session _state has. *)
StopSession ==
  /\ Goes("ending", "over")
  /\ IF ~session.kept THEN UNCHANGED <<session, stuck>> /\ Calm
     ELSE \/ session' = [session EXCEPT !.kept = FALSE, !.status = "active"]
             /\ UNCHANGED stuck /\ Calm
          \/ session' = [session EXCEPT !.kept = FALSE] /\ stuck' = TRUE /\ PlanEvent
  /\ UNCHANGED <<block, plans, spoilt>>

----------------------------------------------------------------------------
(* _tick: the timer fires and is armed anew, and then tells Slack. *)
Tick ==
  /\ session.kept /\ ~session.ticking /\ PlanEvent
  /\ session' = [session EXCEPT !.ticking = TRUE]
  /\ UNCHANGED <<showing, block, plans, spoilt, stuck>>

TickCalls ==
  /\ session.ticking
  /\ session' = [session EXCEPT !.ticking = FALSE, !.status = "processing"]
  /\ stuck' = (stuck \/ ~session.kept)
  /\ Calm /\ UNCHANGED <<showing, block, plans, spoilt>>

(* end_session_now: Slack's stop button, at once. *)
EndSessionNow ==
  /\ session.status = "processing"
  /\ session' = [session EXCEPT !.status = "active"]
  /\ Calm /\ UNCHANGED <<showing, block, plans, spoilt, stuck>>

(* The process dies; the turn is resumed, with a plan of its own. *)
PlanDeath ==
  /\ showing.at \notin {"begin", "over"} /\ PlanEvent
  /\ showing' = [NoCalls EXCEPT !.made = showing.made, !.attempts = showing.attempts]
  /\ block' = [ts |-> 0, earlier |-> {}, tasks |-> <<>>]
  /\ spoilt' = DOMAIN plans
  /\ session' = [session EXCEPT !.kept = FALSE, !.ticking = FALSE]
  /\ stuck' = (session.status = "processing")
  /\ UNCHANGED plans

PlanNext ==
  \/ SendPlanMessage \/ SetModelTask \/ StopHalts \/ AttemptEnds \/ FinalizePlan \/ PostAnswer
  \/ CompletePlan \/ SaveTurn \/ SetPlanError \/ DeletePlan \/ StopSession
  \/ Tick \/ TickCalls \/ EndSessionNow \/ PlanDeath
  \/ \E b \in BOOLEAN : StartSession(b)
  \/ \E cs \in SUBSET ToolCalls, ts \in SUBSET Thoughts : AfterModel(cs, ts)
  \/ \E c \in ToolCalls :
       \/ ShowResult(c)
       \/ \E b \in BOOLEAN : ShowCall(c, b)
       \/ \E to \in {"attempt", "skipped", "preserved"} : OnToolError(c, to)

PlanSpec == PlanInit /\ [][PlanNext]_planVars

----------------------------------------------------------------------------
PlanTypeOK ==
  /\ showing.pending \cup showing.running \subseteq ToolCalls \cap showing.made
  /\ showing.made \subseteq ToolCalls \cup Thoughts
  /\ block.ts \in {0} \cup DOMAIN plans /\ block.earlier \cup spoilt \subseteq DOMAIN plans
  /\ \A m \in DOMAIN plans :
       InStatus(plans[m], {InProgress} \cup Finished) = DOMAIN plans[m]
  /\ session \in [status : {"active", "processing"}, kept : BOOLEAN, ticking : BOOLEAN]
  /\ stuck \in BOOLEAN
  /\ showing.attempts \in 0..MaxAttempts /\ planEvents \in 0..MaxPlanEvents

(* A turn that is over looks over, however it ended and however many        *)
(* messages its plan took: none of them still shows a step in progress, no  *)
(* step is shown in two of them, and the thread is not left working. Only a *)
(* message whose last call failed, whose post's answer was lost or whose    *)
(* process died is left as it was, and a session whose stop failed or which *)
(* a tick set going again after it.  A plan is full long before Slack       *)
(* refuses it: only steps that run at once, or a continuation that cannot   *)
(* be posted, make one too long.                                            *)
EndsAreShown ==
  showing.at = "over" /\ ~TooFull(block.tasks) =>
    /\ \A m \in DOMAIN plans \ spoilt :
         /\ InStatus(plans[m], {InProgress}) = {}
         /\ \A n \in DOMAIN plans \ (spoilt \cup {m}) :
              DOMAIN plans[m] \cap DOMAIN plans[n] \subseteq {ModelTask}
    /\ session.status = "processing" => stuck
============================================================================
