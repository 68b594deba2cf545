----------------------------- MODULE Subagents -----------------------------
(***************************************************************************)
(* The runs of one turn: its own, those of the subagents it hands tasks to *)
(* (agent/subagents.py), and kevinton's, which reads the turn when it is   *)
(* over (agent/kevinton.py).  Each has deps of its own, which the hooks of *)
(* its tool calls consult: whether the request was reported and stopped    *)
(* (agent/abuse_report.py), what the turn has left of its Slack calls      *)
(* (agent/slack_budget.py), the !stop, the subagent's own limit.           *)
(*                                                                         *)
(* The calls of one response run at the same time, and so do the           *)
(* subagents.  What the tools do, the prompts, and the chain's choice of   *)
(* models (ProviderChain.tla) are left out; kevinton delegates nothing.    *)
(***************************************************************************)
EXTENDS Naturals, FiniteSets

CONSTANTS
  TurnRun,              (* the turn's own run                                *)
  SubRuns,              (* the subagents, one for each task it may delegate  *)
  KevintonRun,          (* kevinton's                                        *)
  SlackCallBudget,      (* SLACK_CALL_BUDGET                                 *)
  SubagentCallLimit,    (* SUBAGENT_TOOL_CALL_LIMIT                          *)
  ChainLength,          (* the attempts of a run before it fails             *)
  MaxToolUses,          (* bound: tool calls asked for, a program's included *)
  MaxRunEvents          (* bound: failures, !stops, reports and streams      *)

AgentRuns == SubRuns \cup {TurnRun, KevintonRun}

ASSUME SubagentAssumption ==
  /\ {SlackCallBudget, SubagentCallLimit, MaxToolUses, MaxRunEvents} \subseteq Nat
  /\ ChainLength \in Nat \ {0}
  /\ TurnRun \notin SubRuns /\ KevintonRun \notin SubRuns /\ TurnRun # KevintonRun

VARIABLES
  runs,        (* each run: where it is, the attempts it made, the messages  *)
               (* its attempt knows, and what _merge_back has read           *)
  runDeps,     (* each run's AgentDeps: abuse_stop, sandbox_keepalive (any?), *)
               (* slack_calls, last_attempt_messages, and calls["n"]         *)
  toolCalls,   (* the calls asked for or running                             *)
  program,     (* the run whose program has the sandbox, if any              *)
  haltAsked,   (* the thread's !stop                                         *)
  slackMade,   (* history: Slack calls the turn made, subagents and all; and *)
               (* what kevinton makes on top of those before it              *)
  roundsDone,  (* history: each run's responses whose calls are over         *)
  toolUses,    (* history: tool calls asked for                              *)
  runEvents    (* history: the bounded events so far                         *)

subagentVars == <<runs, runDeps, toolCalls, program, haltAsked, slackMade, roundsDone, toolUses,
                  runEvents>>

NoCheckpoint == [of |-> "none", rounds |-> 0]
NoProgram == "none"

SubagentInit ==
  /\ runs = [r \in AgentRuns |->
       [at |-> IF r = TurnRun THEN "asking" ELSE "idle", attempts |-> 0,
        knows |-> [of |-> r, rounds |-> 0], seen |-> FALSE]]
  /\ runDeps = [r \in AgentRuns |->
       [stopped |-> FALSE, keepalive |-> FALSE, slack |-> 0, kept |-> NoCheckpoint, used |-> 0]]
  /\ toolCalls = {} /\ program = NoProgram /\ haltAsked = FALSE
  /\ slackMade = [r \in {TurnRun, KevintonRun} |-> 0] /\ roundsDone = [r \in AgentRuns |-> 0] /\ toolUses = 0 /\ runEvents = 0

RunEvent == runEvents < MaxRunEvents /\ runEvents' = runEvents + 1

CallsOf(r) == {c \in toolCalls : c.by = r}
RunGoes(r, place) == runs' = [runs EXCEPT ![r].at = place]

(* SUBAGENT_EXCLUDED_TOOLS: only the turn delegates and reports. *)
ToolsOf(r) ==
  CASE r = TurnRun     -> {"slack", "code", "report", "delegate"}
    [] r = KevintonRun -> {"slack"}
    [] OTHER           -> {"slack", "code", "stream"}

----------------------------------------------------------------------------
(* The model of a run asks for calls, answers, or its provider fails. *)

RunResponds(r) ==
  /\ runs[r].at = "asking"
  /\ \E tools \in (SUBSET ToolsOf(r)) \ {{}} :
       /\ toolUses + Cardinality(tools) <= MaxToolUses
       /\ "delegate" \in tools => \A s \in SubRuns : runs[s].at = "idle"
       /\ toolUses' = toolUses + Cardinality(tools)
       /\ toolCalls' = toolCalls \cup {[by |-> r, tool |-> t, at |-> "asked"] : t \in tools}
  /\ RunGoes(r, "calling")
  /\ UNCHANGED <<runDeps, program, haltAsked, slackMade, roundsDone, runEvents>>

(* The run is over; run_subagent's finally begins to merge what outlives it. *)
RunOver(r, place) ==
  runs' = [runs EXCEPT ![r].at = IF r \in SubRuns THEN "merging" ELSE place,
                       ![r].seen = IF r \in SubRuns THEN runDeps[TurnRun].keepalive ELSE FALSE]

RunAnswers(r) ==
  /\ runs[r].at = "asking"
  /\ RunOver(r, "answered")
  /\ UNCHANGED <<runDeps, toolCalls, program, haltAsked, slackMade, roundsDone, toolUses, runEvents>>

(* Mutant of ResumeFrom: the next attempt starts over. *)
ResumeFromNothing(r) == [of |-> r, rounds |-> 0]

(* What the next attempt of the run knows: the last checkpoint, once there is one. *)
ResumeFrom(r) == IF runDeps[r].kept = NoCheckpoint THEN [of |-> r, rounds |-> 0] ELSE runDeps[r].kept

(* An attempt fails; kevinton has no chain, and the turn's is ThreadMemory's. *)
AttemptFailed(r) ==
  /\ runs[r].at = "asking"
  /\ IF r \in SubRuns /\ runs[r].attempts + 1 < ChainLength
       THEN runs' = [runs EXCEPT ![r].attempts = @ + 1, ![r].knows = ResumeFrom(r)]
       ELSE RunOver(r, "failed")
  /\ RunEvent
  /\ UNCHANGED <<runDeps, toolCalls, program, haltAsked, slackMade, roundsDone, toolUses>>

(* Every call of the response is over: the next request, which the        *)
(* subagent's checkpoint hook sees first.                                  *)
NextRequest(r) ==
  /\ runs[r].at = "calling" /\ CallsOf(r) = {}
  /\ LET known == [runs[r].knows EXCEPT !.rounds = @ + 1]
     IN /\ runs' = [runs EXCEPT ![r].at = "asking", ![r].knows = known]
        /\ runDeps' = IF r \in SubRuns THEN [runDeps EXCEPT ![r].kept = known] ELSE runDeps
  /\ roundsDone' = [roundsDone EXCEPT ![r] = @ + 1]
  /\ UNCHANGED <<toolCalls, program, haltAsked, slackMade, toolUses, runEvents>>

----------------------------------------------------------------------------
(* The hooks of a tool call (_enforce_slack_budget, _subagent_hooks'       *)
(* guard, and the turn's before_tool).                                     *)

Refusable(c) == c \in toolCalls /\ c.at = "asked"
Drop(c)      == toolCalls' = toolCalls \ {c}
Starts(c)    == toolCalls' = (toolCalls \ {c}) \cup {[c EXCEPT !.at = "running"]}

(* Mutant of Payer: a subagent's calls count on its own deps. *)
PayerSelf(r) == r

(* spend: a subagent's calls count on the turn's deps. *)
Payer(r) == IF r \in SubRuns THEN TurnRun ELSE r

SlackCallBy(r) == slackMade' = [slackMade EXCEPT ![IF r = KevintonRun THEN r ELSE TurnRun] = @ + 1]

Spend(r, tool) == [runDeps EXCEPT ![Payer(r)].slack = @ + IF tool = "slack" THEN 1 ELSE 0]
OverBudget(r, tool) == tool = "slack" /\ runDeps[Payer(r)].slack >= SlackCallBudget

(* stopped_tool_call: after a report, the turn may only decline. *)
Stopped(r, tool) == runDeps[r].stopped /\ tool # "report"

(* A halted run: what has not begun never will; what runs is in a thread of  *)
(* its own, and may outlive the run.                                       *)
HaltRun(c) ==
  /\ RunGoes(c.by, "halting")
  /\ toolCalls' = {d \in toolCalls : d.by # c.by \/ d.at = "running"}

(* The turn's before_tool asks for the !stop before the other hooks. *)
TurnHalts(c) == c.by = TurnRun /\ haltAsked

CallRefused(c) ==
  /\ Refusable(c) /\ ~TurnHalts(c)
  /\ \/ Stopped(c.by, c.tool) /\ UNCHANGED runDeps
     \/ ~Stopped(c.by, c.tool) /\ OverBudget(c.by, c.tool) /\ runDeps' = Spend(c.by, c.tool)
     \/ /\ ~Stopped(c.by, c.tool) /\ ~OverBudget(c.by, c.tool)
        /\ c.by \in SubRuns /\ ~haltAsked /\ runDeps[c.by].used >= SubagentCallLimit
        /\ runDeps' = [Spend(c.by, c.tool) EXCEPT ![c.by].used = @ + 1]
  /\ Drop(c)
  /\ UNCHANGED <<runs, program, haltAsked, slackMade, roundsDone, toolUses, runEvents>>

CallHalted(c) ==
  /\ Refusable(c)
  /\ \/ TurnHalts(c) /\ UNCHANGED runDeps
     \/ /\ c.by \in SubRuns /\ haltAsked
        /\ ~Stopped(c.by, c.tool) /\ ~OverBudget(c.by, c.tool)
        /\ runDeps' = Spend(c.by, c.tool)
  /\ HaltRun(c)
  /\ UNCHANGED <<program, haltAsked, slackMade, roundsDone, toolUses, runEvents>>

(* The handler runs; delegating queues each task for a thread of the pool. *)
CallStarts(c) ==
  /\ Refusable(c) /\ ~TurnHalts(c)
  /\ ~Stopped(c.by, c.tool) /\ ~OverBudget(c.by, c.tool)
  /\ c.by \in SubRuns => ~haltAsked /\ runDeps[c.by].used < SubagentCallLimit
  /\ runDeps' = [Spend(c.by, c.tool) EXCEPT ![c.by].used = @ + IF c.by \in SubRuns THEN 1 ELSE 0]
  /\ Starts(c)
  /\ IF c.tool = "slack" THEN SlackCallBy(c.by) ELSE UNCHANGED slackMade
  /\ IF c.tool = "delegate"
       THEN \E tasks \in (SUBSET SubRuns) \ {{}} :
              runs' = [r \in AgentRuns |-> IF r \in tasks THEN [runs[r] EXCEPT !.at = "queued"] ELSE runs[r]]
       ELSE UNCHANGED runs
  /\ UNCHANGED <<program, haltAsked, roundsDone, toolUses, runEvents>>

----------------------------------------------------------------------------
(* What the calls do. *)

Ends(c, tool) == c \in toolCalls /\ c.at = "running" /\ c.tool = tool /\ Drop(c)

(* A Slack call returns. *)
SlackCallEnds(c) ==
  /\ Ends(c, "slack")
  /\ UNCHANGED <<runs, runDeps, program, haltAsked, slackMade, roundsDone, toolUses, runEvents>>

(* computer_stream_tool: the sandbox is kept up for the stream. *)
StreamStarts(c) ==
  /\ Ends(c, "stream")
  /\ runDeps' = [runDeps EXCEPT ![c.by].keepalive = TRUE]
  /\ RunEvent
  /\ UNCHANGED <<runs, program, haltAsked, slackMade, roundsDone, toolUses>>

(* report: a category that stops the request, or one that does not. *)
Reports(c) ==
  /\ Ends(c, "report")
  /\ \/ runDeps' = [runDeps EXCEPT ![c.by].stopped = TRUE] /\ RunEvent
     \/ UNCHANGED <<runDeps, runEvents>>
  /\ UNCHANGED <<runs, program, haltAsked, slackMade, roundsDone, toolUses>>

(* delegate_many: every subagent's result is there. *)
Delegated(c) ==
  /\ Ends(c, "delegate")
  /\ \A s \in SubRuns : runs[s].at \in {"idle", "over"}
  /\ UNCHANGED <<runs, runDeps, program, haltAsked, slackMade, roundsDone, toolUses, runEvents>>

(* code_mode: one program at a time has the sandbox, and its calls of      *)
(* coolton's tools go through the proxy, with the deps of its run.         *)
ProgramStarts(c) ==
  /\ c \in toolCalls /\ c.tool = "code" /\ c.at = "running" /\ program = NoProgram
  /\ program' = c.by
  /\ UNCHANGED <<runs, runDeps, toolCalls, haltAsked, slackMade, roundsDone, toolUses, runEvents>>

(* The proxy's do_POST: it has the abuse stop and the budget, not the !stop. *)
ProxyCall(r) ==
  /\ program = r /\ toolUses < MaxToolUses
  /\ toolUses' = toolUses + 1
  /\ \/ Stopped(r, "slack") /\ UNCHANGED <<runDeps, slackMade>>
     \/ /\ ~Stopped(r, "slack")
        /\ runDeps' = Spend(r, "slack")
        /\ IF OverBudget(r, "slack") THEN UNCHANGED slackMade ELSE SlackCallBy(r)
  /\ UNCHANGED <<runs, toolCalls, program, haltAsked, roundsDone, runEvents>>

ProgramEnds(c) ==
  /\ Ends(c, "code") /\ program = c.by
  /\ program' = NoProgram
  /\ UNCHANGED <<runs, runDeps, haltAsked, slackMade, roundsDone, toolUses, runEvents>>

----------------------------------------------------------------------------
(* Subagents begin and end. *)

(* subagent_deps: a copy of the turn's deps as they are when the task's    *)
(* thread gets to it.                                                      *)
SubagentDeps == [runDeps[TurnRun] EXCEPT !.kept = NoCheckpoint, !.used = 0]

RunSubagent(s) ==
  /\ runs[s].at = "queued"
  /\ RunGoes(s, "asking")
  /\ runDeps' = [runDeps EXCEPT ![s] = SubagentDeps]
  /\ UNCHANGED <<toolCalls, program, haltAsked, slackMade, roundsDone, toolUses, runEvents>>

RunHalted(r) ==
  /\ runs[r].at = "halting"
  /\ RunOver(r, "halted")
  /\ UNCHANGED <<runDeps, toolCalls, program, haltAsked, slackMade, roundsDone, toolUses, runEvents>>

(* _merge_back writes the larger of what it read and the subagent's own. *)
MergeBack(s) ==
  /\ runs[s].at = "merging"
  /\ runDeps' = [runDeps EXCEPT ![TurnRun].keepalive = runs[s].seen \/ runDeps[s].keepalive]
  /\ RunGoes(s, "over")
  /\ UNCHANGED <<toolCalls, program, haltAsked, slackMade, roundsDone, toolUses, runEvents>>

(* spawn_kevinton: after a turn that answered, on a copy of its deps. *)
SpawnKevinton ==
  /\ runs[TurnRun].at = "answered" /\ runs[KevintonRun].at = "idle"
  /\ RunGoes(KevintonRun, "asking")
  /\ runDeps' = [runDeps EXCEPT ![KevintonRun] = runDeps[TurnRun]]
  /\ slackMade' = [slackMade EXCEPT ![KevintonRun] = slackMade[TurnRun]]
  /\ UNCHANGED <<toolCalls, program, haltAsked, roundsDone, toolUses, runEvents>>

AskToStop ==
  /\ ~haltAsked /\ haltAsked' = TRUE
  /\ RunEvent
  /\ UNCHANGED <<runs, runDeps, toolCalls, program, slackMade, roundsDone, toolUses>>

SubagentNext ==
  \/ \E r \in AgentRuns : RunResponds(r) \/ RunAnswers(r) \/ AttemptFailed(r) \/ NextRequest(r)
                          \/ ProxyCall(r) \/ RunHalted(r)
  \/ \E c \in toolCalls : CallRefused(c) \/ CallHalted(c) \/ CallStarts(c) \/ SlackCallEnds(c)
                          \/ StreamStarts(c) \/ Reports(c) \/ Delegated(c)
                          \/ ProgramStarts(c) \/ ProgramEnds(c)
  \/ \E s \in SubRuns : RunSubagent(s) \/ MergeBack(s)
  \/ SpawnKevinton \/ AskToStop

SubagentSpec == SubagentInit /\ [][SubagentNext]_subagentVars

RunPlaces == {"idle", "queued", "asking", "calling", "halting", "merging", "over", "answered",
              "failed", "halted"}
Checkpoint == [of: AgentRuns \cup {"none"}, rounds: Nat]

RunState   == [at: RunPlaces, attempts: 0..ChainLength, knows: Checkpoint, seen: BOOLEAN]
RunDeps    == [stopped: BOOLEAN, keepalive: BOOLEAN, slack: Nat, kept: Checkpoint, used: Nat]

SubagentTypeOK ==
  /\ runs \in [AgentRuns -> RunState]
  /\ runDeps \in [AgentRuns -> RunDeps]
  /\ toolCalls \subseteq [by: AgentRuns, tool: UNION {ToolsOf(r) : r \in AgentRuns},
                          at: {"asked", "running"}]
  /\ program \in AgentRuns \cup {NoProgram}
  /\ haltAsked \in BOOLEAN
  /\ slackMade \in [{TurnRun, KevintonRun} -> Nat]
  /\ roundsDone \in [AgentRuns -> Nat]
  /\ toolUses \in 0..MaxToolUses
  /\ runEvents \in 0..MaxRunEvents

----------------------------------------------------------------------------
(* A turn makes at most SLACK_CALL_BUDGET Slack calls, whichever of its    *)
(* runs makes them, directly or from a program, however many at once, and  *)
(* even after the run they belong to was halted; so does kevinton with what *)
(* the turn had made before it.                                            *)
BudgetIsShared == \A r \in {TurnRun, KevintonRun} : slackMade[r] <= SlackCallBudget

(* A subagent whose provider fails goes on from its own task's messages,   *)
(* with every response whose calls are over, never from another's.         *)
ProgressIsKept ==
  \A s \in SubRuns : runs[s].at \in {"asking", "calling"} =>
    runs[s].knows = [of |-> s, rounds |-> roundsDone[s]]
=============================================================================
