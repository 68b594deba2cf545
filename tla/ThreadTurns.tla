---------------------------- MODULE ThreadTurns ----------------------------
(***************************************************************************)
(* The turns of one conversation thread (a Slack thread or a web           *)
(* conversation): the event handlers that either start a turn or steer the *)
(* message into the turn in flight, the turn pipeline run_agent_turn, and  *)
(* the per-thread stores both use (active_runs, steering_store, stop_store,*)
(* inflight_runs, ban_store, the stored history).                          *)
(*                                                                         *)
(* Every store of the code is a dictionary keyed by (channel, thread), so  *)
(* threads do not interact and one of them is modelled.  A handler runs on *)
(* a thread of its own; each store operation holds that store's lock, so   *)
(* one action here is at most one operation of one store.                  *)
(***************************************************************************)
EXTENDS Naturals, FiniteSets, SequencesExt

CONSTANTS
  Messages,    (* the messages people (and coolton's own wake-ups) send      *)
  Users,
  Sender,      (* who sent each message                                      *)
  Early,       (* messages that can arrive while coolton is still starting:  *)
               (* waits and job wake-ups, the code channels app's mentions   *)
  Resumer,     (* the background thread that re-runs an orphaned turn        *)
  None,
  Web,         (* TRUE: the web UI's hooks; FALSE: Slack's                   *)
  DiskFails,   (* TRUE: writing inflight_runs.json may raise                 *)
  RunsGoStale, (* TRUE: a run may outlive active_runs._STALE_AFTER_SECONDS   *)
  MaxTurns,    (* bound: turns in flight at once                             *)
  MaxDepth,    (* turn._MAX_STRANDED_RECURSION_DEPTH                         *)
  MaxRounds,   (* bound: tool rounds of a turn                               *)
  MaxTries,    (* bound: provider attempts of a turn                         *)
  MaxCrashes,  (* bound: process deaths                                      *)
  MaxStops,    (* bound: !stop requests                                      *)
  MaxBans      (* bound: !ban and !unban commands                            *)

ASSUME ThreadTurnsAssumption ==
  /\ Sender \in [Messages -> Users]
  /\ Early \subseteq Messages
  /\ Resumer \notin Messages
  /\ None \notin Messages \cup {Resumer}
  /\ \A msgs \in SUBSET Messages : None # msgs
  /\ None \notin [prompt: Seq(Messages), user: Users \cup {None}]
  /\ Web \in BOOLEAN
  /\ DiskFails \in BOOLEAN
  /\ RunsGoStale \in BOOLEAN
  /\ {MaxTurns, MaxTries} \subseteq Nat \ {0}
  /\ {MaxDepth, MaxRounds, MaxCrashes, MaxStops, MaxBans} \subseteq Nat

Workers == Messages \cup {Resumer}

VARIABLES
  proc,       (* the process: "up", "down", "booting" (before the resume)    *)
  pc,         (* where each worker's code stands                             *)
  turn,       (* the run_agent_turn frame each worker is in                  *)
  active,     (* active_runs: the worker whose start time is the mark        *)
  queue,      (* steering_store: the queued messages, in order               *)
  halted,     (* stop_store: runs whose run_started_at precedes the stop     *)
  record,     (* inflight_runs.json: the recorded turn                       *)
  checkpoint, (* inflight_checkpoints: messages its last request contained   *)
  banned,     (* ban_store                                                   *)
  history     (* conversation_store: messages the stored history contains    *)

(* History variables: read by no action's guard. *)
VARIABLES
  settled,    (* messages that got a reply, an error, or a deliberate skip   *)
  lost,       (* messages given up on                                        *)
  told,       (* workers whose turn was live at the latest !stop             *)
  mishaps,    (* what went wrong so far: "overlap", two turns at once;       *)
              (* "resume", start-up resumed a turn that was running;         *)
              (* "crossed", a turn wrote its checkpoint over the one start-up *)
              (* was about to read; "torn", a death inside record_start;     *)
              (* "disk", a write that raised                                 *)
  spent       (* the bounded events so far                                   *)

memory  == <<active, queue, halted>>
disk    == <<record, checkpoint, banned, history>>
ghosts  == <<settled, lost, told, mishaps, spent>>
vars    == <<proc, pc, turn, memory, disk, ghosts>>

----------------------------------------------------------------------------
(* Where a worker can stand. *)

HandlerPC == {"sent", "ignored", "queueing", "queued"}
StartPC   == {"loading", "starting", "entering", "recording", "unlinking"}
RunPC     == {"setup", "request", "response", "tool", "saving"}
EndPC     == {"unmark", "unrecord", "forgetting", "drain"}
PCs       == HandlerPC \cup StartPC \cup RunPC \cup EndPC \cup {"done", "dead"}

(* A worker past the decision to start a turn and before its last drain. *)
LivePC    == StartPC \cup RunPC \cup EndPC
(* A turn between mark_run_started and mark_run_finished. *)
MarkedPC  == {"recording", "unlinking", "unmark"} \cup RunPC
(* A turn whose record is in inflight_runs.json. *)
RecordedPC == {"unlinking", "unmark", "unrecord"} \cup RunPC
(* Holders of inflight_runs._lock between the two files they write.         *)
LockPC    == {"unlinking", "forgetting"}
(* A turn inside run_agent. *)
AgentPC   == {"request", "response", "tool"}

Live == {w \in Workers : pc[w] \in LivePC}

(* One run_agent_turn frame.  prompt: the messages its text joins; base:    *)
(* the stored history it was given; seen: the messages in the model's       *)
(* context; safe: deps.last_attempt_messages.                               *)
Turn == [prompt: Seq(Messages), user: Users \cup {None}, base: SUBSET Messages,
         seen: SUBSET Messages, safe: SUBSET Messages,
         depth: 0..MaxDepth, rounds: 0..MaxRounds, tries: 0..MaxTries]

NewTurn(prompt, user, depth) ==
  [prompt |-> prompt, user |-> user, base |-> {}, seen |-> {}, safe |-> {},
   depth |-> depth, rounds |-> 0, tries |-> 0]

NoTurn == NewTurn(<<>>, None, 0)

(* The messages worker w's turn has taken: what is in the model's context   *)
(* beyond the stored history, or (before there is one) what it will be put. *)
Custody(w) == IF pc[w] \in {"loading", "starting"} /\ turn[w].seen = {}
                THEN ToSet(turn[w].prompt)
                ELSE turn[w].seen \ turn[w].base

InHand == UNION {Custody(w) : w \in Live}

Goto(w, l) == pc' = [pc EXCEPT ![w] = l]

Return(w) ==
  /\ Goto(w, "done")
  /\ turn' = [turn EXCEPT ![w] = NoTurn]

----------------------------------------------------------------------------
(* The stores' operations. *)

IsBanned(u)  == u \in banned
IsRunActive  == active # None

(* Mutant of MarkRunFinished: the mark is left to go stale. *)
LeaveMark(w) == active' = active

MarkRunStarted(w)  == active' = w
MarkRunFinished(w) == active' = IF active = w THEN None ELSE active

(* Mutant of QueueSteeringMessage: the newest message goes first. *)
QueueAtFront(m) == queue' = <<m>> \o queue

QueueSteeringMessage(m) == queue' = Append(queue, m)

(* Mutant of IsNextSenderRun: every queued message goes into one turn. *)
IsWholeQueue(n) == n = Len(queue) /\ n > 0

(* take_next_sender_messages takes the first n: the longest run of messages *)
(* from the sender of the first one.                                        *)
IsNextSenderRun(n) ==
  /\ n \in 1..Len(queue)
  /\ \A i \in 1..n : Sender[queue[i]] = Sender[queue[1]]
  /\ n < Len(queue) => Sender[queue[n + 1]] # Sender[queue[1]]

(* A stop's time is later than run_started_at for the runs already in       *)
(* run_agent; a run that reaches run_agent afterwards takes a later time.   *)
RequestStop == halted' = {w \in Workers : pc[w] \in AgentPC}
StopRequestedFor(w) == w \in halted

(* inflight_runs' lock is held by nobody.  record_start and record_finished *)
(* hold it over two writes, and the process can die between them.           *)
LockFree == \A w \in Workers : pc[w] \notin LockPC

RecordStart(w)   == record' = [prompt |-> turn[w].prompt, user |-> turn[w].user]
RecordFinished   == record' = None
(* Mutant of UnlinkCheckpoint: the older turn's checkpoint stays. *)
KeepCheckpoint == checkpoint' = checkpoint

UnlinkCheckpoint == checkpoint' = None

(* The messages the files on disk could resume. *)
Orphaned ==
  IF record = None THEN {}
  ELSE ToSet(record.prompt) \cup (IF checkpoint = None THEN {} ELSE checkpoint)

RecordedTurnIsLive ==
  \E w \in Live : pc[w] \in RecordedPC /\ turn[w].prompt = record.prompt

(* Mutant of LoadCheckpoint: a resumed turn starts over. *)
LoadNothing == {}

LoadCheckpoint == IF checkpoint = None THEN {} ELSE checkpoint

(* The checkpoint of the record start-up has taken and has still to read.   *)
ToLoad == IF pc[Resumer] = "loading" /\ checkpoint # None THEN checkpoint ELSE {}

(* A turn drops or replaces the checkpoint, read or not.                    *)
LoseUnread(kept) == lost' = lost \cup (ToLoad \ (InHand \cup settled \cup kept))

(* A new turn is recorded and an older turn's checkpoint is still there.    *)
RecordIsTorn ==
  \E w \in Workers :
    /\ pc[w] = "unlinking"
    /\ checkpoint # None
    /\ ~(ToSet(turn[w].prompt) \subseteq checkpoint)

SaveCheckpoint(msgs) ==
  checkpoint' = IF record = None THEN checkpoint ELSE msgs

----------------------------------------------------------------------------
(* The handlers: message.py, app_mentioned.py, web/runner.submit_message,   *)
(* and the wake-ups of the background-job poller and the scheduler.         *)

CanArrive(m) ==
  /\ pc[m] = "sent"
  /\ proc = "up" \/ (proc = "booting" /\ m \in Early)

Ignore(m) ==
  /\ CanArrive(m)
  /\ IsBanned(Sender[m])
  /\ Goto(m, "ignored")
  /\ UNCHANGED <<proc, turn, memory, disk, ghosts>>

(* steered_into_active_run, when is_run_active says yes ... *)
Steer(m) ==
  /\ CanArrive(m)
  /\ ~IsBanned(Sender[m])
  /\ IsRunActive
  /\ Goto(m, "queueing")
  /\ UNCHANGED <<proc, turn, memory, disk, ghosts>>

(* ... and the queueing itself, a second lock later. *)
QueueSteering(m) ==
  /\ pc[m] = "queueing"
  /\ QueueSteeringMessage(m)
  /\ Goto(m, "queued")
  /\ UNCHANGED <<proc, turn, active, halted, disk, ghosts>>

(* The handler found no active run, or one so old that is_run_active drops  *)
(* its mark: it goes on to start a turn.                                    *)
Start(m) ==
  /\ CanArrive(m)
  /\ ~IsBanned(Sender[m])
  /\ \/ ~IsRunActive
     \/ RunsGoStale
  /\ Cardinality(Live) < MaxTurns
  /\ active' = None
  /\ turn' = [turn EXCEPT ![m] = NewTurn(<<m>>, Sender[m], 0)]
  /\ Goto(m, "starting")
  /\ mishaps' = IF Live = {} THEN mishaps ELSE mishaps \cup {"overlap"}
  /\ UNCHANGED <<proc, queue, halted, disk, settled, lost, told, spent>>

----------------------------------------------------------------------------
(* run_agent_turn. *)

(* Mutant of ReadHistory: a drained turn gets no history. *)
ReadHistoryOnce(w) ==
  /\ pc[w] = "starting"
  /\ \E h \in {IF turn[w].depth = 0 THEN history ELSE {}} :
       turn' = [turn EXCEPT ![w].base = h,
                            ![w].seen = IF @ = {} THEN h \cup ToSet(turn[w].prompt) ELSE @]
  /\ Goto(w, "entering")
  /\ UNCHANGED <<proc, memory, disk, ghosts>>

(* conversation_store.get_history, the last step before the call.           *)
ReadHistory(w) ==
  /\ pc[w] = "starting"
  /\ turn' = [turn EXCEPT ![w].base = history,
                          ![w].seen = IF @ = {} THEN history \cup ToSet(turn[w].prompt)
                                                ELSE @]
  /\ Goto(w, "entering")
  /\ UNCHANGED <<proc, memory, disk, ghosts>>

(* Downloading the message's images raises: the handler reports it.         *)
HandlerFails(m) ==
  /\ ~Web
  /\ pc[m] = "starting"
  /\ turn[m].depth = 0
  /\ settled' = settled \cup Custody(m)
  /\ Return(m)
  /\ UNCHANGED <<proc, memory, disk, lost, told, mishaps, spent>>

(* A banned sender's turn returns at once: no mark, no record, no drain.    *)
Refuse(w) ==
  /\ pc[w] = "entering"
  /\ IsBanned(turn[w].user)
  /\ settled' = settled \cup Custody(w)
  /\ Return(w)
  /\ UNCHANGED <<proc, memory, disk, lost, told, mishaps, spent>>

(* Mutant of Mark: a turn that finds another one marked gives way to it. *)
MarkUnlessActive(w) ==
  /\ pc[w] = "entering"
  /\ ~IsBanned(turn[w].user)
  /\ \/ ~IsRunActive /\ MarkRunStarted(w) /\ Goto(w, "recording") /\ UNCHANGED turn
     \/ IsRunActive /\ Return(w) /\ UNCHANGED active
  /\ UNCHANGED <<proc, queue, halted, disk, ghosts>>

Mark(w) ==
  /\ pc[w] = "entering"
  /\ ~IsBanned(turn[w].user)
  /\ MarkRunStarted(w)
  /\ Goto(w, "recording")
  /\ UNCHANGED <<proc, turn, queue, halted, disk, ghosts>>

(* record_start.  The record of an orphaned turn that was not resumed yet   *)
(* is overwritten.                                                          *)
Record(w) ==
  /\ pc[w] = "recording"
  /\ LockFree
  /\ RecordStart(w)
  /\ Goto(w, "unlinking")
  /\ lost' = IF proc = "up" THEN lost ELSE lost \cup (Orphaned \ (InHand \cup settled \cup ToLoad))
  /\ UNCHANGED <<proc, turn, memory, checkpoint, banned, history, settled, told, mishaps, spent>>

(* The rest of record_start: an older turn's checkpoint is dropped, also    *)
(* one that start-up is about to read.                                      *)
StartClean(w) ==
  /\ pc[w] = "unlinking"
  /\ UnlinkCheckpoint
  /\ LoseUnread({})
  /\ Goto(w, "setup")
  /\ UNCHANGED <<proc, turn, memory, record, banned, history, settled, told, mishaps, spent>>

(* record_start comes before the try block: when it raises, no finally      *)
(* block clears the mark.  The handler reports the failure; the thread that *)
(* resumes a Slack turn has nobody to.                                      *)
RecordFails(w) ==
  /\ pc[w] = "recording"
  /\ DiskFails
  /\ LockFree
  /\ IF w = Resumer /\ ~Web
       THEN lost' = lost \cup (Custody(w) \ settled) /\ UNCHANGED settled
       ELSE settled' = settled \cup Custody(w) /\ UNCHANGED lost
  /\ mishaps' = mishaps \cup {"disk"}
  /\ Return(w)
  /\ UNCHANGED <<proc, memory, disk, told, spent>>

(* Mutant of RunAgent: the run keeps its thread's older start time. *)
RunAgentKeepsStart(w) ==
  /\ pc[w] = "setup"
  /\ turn' = [turn EXCEPT ![w].safe = turn[w].seen]
  /\ Goto(w, "request")
  /\ UNCHANGED <<proc, memory, disk, ghosts>>

(* run_agent: only now is deps.run_started_at stamped.                      *)
RunAgent(w) ==
  /\ pc[w] = "setup"
  /\ halted' = halted \ {w}
  /\ turn' = [turn EXCEPT ![w].safe = turn[w].seen]
  /\ Goto(w, "request")
  /\ UNCHANGED <<proc, active, queue, disk, ghosts>>

(* Before every model request: the checkpoint hook.                         *)
Request(w) ==
  /\ pc[w] = "request"
  /\ LockFree
  /\ SaveCheckpoint(turn[w].seen)
  /\ IF pc[Resumer] = "loading" /\ record # None
       THEN LoseUnread(turn[w].seen) /\ mishaps' = mishaps \cup {"crossed"}
       ELSE UNCHANGED <<lost, mishaps>>
  /\ Goto(w, "response")
  /\ UNCHANGED <<proc, turn, memory, record, banned, history, settled, told, spent>>

(* The model answers with tool calls: before_tool_execute.                  *)
CallTool(w) ==
  /\ pc[w] = "response"
  /\ turn[w].rounds < MaxRounds
  /\ ~StopRequestedFor(w)
  /\ turn' = [turn EXCEPT ![w].safe = turn[w].seen, ![w].rounds = @ + 1]
  /\ Goto(w, "tool")
  /\ UNCHANGED <<proc, memory, disk, ghosts>>

(* Mutant of ToolReturns: the queued messages are folded in and left queued. *)
ToolReturnsPeeks(w) ==
  /\ pc[w] = "tool"
  /\ turn' = [turn EXCEPT ![w].seen = @ \cup ToSet(queue)]
  /\ Goto(w, "request")
  /\ UNCHANGED <<proc, memory, disk, ghosts>>

(* The tool returned: after_tool_execute folds every queued message into a  *)
(* string result; any other result leaves them queued.                      *)
ToolReturns(w) ==
  /\ pc[w] = "tool"
  /\ \/ /\ turn' = [turn EXCEPT ![w].seen = @ \cup ToSet(queue)]
        /\ queue' = <<>>
     \/ UNCHANGED <<turn, queue>>
  /\ Goto(w, "request")
  /\ UNCHANGED <<proc, active, halted, disk, ghosts>>

(* !stop: seen by Slack only before a tool, by the web UI at every response. *)
(* The plan says the turn was stopped and what was done so far is stored.   *)
Halt(w) ==
  /\ pc[w] = "response"
  /\ StopRequestedFor(w)
  /\ turn' = [turn EXCEPT ![w].safe = turn[w].seen]
  /\ settled' = settled \cup Custody(w)
  /\ Goto(w, "saving")
  /\ UNCHANGED <<proc, memory, disk, lost, told, mishaps, spent>>

(* The skip tool (keeping the work so far, or as if the turn never was) and *)
(* the wait tool end the turn without a reply.                              *)
Skip(w) ==
  /\ pc[w] = "tool"
  /\ \E kept \in {turn[w].base, turn[w].safe} :
       turn' = [turn EXCEPT ![w].seen = kept]
  /\ settled' = settled \cup Custody(w)
  /\ Goto(w, "saving")
  /\ UNCHANGED <<proc, memory, disk, lost, told, mishaps, spent>>

(* A provider or a tool raised, and the chain tries again from              *)
(* deps.last_attempt_messages.                                              *)
AttemptFails(w) ==
  /\ pc[w] \in {"response", "tool"}
  /\ turn[w].tries + 1 < MaxTries
  /\ turn' = [turn EXCEPT ![w].seen = turn[w].safe, ![w].tries = @ + 1]
  /\ lost' = lost \cup (turn[w].seen \ (turn[w].safe \cup settled))
  /\ Goto(w, "request")
  /\ UNCHANGED <<proc, memory, disk, settled, told, mishaps, spent>>

(* A bad tag directive, every provider failing, a fatal error, the reply    *)
(* not going out or its history not being stored: the thread gets an error. *)
TurnFails(w) ==
  /\ pc[w] \in RunPC \ {"request"}
  /\ settled' = settled \cup Custody(w)
  /\ Goto(w, "unmark")
  /\ UNCHANGED <<proc, turn, memory, disk, lost, told, mishaps, spent>>

(* A text-only response is the final reply: it is posted, then stored.      *)
PostReply(w) ==
  /\ pc[w] = "response"
  /\ ~(Web /\ StopRequestedFor(w))
  /\ settled' = settled \cup Custody(w)
  /\ Goto(w, "saving")
  /\ UNCHANGED <<proc, turn, memory, disk, lost, told, mishaps, spent>>

SetHistory(w) ==
  /\ pc[w] = "saving"
  /\ history' = turn[w].seen
  /\ Goto(w, "unmark")
  /\ UNCHANGED <<proc, turn, memory, record, checkpoint, banned, ghosts>>

(* The finally block: three stores, one after the other.                    *)
Unmark(w) ==
  /\ pc[w] = "unmark"
  /\ MarkRunFinished(w)
  /\ told' = told \ {w}
  /\ Goto(w, "unrecord")
  /\ UNCHANGED <<proc, turn, queue, halted, disk, settled, lost, mishaps, spent>>

Unrecord(w) ==
  /\ pc[w] = "unrecord"
  /\ LockFree
  /\ RecordFinished
  /\ Goto(w, "forgetting")
  /\ UNCHANGED <<proc, turn, memory, checkpoint, banned, history, ghosts>>

(* Mutant of Forget: the turn ends without looking at the queue. *)
ForgetAndLeave(w) ==
  /\ pc[w] = "forgetting"
  /\ UnlinkCheckpoint
  /\ LoseUnread({})
  /\ Return(w)
  /\ UNCHANGED <<proc, memory, record, banned, history, settled, told, mishaps, spent>>

Forget(w) ==
  /\ pc[w] = "forgetting"
  /\ UnlinkCheckpoint
  /\ LoseUnread({})
  /\ Goto(w, "drain")
  /\ UNCHANGED <<proc, turn, memory, record, banned, history, settled, told, mishaps, spent>>

(* record_finished raising skips the rest of the finally block.             *)
UnrecordFails(w) ==
  /\ pc[w] = "unrecord"
  /\ DiskFails
  /\ LockFree
  /\ record # None
  /\ mishaps' = mishaps \cup {"disk"}
  /\ Return(w)
  /\ UNCHANGED <<proc, memory, disk, settled, lost, told, spent>>

DrainNothing(w) ==
  /\ pc[w] = "drain"
  /\ queue = <<>>
  /\ Return(w)
  /\ UNCHANGED <<proc, memory, disk, ghosts>>

(* The next sender's messages get a turn of their own, one frame deeper.    *)
DrainNext(w) ==
  /\ pc[w] = "drain"
  /\ turn[w].depth < MaxDepth
  /\ \E n \in 1..Len(queue) :
       /\ IsNextSenderRun(n)
       /\ turn' = [turn EXCEPT ![w] = NewTurn(SubSeq(queue, 1, n), Sender[queue[n]], @.depth + 1)]
       /\ queue' = SubSeq(queue, n + 1, Len(queue))
  /\ Goto(w, "starting")
  /\ UNCHANGED <<proc, active, halted, disk, ghosts>>

DrainTooDeep(w) ==
  /\ pc[w] = "drain"
  /\ queue # <<>>
  /\ turn[w].depth >= MaxDepth
  /\ lost' = lost \cup ToSet(queue)
  /\ queue' = <<>>
  /\ Return(w)
  /\ UNCHANGED <<proc, active, halted, disk, settled, told, mishaps, spent>>

----------------------------------------------------------------------------
(* Commands, and the process's death and start-up. *)

Stop ==
  /\ proc = "up"
  /\ spent.stops < MaxStops
  /\ RequestStop
  /\ told' = {w \in Workers : pc[w] \in MarkedPC}
  /\ spent' = [spent EXCEPT !.stops = @ + 1]
  /\ UNCHANGED <<proc, pc, turn, active, queue, disk, settled, lost, mishaps>>

SetBan ==
  /\ proc = "up"
  /\ spent.bans < MaxBans
  /\ \E u \in Users : banned' \in {banned \cup {u}, banned \ {u}}
  /\ spent' = [spent EXCEPT !.bans = @ + 1]
  /\ UNCHANGED <<proc, pc, turn, memory, record, checkpoint, history, settled, lost, told, mishaps>>

(* SIGTERM or a crash: no finally block runs, memory is gone, files stay.   *)
Crash ==
  /\ proc # "down"
  /\ spent.crashes < MaxCrashes
  /\ proc' = "down"
  /\ pc' = [w \in Workers |-> IF w \in Live \/ pc[w] = "queueing" THEN "dead" ELSE pc[w]]
  /\ lost' = lost \cup ((InHand \cup ToSet(queue) \cup {m \in Messages : pc[m] = "queueing"} \cup ToLoad)
                           \ (Orphaned \cup settled))
  /\ turn' = [w \in Workers |-> NoTurn]
  /\ active' = None
  /\ queue' = <<>>
  /\ halted' = {}
  /\ told' = {}
  /\ spent' = [spent EXCEPT !.crashes = @ + 1]
  /\ mishaps' = IF RecordIsTorn THEN mishaps \cup {"torn"} ELSE mishaps
  /\ UNCHANGED <<disk, settled>>

Boot ==
  /\ proc = "down"
  /\ proc' = "booting"
  /\ UNCHANGED <<pc, turn, memory, disk, ghosts>>

(* resume_orphaned_runs empties the store under its lock ...                *)
PopAll ==
  /\ proc = "booting"
  /\ pc[Resumer] # "loading"
  /\ LockFree
  /\ record' = None
  /\ IF record = None
       THEN proc' = "up" /\ UNCHANGED <<pc, turn, lost, mishaps>>
       ELSE /\ turn' = [turn EXCEPT ![Resumer] = NewTurn(record.prompt, record.user, 0)]
            /\ Goto(Resumer, "loading")
            /\ lost' = lost \ ToSet(record.prompt)
            /\ mishaps' = mishaps \cup (IF Live = {} THEN {} ELSE {"overlap"})
                               \cup (IF RecordedTurnIsLive THEN {"resume"} ELSE {})
            /\ UNCHANGED proc
  /\ UNCHANGED <<memory, checkpoint, banned, history, settled, told, spent>>

(* ... reads the turn's checkpoint without it, as it then is, and starts the *)
(* thread that re-runs the turn from there.                                 *)
Resume ==
  /\ pc[Resumer] = "loading"
  /\ proc' = "up"
  /\ turn' = [turn EXCEPT ![Resumer].seen = LoadCheckpoint]
  /\ Goto(Resumer, "starting")
  /\ lost' = IF checkpoint = None THEN lost
             ELSE (lost \ checkpoint)
                    \cup (ToSet(turn[Resumer].prompt) \ (checkpoint \cup settled))
  /\ UNCHANGED <<memory, disk, settled, told, mishaps, spent>>

----------------------------------------------------------------------------
Init ==
  /\ proc = "up"
  /\ pc = [w \in Workers |-> IF w = Resumer THEN "done" ELSE "sent"]
  /\ turn = [w \in Workers |-> NoTurn]
  /\ active = None
  /\ queue = <<>>
  /\ halted = {}
  /\ record = None
  /\ checkpoint = None
  /\ banned = {}
  /\ history = {}
  /\ settled = {}
  /\ lost = {}
  /\ told = {}
  /\ mishaps = {}
  /\ spent = [crashes |-> 0, stops |-> 0, bans |-> 0]

Arrival(m) == Ignore(m) \/ Steer(m) \/ Start(m)

TurnStep(w) ==
  \/ ReadHistory(w) \/ Refuse(w) \/ Mark(w) \/ Record(w) \/ StartClean(w) \/ RecordFails(w)
  \/ RunAgent(w) \/ Request(w) \/ CallTool(w) \/ ToolReturns(w) \/ Halt(w) \/ Skip(w)
  \/ AttemptFails(w) \/ TurnFails(w) \/ PostReply(w)
  \/ SetHistory(w) \/ Unmark(w) \/ Unrecord(w) \/ Forget(w) \/ UnrecordFails(w)
  \/ DrainNothing(w) \/ DrainNext(w) \/ DrainTooDeep(w)

Next ==
  \/ \E m \in Messages : Arrival(m) \/ QueueSteering(m) \/ HandlerFails(m)
  \/ \E w \in Workers : TurnStep(w)
  \/ Stop \/ SetBan \/ Crash \/ Boot \/ PopAll \/ Resume

(* A handler's thread keeps running: every wait in a turn (a model request, *)
(* a tool, a Slack call) has a timeout.  Nobody has to send, stop or crash. *)
Fairness ==
  /\ \A m \in Messages : WF_vars(QueueSteering(m))
  /\ \A w \in Workers : WF_vars(TurnStep(w))
  /\ WF_vars(Boot) /\ WF_vars(PopAll) /\ WF_vars(Resume)

Spec == Init /\ [][Next]_vars /\ Fairness

----------------------------------------------------------------------------
(* Properties. *)

TypeOK ==
  /\ proc \in {"up", "down", "booting"}
  /\ pc \in [Workers -> PCs]
  /\ turn \in [Workers -> Turn]
  /\ active \in Workers \cup {None}
  /\ queue \in Seq(Messages)
  /\ halted \in SUBSET Workers
  /\ record \in [prompt: Seq(Messages), user: Users \cup {None}] \cup {None}
  /\ checkpoint \in (SUBSET Messages) \cup {None}
  /\ banned \in SUBSET Users
  /\ history \in SUBSET Messages
  /\ settled \in SUBSET Messages
  /\ lost \in SUBSET Messages
  /\ told \in SUBSET Workers
  /\ mishaps \in SUBSET {"overlap", "resume", "crossed", "torn", "disk"}
  /\ spent \in [crashes: 0..MaxCrashes, stops: 0..MaxStops, bans: 0..MaxBans]

(* active_runs' mark never outlives its run: a mark always belongs to a     *)
(* turn that is still between mark_run_started and mark_run_finished.  A    *)
(* leftover mark would steer every later message into a queue nobody reads. *)
(* It holds unless the in-flight record could not be written.               *)
MarkIsOwned == "disk" \notin mishaps /\ active # None => pc[active] \in MarkedPC

(* Start-up took up what a running turn had: it found that turn's record, or *)
(* its checkpoint, beside the record of another one whose end was not       *)
(* written or in place of the one that belonged to the record it took.      *)
TwiceInHand == \/ {"resume", "crossed"} \cap mishaps # {}
               \/ {"overlap", "disk"} \subseteq mishaps

(* No message is in two places: not queued twice, not queued once a turn    *)
(* has it, and not in the hands of two turns, unless start-up resumed a     *)
(* turn that was running.                                                   *)
OnePlaceEach ==
  /\ \A i, j \in DOMAIN queue : queue[i] = queue[j] => i = j
  /\ InHand \cap ToSet(queue) = {}
  /\ ~TwiceInHand => \A v, w \in Live : v # w => Custody(v) \cap Custody(w) \subseteq settled

(* Every message that reached a handler is accounted for: settled, given up *)
(* on, queued, in a live turn, or in the files a restart resumes from: the  *)
(* record that pop_all takes and the checkpoint that is read after it.      *)
NothingVanishes ==
  \A m \in Messages :
    \/ pc[m] \in {"sent", "ignored", "queueing"}
    \/ m \in settled \cup lost \cup ToSet(queue) \cup InHand
    \/ proc # "up" /\ m \in Orphaned \cup ToLoad

(* A drained turn answers one sender: whoever it runs as (user_id) wrote    *)
(* every message of its prompt.                                             *)
OneSenderPerTurn ==
  \A w \in Live : \A m \in ToSet(turn[w].prompt) : Sender[m] = turn[w].user

(* A death at any point of a turn between record_start and record_finished  *)
(* resumes exactly that turn: the record is its own and, once record_start  *)
(* is over, the checkpoint, if there is one, contains its prompt.           *)
CrashResumesTurn ==
  mishaps = {} =>
    \A w \in Workers : pc[w] \in RecordedPC =>
      /\ record = [prompt |-> turn[w].prompt, user |-> turn[w].user]
      /\ checkpoint # None /\ pc[w] # "unlinking" => ToSet(turn[w].prompt) \subseteq checkpoint

(* A turn is halted only by a !stop given while it was live itself, never   *)
(* by one meant for an earlier turn of the thread.                          *)
StopHitsLiveTurns ==
  \A w \in Workers : pc[w] \in AgentPC /\ w \in halted => w \in told

(* Storing a turn's history forgets a message an earlier turn stored only   *)
(* when turns overlapped or a write failed, and then only what was stored   *)
(* after the turn read the history: of two parallel saves the later one     *)
(* wins.  A resumed turn goes on from its checkpoint instead.               *)
Forgets(w, m) == pc[w] = "saving" /\ pc'[w] # "saving" /\ (m \in turn[w].base => w = Resumer)

HistoryGrows ==
  [][\A m \in history \ history' : mishaps # {} /\ \E w \in Workers : Forgets(w, m)]_history

(* The queue, the turns, their drains and the files of inflight_runs keep   *)
(* the promise of Inbox: first come first taken, by one turn, to an         *)
(* outcome, over deaths and restarts.                                       *)
Line == INSTANCE Inbox WITH waiting <- queue, taken <- InHand, answered <- settled, dropped <- lost,
                            saved <- IF proc = "up" THEN {} ELSE Orphaned \cup ToLoad
ImplementsInbox == Line!Spec

(* A message queued while a turn is live is taken by some turn (or given up *)
(* on): the turn's own finally drains it at the latest.                     *)
SteeredIsTaken ==
  \A m \in Messages :
    (m \in ToSet(queue) /\ \E w \in Live : ~IsBanned(turn[w].user)) ~> m \notin ToSet(queue)

(* A message a handler starts a turn for gets an outcome.                   *)
StartedIsSettled ==
  \A m \in Messages : pc[m] = "starting" ~> m \in settled \cup lost

(* steering_store: anything still queued when the turn ends gets a turn of  *)
(* its own.                                                                 *)
NothingStranded == queue # <<>> => Live # {}

(* plan_block.before_tool: a failed attempt keeps everything through the    *)
(* last completed tool round-trip.                                          *)
FoldedIsKept ==
  [][\A w \in Workers : pc[w] = "response" /\ pc'[w] = "request" => turn[w].seen \subseteq turn'[w].seen]_vars

(* inflight_runs.pop_all: every record left at start-up is an orphan.       *)
OnlyOrphansResume == "resume" \notin mishaps

============================================================================
