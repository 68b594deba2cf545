-------------------------- MODULE WebConversation --------------------------
(***************************************************************************)
(* One conversation of the web UI: its append-only log and index entry     *)
(* (web/conversation_log.py), the requests that write to it                *)
(* (web/conversations.py), the turns that run in it (web/runner.py,        *)
(* agent/surfaces/web.py) and the browsers that follow it over SSE.        *)
(*                                                                         *)
(* append_event writes an event under the conversation's lock and tells    *)
(* the subscribers after it let that lock go.  What happens inside a turn  *)
(* is ThreadTurns'; here it is the events it leaves in the log.            *)
(***************************************************************************)
EXTENDS Naturals, Sequences, FiniteSets, SequencesExt

CONSTANTS
  WebMessages,   (* POSTs of the owner                                       *)
  WebWorkers,    (* the executor's threads, and what is submitted to them    *)
  Streams,       (* browser tabs                                             *)
  WebWaker,      (* a wake-up's thread                                       *)
  Repairer,      (* the web server's lifespan                                *)
  MaxWebEvents   (* bound: connections of tabs, titles changed by hand,      *)
                 (* deletions, steps a turn shows, wake-ups, in-flight       *)
                 (* records that cannot be written and process deaths, all   *)
                 (* together                                                 *)

ASSUME WebAssumption ==
  /\ {WebWaker, Repairer} \cap (WebMessages \cup WebWorkers) = {}
  /\ WebMessages \cap WebWorkers = {} /\ WebWaker # Repairer
  /\ MaxWebEvents \in Nat

Writers == WebMessages \cup WebWorkers \cup {WebWaker, Repairer}

VARIABLES
  eventLog,    (* <id>.jsonl: each event's seq and type                      *)
  lastSeq,     (* _last_seq; 0 when it is not known                          *)
  listing,     (* index.json's entry: none, or what its title is             *)
  deleting,    (* delete_conversation: idle, unlisted, removed or done       *)
  untold,      (* events written that their writer has still to tell of      *)
  writer,      (* where each writer stands                                   *)
  webRun,      (* active_runs' mark of the conversation: whose run it is     *)
  webSteered,  (* messages in its steering queue                             *)
  webRecord,   (* inflight_runs has it                                       *)
  resuming,    (* _resuming_conversation_ids has it                          *)
  bootStage,   (* app.py: starting, resumed, up                              *)
  stream,      (* each tab: its request, what is on its way and what it has  *)
  overtaken,   (* history: events told of after a later one, or, by a        *)
               (* process that died, never                                   *)
  webSpent     (* history: the bounded events so far                         *)

webVars == <<eventLog, lastSeq, listing, deleting, untold, writer, webRun, webSteered, webRecord,
             resuming, bootStage, stream, overtaken, webSpent>>
turnVars  == <<webRun, webSteered, webRecord>>
storeVars == <<listing, deleting, resuming, bootStage>>

EventTypes == {"message", "start", "end", "other"}
Event(n, x) == [seq |-> n, type |-> x]
Seqs(l)     == {l[i].seq : i \in DOMAIN l}
NewStream   == [pc |-> "off", inbox |-> <<>>, got |-> {}, mark |-> 0]

Silent(t)  == \A u \in untold : u.by # t      (* t is not inside append_event *)
Is(t, pc)  == writer[t] = pc /\ Silent(t)
To(t, pc)  == writer' = [writer EXCEPT ![t] = pc]
WebEvent(k) ==
  /\ webSpent.wakes + webSpent.tabs + webSpent.faults < MaxWebEvents
  /\ webSpent' = [webSpent EXCEPT ![k] = @ + 1]

LastSeqFor == IF lastSeq # 0 THEN lastSeq
              ELSE IF eventLog = <<>> THEN 0 ELSE Last(eventLog).seq

(* append_event, up to the end of its lock. *)
AppendEvent(t, x) ==
  /\ eventLog' = Append(eventLog, Event(LastSeqFor + 1, x))
  /\ lastSeq' = LastSeqFor + 1
  /\ untold' = untold \cup {[seq |-> LastSeqFor + 1, by |-> t]}

(* Mutant of Subscribed: a tab subscribes once its replay is over. *)
SubscribedLate == {s \in Streams : stream[s].pc = "live"}

(* _subscribers: the tabs an event reaches when its writer tells of it. *)
Subscribed == {s \in Streams : stream[s].pc # "off"}

Overtaken(u) == \E n \in Seqs(eventLog) : n > u.seq /\ \A o \in untold : o.seq # n

(* _notify_subscribers: on_event puts the event into each tab's queue. *)
Tell(t) ==
  \E u \in untold :
    /\ u.by = t
    /\ stream' = [s \in Streams |->
         IF s \in Subscribed THEN [stream[s] EXCEPT !.inbox = Append(@, u.seq)] ELSE stream[s]]
    /\ overtaken' = IF Overtaken(u) THEN overtaken \cup {u.seq} ELSE overtaken
    /\ untold' = untold \ {u}
    /\ UNCHANGED <<eventLog, lastSeq, storeVars, writer, turnVars, webSpent>>

----------------------------------------------------------------------------
WebInit ==
  /\ eventLog = <<>> /\ lastSeq = 0 /\ listing = "untitled" /\ deleting = "idle"
  /\ untold = {}
  /\ writer = [t \in Writers |-> "idle"]
  /\ webRun = {} /\ webSteered = 0 /\ webRecord = FALSE /\ resuming = FALSE
  /\ bootStage = "up"
  /\ stream = [s \in Streams |-> NewStream]
  /\ overtaken = {}
  /\ webSpent = [wakes |-> 0, tabs |-> 0, faults |-> 0]

(* send_message_route: the owner's message is in the log first. *)
PostMessage(m) ==
  /\ bootStage = "up" /\ listing # "none" /\ Is(m, "idle")
  /\ AppendEvent(m, "message")
  /\ To(m, "posted")
  /\ UNCHANGED <<storeVars, turnVars, stream, overtaken, webSpent>>

(* A banned sender's, or one's who has not opted in (who is told so). *)
RefuseMessage(m) ==
  /\ Is(m, "posted")
  /\ \/ AppendEvent(m, "end") /\ To(m, "done")
     \/ AppendEvent(m, "other") /\ To(m, "refused")
  /\ UNCHANGED <<storeVars, turnVars, stream, overtaken, webSpent>>

EndRefused(m) ==
  /\ Is(m, "refused")
  /\ AppendEvent(m, "end") /\ To(m, "done")
  /\ UNCHANGED <<storeVars, turnVars, stream, overtaken, webSpent>>

(* The conversation is named after the message that opened it. *)
SeeTitle(m) ==
  /\ Is(m, "posted")
  /\ To(m, IF listing \in {"untitled", "none"} THEN "naming" ELSE "named")
  /\ UNCHANGED <<eventLog, lastSeq, untold, storeVars, turnVars, stream, overtaken, webSpent>>

NameIt(m) ==
  /\ Is(m, "naming")
  /\ listing' = IF listing = "none" THEN "none" ELSE "derived"
  /\ To(m, "named")
  /\ UNCHANGED <<eventLog, lastSeq, untold, deleting, resuming, bootStage, turnVars, stream, overtaken, webSpent>>

Rename ==
  /\ listing \notin {"none", "byHand"}
  /\ listing' = "byHand"
  /\ WebEvent("faults")
  /\ UNCHANGED <<eventLog, lastSeq, untold, deleting, resuming, bootStage, writer, turnVars, stream, overtaken>>

(* submit_message steers, ... *)
SeeRun(m) ==
  /\ Is(m, "named") /\ webRun # {}
  /\ To(m, "steering")
  /\ UNCHANGED <<eventLog, lastSeq, untold, storeVars, turnVars, stream, overtaken, webSpent>>

SteerMessage(m) ==
  /\ Is(m, "steering")
  /\ webSteered' = webSteered + 1
  /\ To(m, "queued")
  /\ UNCHANGED <<eventLog, lastSeq, untold, storeVars, webRun, webRecord, stream, overtaken, webSpent>>

CheckMark(m) ==
  /\ Is(m, "queued")
  /\ AppendEvent(m, "other")
  /\ To(m, "done")
  /\ UNCHANGED <<storeVars, turnVars, stream, overtaken, webSpent>>

FreeWorker == CHOOSE w \in WebWorkers : Is(w, "idle") \/ \A x \in WebWorkers : ~Is(x, "idle")

(* ... or submits a turn: so do wake_conversation, for a caller that saw no *)
(* run, after its banner, and resume_turn, after the restart notice.        *)
SubmitRun(t, w, pc) ==
  /\ w = FreeWorker /\ Is(w, "idle")
  /\ writer' = [writer EXCEPT ![t] = pc, ![w] = "submitted"]

SubmitTurn(m, w) ==
  /\ Is(m, "named") /\ webRun = {}
  /\ SubmitRun(m, w, "done")
  /\ UNCHANGED <<eventLog, lastSeq, untold, storeVars, turnVars, stream, overtaken, webSpent>>

SeeNoRun ==
  /\ Is(WebWaker, "idle") /\ webRun = {}
  /\ WebEvent("wakes")
  /\ To(WebWaker, "waking")
  /\ UNCHANGED <<eventLog, lastSeq, untold, storeVars, turnVars, stream, overtaken>>

WakeConversation ==
  /\ Is(WebWaker, "waking")
  /\ AppendEvent(WebWaker, "other")
  /\ To(WebWaker, "woke")
  /\ UNCHANGED <<storeVars, turnVars, stream, overtaken, webSpent>>

SubmitWoken(w) ==
  /\ Is(WebWaker, "woke")
  /\ SubmitRun(WebWaker, w, "idle")
  /\ UNCHANGED <<eventLog, lastSeq, untold, storeVars, turnVars, stream, overtaken, webSpent>>

(* _run_turn *)
ShowStart(w) ==
  /\ Is(w, "submitted")
  /\ AppendEvent(w, "start")
  /\ To(w, "started")
  /\ UNCHANGED <<storeVars, turnVars, stream, overtaken, webSpent>>

(* run_agent_turn marks and records the run, unless its user is banned; a   *)
(* record that cannot be written is _run_turn's to report.                  *)
EnterTurn(w) ==
  /\ Is(w, "started")
  /\ \/ webRun' = {w} /\ webRecord' = TRUE /\ To(w, "running") /\ UNCHANGED webSpent
     \/ UNCHANGED <<webRun, webRecord, webSpent>> /\ To(w, "failed")
     \/ webRun' = {w} /\ UNCHANGED webRecord /\ To(w, "failed") /\ WebEvent("faults")
  /\ UNCHANGED <<eventLog, lastSeq, untold, storeVars, webSteered, stream, overtaken>>

(* Mutant of ReportFailure: the backstop only logs. *)
ReportNothing(w) ==
  /\ Is(w, "failed")
  /\ To(w, "idle")
  /\ UNCHANGED <<eventLog, lastSeq, untold, storeVars, turnVars, stream, overtaken, webSpent>>

ReportFailure(w) ==
  /\ Is(w, "failed")
  /\ AppendEvent(w, "end")
  /\ To(w, "idle")
  /\ UNCHANGED <<storeVars, turnVars, stream, overtaken, webSpent>>

(* The hooks' steps; a tool's end takes what was steered. *)
ShowStep(w) ==
  /\ Is(w, "running")
  /\ WebEvent("faults")
  /\ AppendEvent(w, "other")
  /\ webSteered' \in {0, webSteered}
  /\ UNCHANGED <<storeVars, writer, webRun, webRecord, stream, overtaken>>

(* finish_turn, or post_error (or both: one that fails after it ended, left *)
(* out here, ends once more).                                               *)
FinishTurn(w) ==
  /\ Is(w, "running")
  /\ AppendEvent(w, "end")
  /\ To(w, "finished")
  /\ UNCHANGED <<storeVars, turnVars, stream, overtaken, webSpent>>

(* The finally block, ... *)
LeaveRun(w) ==
  /\ Is(w, "finished")
  /\ webRun' = webRun \ {w} /\ webRecord' = FALSE
  /\ To(w, "draining")
  /\ UNCHANGED <<eventLog, lastSeq, untold, storeVars, webSteered, stream, overtaken, webSpent>>

(* ... whose turn of the messages left has no turn_start of its own. *)
DrainQueue(w) ==
  /\ Is(w, "draining")
  /\ webSteered' = 0
  /\ To(w, IF webSteered = 0 THEN "idle" ELSE "started")
  /\ UNCHANGED <<eventLog, lastSeq, untold, storeVars, webRun, webRecord, stream, overtaken, webSpent>>

----------------------------------------------------------------------------
(* DELETE: delete_conversation drops the index entry, ... *)
Unlist ==
  /\ bootStage = "up" /\ listing # "none" /\ deleting = "idle"
  /\ listing' = "none" /\ deleting' = "unlisted"
  /\ WebEvent("faults")
  /\ UNCHANGED <<eventLog, lastSeq, untold, resuming, bootStage, writer, turnVars, stream, overtaken>>

(* ... removes the log, ... *)
RemoveLog ==
  /\ deleting = "unlisted"
  /\ eventLog' = <<>> /\ deleting' = "removed"
  /\ UNCHANGED <<lastSeq, untold, listing, resuming, bootStage, writer, turnVars, stream, overtaken, webSpent>>

(* ... and forgets the number and the subscribers, whose tabs stay open. *)
ForgetConversation ==
  /\ deleting = "removed"
  /\ lastSeq' = 0 /\ deleting' = "done"
  /\ stream' = [s \in Streams |-> [stream[s] EXCEPT !.pc = "off"]]
  /\ UNCHANGED <<eventLog, untold, listing, resuming, bootStage, writer, turnVars, overtaken, webSpent>>

(* stream_events: it subscribes, ... *)
Connect(s) ==
  /\ bootStage = "up" /\ listing # "none"
  /\ stream[s].pc = "off"
  /\ stream' = [stream EXCEPT ![s].pc = "replaying", ![s].inbox = <<>>]
  /\ WebEvent("tabs")
  /\ UNCHANGED <<eventLog, lastSeq, untold, storeVars, writer, turnVars, overtaken>>

(* ... then replays what the tab has not seen ... *)
Replay(s) ==
  /\ stream[s].pc = "replaying"
  /\ LET new == {n \in Seqs(eventLog) : n > stream[s].mark}
     IN  stream' = [stream EXCEPT ![s].pc = "replayed",
                                  ![s].got = @ \cup new,
                                  ![s].mark = IF new = {} THEN @ ELSE CHOOSE n \in new : \A o \in new : o <= n]
  /\ UNCHANGED <<eventLog, lastSeq, untold, storeVars, writer, turnVars, overtaken, webSpent>>

GoLive(s) ==
  /\ stream[s].pc = "replayed"
  /\ stream' = [stream EXCEPT ![s].pc = "live"]
  /\ UNCHANGED <<eventLog, lastSeq, untold, storeVars, writer, turnVars, overtaken, webSpent>>

(* ... and passes on what it is told of, beyond the last one it passed on.  *)
PassOn(s) ==
  /\ stream[s].pc = "live" /\ stream[s].inbox # <<>>
  /\ LET n == Head(stream[s].inbox)
     IN  stream' = [stream EXCEPT ![s].inbox = Tail(@),
                                  ![s].got = IF n <= stream[s].mark THEN @ ELSE @ \cup {n},
                                  ![s].mark = IF n <= @ THEN @ ELSE n]
  /\ UNCHANGED <<eventLog, lastSeq, untold, storeVars, writer, turnVars, overtaken, webSpent>>

Disconnect(s) ==
  /\ stream[s].pc # "off"
  /\ stream' = [stream EXCEPT ![s].pc = "off", ![s].inbox = <<>>]
  /\ UNCHANGED <<eventLog, lastSeq, untold, storeVars, writer, turnVars, overtaken, webSpent>>

----------------------------------------------------------------------------
WebDies ==
  /\ bootStage = "up"
  /\ lastSeq' = 0 /\ untold' = {}
  /\ overtaken' = overtaken \cup {u.seq : u \in {v \in untold : Overtaken(v)}}
  /\ writer' = [t \in Writers |-> IF t \in WebMessages /\ writer[t] # "idle" THEN "done" ELSE "idle"]
  /\ webRun' = {} /\ webSteered' = 0
  /\ stream' = [s \in Streams |-> [stream[s] EXCEPT !.pc = "off", !.inbox = <<>>]]
  /\ bootStage' = "starting" /\ resuming' = FALSE
  /\ deleting' = IF deleting = "idle" THEN "idle" ELSE "done"
  /\ WebEvent("faults")
  /\ UNCHANGED <<eventLog, listing, webRecord>>

(* _resume_orphaned_runs, before the web server starts: the recorded turn   *)
(* gets a thread and its conversation is left out of the repair.            *)
ResumeOrphan(w) ==
  /\ bootStage = "starting"
  /\ bootStage' = "resumed"
  /\ IF webRecord
       THEN w = FreeWorker /\ To(w, "resuming") /\ webRecord' = FALSE /\ resuming' = TRUE
       ELSE UNCHANGED <<writer, webRecord, resuming>>
  /\ UNCHANGED <<eventLog, lastSeq, untold, listing, deleting, webRun, webSteered, stream, overtaken, webSpent>>

NoteRestart(w) ==
  /\ Is(w, "resuming")
  /\ AppendEvent(w, "other")
  /\ To(w, "submitted")
  /\ UNCHANGED <<storeVars, turnVars, stream, overtaken, webSpent>>

(* The last turn_start of a log has no turn_end after it. *)
Open(l) == \E i \in DOMAIN l : l[i].type = "start" /\ \A j \in i+1..Len(l) : l[j].type # "end"

(* repair_orphaned_turns reads the log ... *)
ReadForRepair ==
  /\ bootStage = "resumed" /\ Is(Repairer, "idle")
  /\ IF Open(eventLog) /\ ~resuming
       THEN To(Repairer, "repairing") /\ UNCHANGED bootStage
       ELSE bootStage' = "up" /\ UNCHANGED writer
  /\ UNCHANGED <<eventLog, lastSeq, untold, listing, deleting, resuming, turnVars, stream, overtaken, webSpent>>

(* ... and ends the turn that died. *)
EndOrphan ==
  /\ Is(Repairer, "repairing")
  /\ AppendEvent(Repairer, "end")
  /\ To(Repairer, "idle")
  /\ bootStage' = "up"
  /\ UNCHANGED <<listing, deleting, resuming, turnVars, stream, overtaken, webSpent>>

----------------------------------------------------------------------------
Message(m) ==
  \/ PostMessage(m) \/ RefuseMessage(m) \/ EndRefused(m) \/ SeeTitle(m) \/ NameIt(m)
  \/ SeeRun(m) \/ SteerMessage(m) \/ CheckMark(m) \/ \E w \in WebWorkers : SubmitTurn(m, w)

WorkerStep(w) ==
  \/ SubmitWoken(w) \/ ShowStart(w) \/ EnterTurn(w) \/ ReportFailure(w) \/ ShowStep(w)
  \/ FinishTurn(w) \/ LeaveRun(w) \/ DrainQueue(w) \/ ResumeOrphan(w) \/ NoteRestart(w)

WebNext ==
  \/ \E m \in WebMessages : Message(m)
  \/ \E w \in WebWorkers : WorkerStep(w)
  \/ \E s \in Streams : Connect(s) \/ Replay(s) \/ GoLive(s) \/ PassOn(s) \/ Disconnect(s)
  \/ \E t \in Writers : Tell(t)
  \/ SeeNoRun \/ WakeConversation \/ Rename \/ Unlist \/ RemoveLog \/ ForgetConversation
  \/ WebDies \/ ReadForRepair \/ EndOrphan

WebSpec == WebInit /\ [][WebNext]_webVars

----------------------------------------------------------------------------
WebTypeOK ==
  /\ \A i \in DOMAIN eventLog : eventLog[i] \in [seq : Nat, type : EventTypes]
  /\ \A i, j \in DOMAIN eventLog : i < j => eventLog[i].seq < eventLog[j].seq
  /\ lastSeq \in Nat /\ webSteered \in Nat
  /\ listing \in {"none", "untitled", "derived", "byHand"}
  /\ deleting \in {"idle", "unlisted", "removed", "done"}
  /\ bootStage \in {"starting", "resumed", "up"}
  /\ webRun \subseteq WebWorkers /\ {webRecord, resuming} \subseteq BOOLEAN
  /\ \A u \in untold : u.seq \in Nat /\ u.by \in Writers
  /\ DOMAIN writer = Writers

(* A conversation that shows a turn at work has one, or one on its way: a   *)
(* turn that fails, is refused or dies with the process always gets its end *)
(* into the log by the time the web server answers again.                   *)
OpenHasTurn ==
  bootStage = "up" /\ Open(eventLog)
    => \E w \in WebWorkers : writer[w] \in {"resuming", "submitted", "started", "running", "failed"}

(* A tab that is connected, with nothing on its way to it, has every event  *)
(* of the conversation, however its replay raced the writers, except those  *)
(* its writer told of after a later one, or died before it could.           *)
StreamsCatchUp ==
  \A s \in Streams :
    stream[s].pc = "live" /\ stream[s].inbox = <<>> /\ untold = {} /\ deleting = "idle"
      => Seqs(eventLog) \ overtaken \subseteq stream[s].got

(* A tab has every event of the log up to the last one it was sent. *)
StreamHasNoGap ==
  \A s \in Streams : deleting = "idle" => {n \in Seqs(eventLog) : n <= stream[s].mark} \subseteq stream[s].got
============================================================================
