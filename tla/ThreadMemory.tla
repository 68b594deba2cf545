---------------------------- MODULE ThreadMemory ----------------------------
(***************************************************************************)
(* What coolton remembers of a thread and what a turn makes of it: the     *)
(* stored history (thread_context/store.py), the posts it has not seen     *)
(* (thread_history.py), the notes that take the place of old messages      *)
(* (agent/observational_memory.py), and the messages each attempt of a     *)
(* turn sends to a model (agent.run_agent, _run_provider_chain).           *)
(*                                                                         *)
(* One turn runs at a time: overlapping turns are ThreadTurns'.  A message *)
(* is what it is (a request, a call of a tool, ...) and the posts it       *)
(* holds; its size is one.                                                 *)
(***************************************************************************)
EXTENDS Naturals, Sequences, FiniteSets, SequencesExt

CONSTANTS
  MaxThreadPosts,  (* bound: posts in the thread                             *)
  MaxTotal,        (* thread_history.MAX_TOTAL, in pages of one post         *)
  MaxContext,      (* thread_history.MAX_CONTEXT                             *)
  Windows,         (* models by what _budget allows them: how much raw       *)
                   (* history before it is observed, and how much is kept    *)
  MaxCalls,        (* bound: tools called by a turn                          *)
  MaxMemoryFaults  (* bound: attempts that fail, runs that are stopped or    *)
                   (* skipped, deaths and histories that expire, together    *)

ASSUME MemoryAssumption ==
  /\ {MaxThreadPosts, MaxTotal, MaxContext, MaxCalls, MaxMemoryFaults} \subseteq Nat
  /\ Windows \subseteq [observeAt : Nat, keep : Nat \ {0}]

VARIABLES
  thread,        (* how many posts it has: a post is its place in it         *)
  unheard,       (* mentions no handler has taken                            *)
  memory,        (* the conversation's file: its messages and last_seen_ts   *)
  steerQueue,    (* steering_store's queue                                   *)
  run,           (* the turn: see NewRun                                     *)
  checkpoint,    (* inflight_runs' record of it: none, or the turn's post    *)
                 (* and the messages of its latest request                   *)
  letGo,         (* history: posts the code does not mean to remember        *)
  memoryFaults   (* history: the bounded events so far                       *)

memoryVars == <<thread, unheard, memory, steerQueue, run, checkpoint, letGo, memoryFaults>>

Msg(k, ps, sys) == [kind |-> k, posts |-> ps, system |-> sys]
NoMemory  == [messages |-> <<>>, seen |-> 0]
NoRecord  == [post |-> 0, messages |-> <<>>]
NoWindow  == [observeAt |-> 0, keep |-> 1]

(* at: idle, starting, trying, model, tool, saving.  base is run_agent's    *)
(* message_history, history and prompt are run_kwargs', messages are        *)
(* ctx.messages, progress is last_attempt_messages and moved whether it was *)
(* set since the last attempt.                                              *)
NewRun(p, own, base, fetched) ==
  [at |-> "starting", post |-> p, own |-> own, base |-> base, fetched |-> fetched, history |-> <<>>,
   prompt |-> TRUE, messages |-> <<>>, progress |-> <<>>, moved |-> FALSE, window |-> NoWindow,
   calls |-> 0, skipped |-> FALSE, result |-> <<>>]
NoRun == [NewRun(0, {}, <<>>, FALSE) EXCEPT !.at = "idle"]

MemoryInit ==
  /\ thread = 0 /\ unheard = {} /\ memory = NoMemory /\ steerQueue = <<>>
  /\ run = NoRun /\ checkpoint = NoRecord
  /\ letGo = {} /\ memoryFaults = 0

MemoryFault == memoryFaults < MaxMemoryFaults /\ memoryFaults' = memoryFaults + 1

----------------------------------------------------------------------------
(* Histories. *)

PostsIn(h) == UNION {h[i].posts : i \in DOMAIN h}

(* _is_valid_history: every call has its result. *)
Paired(h) ==
  \A i \in DOMAIN h :
    /\ h[i].kind = "call" => i < Len(h) /\ h[i + 1].kind = "result"
    /\ h[i].kind = "result" => i > 1 /\ h[i - 1].kind = "call"

(* get_history: one that does not pair up is thrown away. *)
StoredMemory == IF Paired(memory.messages) THEN memory ELSE NoMemory

(* _with_system_prompt *)
WithSystemPrompt(h) ==
  IF h = <<>> THEN h
  ELSE LET s == [i \in DOMAIN h |-> [h[i] EXCEPT !.system = FALSE]] IN
       IF h[1].kind \in {"log", "request", "result"} THEN [s EXCEPT ![1].system = TRUE]
       ELSE <<Msg("request", {}, TRUE)>> \o s

(* _messages_safe_for_resume: without the call that is about to run. *)
SafeForResume(h) == IF h # <<>> /\ Last(h).kind = "call" THEN Front(h) ELSE h

(* split_log *)
HasLog(h) == h # <<>> /\ h[1].kind = "log"
RawOf(h)  == IF HasLog(h) THEN Tail(h) ELSE h

(* Mutant of SplitIndex: between a call and its result. *)
SplitAnywhere(raw, keep) == IF Len(raw) > keep THEN Len(raw) - keep ELSE 0

(* _safe_split_index: how many messages come before what is kept. *)
SplitIndex(raw, keep) ==
  LET n == IF Len(raw) > keep THEN Len(raw) - keep ELSE 0 IN
  IF n > 0 /\ raw[n].kind = "call" THEN n - 1 ELSE n

(* _turn_request_index: 0 when there is none. *)
TurnRequest(h) ==
  LET own == {i \in DOMAIN h : h[i].kind = "request" /\ h[i].posts # {}} IN
  IF own = {} THEN 0 ELSE CHOOSE i \in own : \A j \in own : j <= i

(* The first n messages of h become notes on the posts ps; a system prompt  *)
(* among them stays in front.                                               *)
Noted(h, n, ps) == <<Msg("log", ps, \E i \in 1..n : h[i].system)>> \o SubSeq(h, n + 1, Len(h))

(* Mutant of Observed: what the Observer has no notes on is dropped. *)
ObservedAlways(h, split, noted) ==
  LET n == Len(h) - Len(RawOf(h)) + split
      m == IF noted THEN n ELSE n - split
  IN IF split = 0 THEN h ELSE Noted(h, n, PostsIn(SubSeq(h, 1, m)))

(* maybe_observe, once it knows where to split: the Observer's notes take   *)
(* the place of the messages before, or nothing changes.                    *)
Observed(h, split, noted) ==
  LET n == Len(h) - Len(RawOf(h)) + split IN
  IF split = 0 \/ ~noted THEN h ELSE Noted(h, n, PostsIn(SubSeq(h, 1, n)))

(* maybe_observe: nothing from keepFrom on is observed. *)
MaybeObserve(h, window, keepFrom, noted) ==
  LET raw   == RawOf(h)
      split == SplitIndex(raw, window.keep)
      kept  == IF keepFrom = 0 THEN Len(raw) ELSE keepFrom - 1 - (Len(h) - Len(raw))
  IN IF Len(raw) <= window.observeAt THEN h
     ELSE Observed(h, IF kept < split THEN kept ELSE split, noted)

----------------------------------------------------------------------------
(* Posts, and the turns they start. *)

(* Someone writes in the thread; a mention of coolton is handled, or steers *)
(* the turn that runs.                                                      *)
WriteInThread(mention) ==
  /\ thread < MaxThreadPosts
  /\ thread' = thread + 1
  /\ IF mention /\ run.at # "idle"
       THEN steerQueue' = Append(steerQueue, thread') /\ UNCHANGED unheard
       ELSE UNCHANGED steerQueue /\ unheard' = IF mention THEN unheard \cup {thread'} ELSE unheard
  /\ UNCHANGED <<memory, run, checkpoint, letGo, memoryFaults>>

(* build_unseen_messages, build_thread_context: what was posted since, but  *)
(* for what the raw history holds; no more than MAX_TOTAL are fetched, and  *)
(* only the last MAX_CONTEXT of those are shown.                            *)
Unseen(p, stored) ==
  {q \in 1..thread : q > stored.seen /\ q # p} \ PostsIn(RawOf(stored.messages))

Reached(ps, stored) == {q \in ps : q <= stored.seen + MaxTotal}

Shown(ps) == {q \in ps : Cardinality({r \in ps : r > q}) < MaxContext}

(* app_mentioned: a mention starts a turn with what coolton has not seen,   *)
(* when that can be fetched.  A post whose text occurs anywhere in the      *)
(* stored history's (another "yes", say) is taken for one it holds.         *)
AnswerThread(p) ==
  /\ run.at = "idle" /\ p \in unheard
  /\ unheard' = unheard \ {p}
  /\ \E fetched \in BOOLEAN, echoes \in SUBSET Unseen(p, StoredMemory) :
       LET stored == StoredMemory
           unseen == Unseen(p, stored)
           shown  == IF fetched THEN Shown(Reached(unseen, stored) \ echoes) ELSE {}
       IN /\ echoes # {} => fetched /\ stored.messages # <<>>
          /\ run' = NewRun(p, {p},
                           IF shown = {} THEN stored.messages
                           ELSE Append(stored.messages, Msg("request", shown, FALSE)), fetched)
          /\ letGo' = letGo \cup (IF fetched THEN {q \in unseen \ shown : q < p} ELSE {})
  /\ checkpoint' = [NoRecord EXCEPT !.post = p]
  /\ UNCHANGED <<thread, memory, steerQueue, memoryFaults>>

(* run_agent, up to its first attempt.  Jev's picks put a search before the *)
(* first request of the model.                                              *)
Prepare ==
  /\ run.at = "starting"
  /\ \/ run' = [run EXCEPT !.at = "trying", !.history = WithSystemPrompt(run.base)]
     \/ run' = [run EXCEPT !.at = "trying", !.prompt = FALSE,
                  !.history = WithSystemPrompt(run.base) \o
                    <<Msg("request", run.own, run.base = <<>>), Msg("call", {}, FALSE)>>]
  /\ UNCHANGED <<thread, unheard, memory, steerQueue, checkpoint, letGo, memoryFaults>>

(* _fit_history_to_model and the start of the run: a call that waits is     *)
(* executed first.                                                          *)
Try(w, noted) ==
  /\ run.at = "trying"
  /\ LET keepFrom == IF run.prompt THEN 0 ELSE TurnRequest(run.history)
         fitted   == MaybeObserve(run.history, w, keepFrom, noted)
         sent     == IF run.prompt THEN Append(fitted, Msg("request", run.own, fitted = <<>>))
                     ELSE fitted
     IN run' = [run EXCEPT !.history = fitted, !.messages = sent, !.window = w,
                           !.at = IF Last(sent).kind = "call" THEN "calling" ELSE "asking"]
  /\ UNCHANGED <<thread, unheard, memory, steerQueue, checkpoint, letGo, memoryFaults>>

(* The request goes to the model: the turn's checkpoint. *)
AskModel ==
  /\ run.at = "asking"
  /\ checkpoint' = [checkpoint EXCEPT !.messages = run.messages]
  /\ run' = [run EXCEPT !.at = "model"]
  /\ UNCHANGED <<thread, unheard, memory, steerQueue, letGo, memoryFaults>>

(* It answers with a call of a tool. *)
Call ==
  /\ run.at = "model" /\ run.calls < MaxCalls
  /\ run' = [run EXCEPT !.at = "calling", !.calls = @ + 1,
                        !.messages = Append(@, Msg("call", {}, FALSE))]
  /\ UNCHANGED <<thread, unheard, memory, steerQueue, checkpoint, letGo, memoryFaults>>

(* The run is over, with the messages that are saved for it. *)
OverWith(h, skipped) ==
  [NewRun(run.post, run.own, <<>>, run.fetched) EXCEPT
     !.at = "saving", !.window = run.window, !.result = h, !.skipped = skipped]

(* before_tool; a !stop ends the run there. *)
BeforeTool(stopped) ==
  /\ run.at = "calling"
  /\ IF stopped THEN MemoryFault ELSE UNCHANGED memoryFaults
  /\ LET safe == SafeForResume(run.messages) IN
     run' = IF stopped THEN OverWith(safe, FALSE)
            ELSE [run EXCEPT !.at = "tool", !.progress = safe, !.moved = TRUE]
  /\ UNCHANGED <<thread, unheard, memory, steerQueue, checkpoint, letGo>>

(* after_tool: what was queued is folded into a result that can hold it. *)
ToolResult(text) ==
  /\ run.at = "tool"
  /\ run' = [run EXCEPT !.at = "asking",
               !.messages = Append(@, Msg("result", IF text THEN ToSet(steerQueue) ELSE {}, FALSE))]
  /\ steerQueue' = IF text THEN <<>> ELSE steerQueue
  /\ UNCHANGED <<thread, unheard, memory, checkpoint, letGo, memoryFaults>>

(* skip and wait_tool end the run; skip without preserve undoes it. *)
SkipTurn(preserve) ==
  /\ run.at = "tool" /\ MemoryFault
  /\ run' = OverWith(IF preserve THEN run.progress ELSE run.base, ~preserve)
  /\ UNCHANGED <<thread, unheard, memory, steerQueue, checkpoint, letGo>>

(* An attempt fails: the next one goes on from its latest tool. *)
TryFails ==
  /\ run.at \in {"model", "tool"} /\ MemoryFault
  /\ run' = IF run.moved
              THEN [run EXCEPT !.at = "trying", !.history = run.progress, !.prompt = FALSE,
                               !.moved = FALSE]
              ELSE [run EXCEPT !.at = "trying"]
  /\ UNCHANGED <<thread, unheard, memory, steerQueue, checkpoint, letGo>>

Reply ==
  /\ run.at = "model"
  /\ run' = OverWith(Append(run.messages, Msg("answer", {}, FALSE)), FALSE)
  /\ UNCHANGED <<thread, unheard, memory, steerQueue, checkpoint, letGo, memoryFaults>>

(* run_agent_turn's finally block: what is still queued is a turn of its    *)
(* own, from what is stored by then.                                        *)
EndTurn(stored) ==
  IF steerQueue = <<>>
    THEN run' = NoRun /\ checkpoint' = NoRecord /\ UNCHANGED steerQueue
    ELSE /\ run' = NewRun(Last(steerQueue), ToSet(steerQueue), stored.messages, FALSE)
         /\ checkpoint' = [NoRecord EXCEPT !.post = Last(steerQueue)]
         /\ steerQueue' = <<>>

(* Every model failed: nothing is saved. *)
TurnGivesUp ==
  /\ run.at = "trying" /\ run.messages # <<>>
  /\ EndTurn(StoredMemory)
  /\ UNCHANGED <<thread, unheard, memory, letGo, memoryFaults>>

(* The history is observed once more and saved. *)
SaveMemory(noted) ==
  /\ run.at = "saving"
  /\ LET saved == [messages |-> MaybeObserve(run.result, run.window, 0, noted),
                   seen     |-> IF run.post > StoredMemory.seen THEN run.post
                                ELSE StoredMemory.seen]
     IN /\ memory' = saved
        /\ letGo' = letGo \cup (IF ~run.fetched THEN 1..run.post \ PostsIn(saved.messages)
                               ELSE IF run.skipped THEN run.own ELSE {})
        /\ EndTurn(saved)
  /\ UNCHANGED <<thread, unheard, memoryFaults>>

----------------------------------------------------------------------------
(* A history nobody wrote to for ttl_seconds is forgotten. *)
ForgetExpired ==
  /\ run.at = "idle" /\ memory # NoMemory /\ MemoryFault
  /\ memory' = NoMemory
  /\ letGo' = letGo \cup 1..memory.seen
  /\ UNCHANGED <<thread, unheard, steerQueue, run, checkpoint>>

(* The process dies.  Its successor resumes the turn from its checkpoint,   *)
(* with the restart note in the last request (_resume_history), or starts   *)
(* it over.                                                                 *)
RestartTurn ==
  /\ checkpoint # NoRecord /\ MemoryFault
  /\ steerQueue' = <<>>
  /\ letGo' = letGo \cup ToSet(steerQueue)
  /\ run' = LET fresh == NewRun(checkpoint.post, run.own, StoredMemory.messages, FALSE) IN
            IF checkpoint.messages = <<>> THEN fresh
            ELSE [fresh EXCEPT !.at = "trying", !.prompt = FALSE,
                               !.history = WithSystemPrompt(checkpoint.messages)]
  /\ UNCHANGED <<thread, unheard, memory, checkpoint>>

MemoryNext ==
  \/ \E b \in BOOLEAN :
       WriteInThread(b) \/ BeforeTool(b) \/ ToolResult(b) \/ SkipTurn(b) \/ SaveMemory(b)
  \/ \E p \in unheard : AnswerThread(p)
  \/ \E w \in Windows, noted \in BOOLEAN : Try(w, noted)
  \/ Prepare \/ AskModel \/ Call \/ TryFails \/ Reply \/ TurnGivesUp \/ ForgetExpired \/ RestartTurn

MemorySpec == MemoryInit /\ [][MemoryNext]_memoryVars

----------------------------------------------------------------------------
Histories == {memory.messages, run.base, run.history, run.messages, run.progress, run.result,
              checkpoint.messages}

MemoryTypeOK ==
  /\ thread \in 0..MaxThreadPosts /\ unheard \cup letGo \subseteq 1..MaxThreadPosts
  /\ \A h \in Histories : \A i \in DOMAIN h :
       /\ h[i].kind \in {"log", "request", "call", "result", "answer"}
       /\ h[i].posts \subseteq 1..thread /\ h[i].system \in BOOLEAN
  /\ run.at \in {"idle", "starting", "trying", "asking", "calling", "tool", "model", "saving"}
  /\ memory.seen \in 0..thread /\ memoryFaults \in 0..MaxMemoryFaults

(* Whatever a turn went through (notes in place of old messages, a search   *)
(* of Jev's, models that failed, a restart), the messages it sends a model  *)
(* are ones a provider takes and the turn's own: the system prompt leads,   *)
(* once, every call has its result, and what the turn is to answer is there *)
(* as itself and not as a note.                                             *)
SentIsSound ==
  run.at = "model" =>
    /\ \A i \in DOMAIN run.messages : run.messages[i].system <=> i = 1
    /\ Paired(run.messages)
    /\ run.own \subseteq PostsIn(RawOf(run.messages))

(* Every post of the thread up to last_seen_ts is in the stored history, as *)
(* itself or in its notes, but for those the code lets go of: a post whose  *)
(* text was in the history already, more posts than MAX_TOTAL or            *)
(* MAX_CONTEXT, a turn discarded by skip, a thread that expired, a queue    *)
(* that died with the process, and those before a turn that did not fetch   *)
(* what it had not seen.                                                    *)
NothingForgotten == 1..memory.seen \subseteq PostsIn(memory.messages) \cup letGo
============================================================================
