----------------------------- MODULE HuddleTalk -----------------------------
(***************************************************************************)
(* What is said to coolton in a huddle and by it (agent/huddle/session.py, *)
(* voice_agent.py): a turn of speech is heard in steps (Deepgram's events, *)
(* speech.Listener), a reply may be started before it is known to be over, *)
(* someone may talk over a reply, and typed messages and finished tasks    *)
(* wait in a queue for a worker.                                           *)
(*                                                                         *)
(* All of it runs on one event loop: an action is the code from one await  *)
(* to the next.  `talk' holds the session's fields, and the operators that *)
(* map one such record to another are its methods.  The end of a session   *)
(* is Huddle's.                                                            *)
(***************************************************************************)
EXTENDS Naturals, FiniteSets, SequencesExt

CONSTANTS
  VoiceLines,  (* turns of speech                                            *)
  ChatLines,   (* messages typed in the huddle's thread                      *)
  TaskLines,   (* results of tasks                                           *)
  NoLine,
  HeardLines,  (* session._HEARD_LINES                                       *)
  MaxReplies   (* bound: replies and fixed lines (the greeting, an apology)  *)

Lines == VoiceLines \cup ChatLines \cup TaskLines

ASSUME TalkAssumption ==
  /\ Cardinality(VoiceLines) + Cardinality(ChatLines) + Cardinality(TaskLines) = Cardinality(Lines)
  /\ NoLine \notin Lines
  /\ HeardLines \in Nat \ {0} /\ MaxReplies \in Nat

VARIABLES
  talk,       (* the session: heard, reply, spec(ulative), barge, talking,   *)
              (* the replies made so far, the lines in the model's history   *)
              (* (recalled), those let go of (over), and whether one of the  *)
              (* two slips of LinesAreKept happened (slipped)                *)
  lineQueue,  (* _queue                                                      *)
  sentLines,  (* lines not said yet, or tasks not finished: where they stand *)
  ear,        (* on_turn: where it stands, for which line, and what          *)
              (* _end_turn holds over an await                               *)
  hand,       (* _work: the line it holds and the reply it waits for         *)
  greeted     (* start has said its greeting                                 *)

talkVars == <<talk, lineQueue, sentLines, ear, hand, greeted>>

NewReply(lines, consumed, confirmed, fixed) ==
  [lines |-> lines, consumed |-> consumed, confirmed |-> confirmed, fixed |-> fixed,
   acted |-> FALSE, spoke |-> FALSE, delegated |-> FALSE, settled |-> FALSE, at |-> "running"]

QuietEar == [at |-> "quiet", line |-> NoLine, spec |-> 0, changed |-> FALSE]

TalkInit ==
  /\ talk = [heard |-> <<>>, reply |-> 0, spec |-> 0, barge |-> FALSE, talking |-> FALSE,
             replies |-> <<>>, recalled |-> {}, over |-> {}, slipped |-> FALSE]
  /\ lineQueue = <<>>
  /\ sentLines = [l \in Lines |-> "unsent"]
  /\ ear = QuietEar
  /\ hand = [line |-> NoLine, reply |-> 0]
  /\ greeted = FALSE

----------------------------------------------------------------------------
(* The session's methods. *)

HasReplies(n) == Len(talk.replies) + n <= MaxReplies
Unfinished(s) == {r \in DOMAIN s.replies : s.replies[r].confirmed /\ s.replies[r].at = "running"}
Spoken(s)     == \E r \in DOMAIN s.replies : s.replies[r].at = "running" /\ s.replies[r].spoke

(* self._reply becomes r. *)
PutReply(s, r) ==
  [s EXCEPT !.reply = r, !.slipped = @ \/ s.reply \notin {0, r} \/ Unfinished(s) \ {r} # {}]

(* Mutant of Remember: what a speculative reply took is not counted down. *)
RememberBlindly(s, l) ==
  LET h == Append(s.heard, {l})
      n == Len(h) - HeardLines
  IN IF Len(h) <= HeardLines THEN [s EXCEPT !.heard = h]
     ELSE [s EXCEPT !.heard = SubSeq(h, n + 1, Len(h)), !.over = @ \cup UNION {h[i] : i \in 1..n}]

(* _remember: context for the next reply, the latest few lines of it.  An   *)
(* interrupted prompt may have made it longer.                              *)
Remember(s, l) ==
  LET h == Append(s.heard, {l})
      n == Len(h) - HeardLines
      counted == [r \in DOMAIN s.replies |->
                    IF r = s.spec
                      THEN [s.replies[r] EXCEPT !.consumed = IF s.replies[r].consumed > n
                                                               THEN s.replies[r].consumed - n ELSE 0]
                      ELSE s.replies[r]]
  IN IF Len(h) <= HeardLines THEN [s EXCEPT !.heard = h]
     ELSE [s EXCEPT !.heard = SubSeq(h, n + 1, Len(h)), !.over = @ \cup UNION {h[i] : i \in 1..n},
                    !.replies = counted]

(* _take_context *)
TakeContext(s, r) == [s EXCEPT !.heard = SubSeq(@, s.replies[r].consumed + 1, Len(@))]

(* _start_reply *)
StartReply(s, lines, confirmed) ==
  LET id == Len(s.replies) + 1
      t  == [s EXCEPT !.replies = Append(@, NewReply(lines \cup UNION ToSet(s.heard), Len(s.heard),
                                                     confirmed, FALSE))]
  IN IF confirmed THEN PutReply(TakeContext(t, id), id) ELSE [t EXCEPT !.spec = id]

(* _speak *)
Speak(s) ==
  PutReply([s EXCEPT !.replies = Append(@, NewReply({}, 0, TRUE, TRUE))], Len(s.replies) + 1)

(* _confirm *)
Confirm(s, r) ==
  LET t == PutReply(TakeContext(s, r), r) IN [t EXCEPT !.replies[r].confirmed = TRUE]

(* task.cancel(): nothing happens to a task that is over. *)
CancelTask(s, r) ==
  IF r # 0 /\ s.replies[r].at = "running" THEN [s EXCEPT !.replies[r].at = "cancelled"] ELSE s

DropSpeculative(s) == [CancelTask(s, s.spec) EXCEPT !.spec = 0]

Settles(reply) == ~reply.settled /\ reply.confirmed /\ ~reply.fixed

(* _settle_interrupted: what it said goes into the history, or its prompt   *)
(* back to what was heard.                                                  *)
SettleInterrupted(s, r) ==
  IF ~Settles(s.replies[r]) THEN s
  ELSE LET t == [s EXCEPT !.replies[r].settled = TRUE] IN
       IF s.replies[r].acted THEN [t EXCEPT !.recalled = @ \cup s.replies[r].lines]
                             ELSE [t EXCEPT !.heard = <<s.replies[r].lines>> \o @]

(* _interrupt, up to its await of voice.clear. *)
Interrupt(s) ==
  LET t == [s EXCEPT !.barge = FALSE, !.reply = 0] IN
  IF s.reply = 0 THEN t ELSE CancelTask(SettleInterrupted(t, s.reply), s.reply)

Changes(s) == s.reply # 0 /\ Settles(s.replies[s.reply])

----------------------------------------------------------------------------
(* on_turn. *)

(* StartOfTurn: whatever is being said pauses. *)
StartOfTurn(v) ==
  /\ ear.at = "quiet" /\ sentLines[v] = "unsent"
  /\ ear' = [QuietEar EXCEPT !.at = "speaking", !.line = v]
  /\ sentLines' = [sentLines EXCEPT ![v] = "heard"]
  /\ talk' = [talk EXCEPT !.talking = TRUE, !.barge = @ \/ Spoken(talk)]
  /\ UNCHANGED <<lineQueue, hand, greeted>>

(* Update: they mean to interrupt. *)
Update ==
  /\ ear.at = "speaking" /\ talk.barge
  /\ talk' = Interrupt(talk)
  /\ ear' = [ear EXCEPT !.at = "clearing"]
  /\ UNCHANGED <<lineQueue, sentLines, hand, greeted>>

Cleared ==
  /\ ear.at = "clearing"
  /\ ear' = [ear EXCEPT !.at = "speaking"]
  /\ UNCHANGED <<talk, lineQueue, sentLines, hand, greeted>>

(* EagerEndOfTurn: if it is for coolton, a reply is started. *)
EagerEndOfTurn ==
  /\ ear.at = "speaking"
  /\ \/ UNCHANGED talk
     \/ talk.spec = 0 /\ HasReplies(1) /\ talk' = StartReply(talk, {ear.line}, FALSE)
  /\ ear' = [ear EXCEPT !.at = "eager"]
  /\ UNCHANGED <<lineQueue, sentLines, hand, greeted>>

TurnResumed ==
  /\ ear.at = "eager"
  /\ talk' = DropSpeculative(talk)
  /\ ear' = [ear EXCEPT !.at = "speaking"]
  /\ UNCHANGED <<lineQueue, sentLines, hand, greeted>>

(* The rest of _end_turn, once nothing is being said: the speculative reply *)
(* is confirmed, or another one started.                                    *)
AnswerTurn(s, spec, changed) ==
  /\ \/ /\ spec # 0 /\ ~changed /\ ear.line \in s.replies[spec].lines
        /\ talk' = Confirm(s, spec)
     \/ HasReplies(1) /\ talk' = StartReply(CancelTask(s, spec), {ear.line}, TRUE)
  /\ ear' = QuietEar

(* _end_turn after its barge: the line is for coolton, or is remembered. *)
JudgeTurn(s, changed) ==
  LET spec == s.spec
      t    == [s EXCEPT !.spec = 0]
  IN \/ talk' = Remember(CancelTask(t, spec), ear.line) /\ ear' = QuietEar
     \/ IF t.reply # 0
          THEN /\ talk' = Interrupt(t)
               /\ ear' = [ear EXCEPT !.at = "clearing2", !.spec = spec, !.changed = changed \/ Changes(t)]
          ELSE AnswerTurn(t, spec, changed)

(* EndOfTurn.  Over a reply, an "mm-hmm" lets it go on. *)
EndOfTurn ==
  /\ ear.at \in {"speaking", "eager"}
  /\ LET s == [talk EXCEPT !.talking = FALSE] IN
     \/ ~s.barge /\ JudgeTurn(s, FALSE)
     \/ /\ s.barge
        /\ talk' = Remember(DropSpeculative([s EXCEPT !.barge = FALSE]), ear.line) /\ ear' = QuietEar
     \/ /\ s.barge
        /\ talk' = Interrupt(s) /\ ear' = [ear EXCEPT !.at = "clearing1", !.changed = Changes(s)]
  /\ UNCHANGED <<lineQueue, sentLines, hand, greeted>>

EndTurnCleared ==
  /\ \/ ear.at = "clearing1" /\ JudgeTurn(talk, ear.changed)
     \/ ear.at = "clearing2" /\ AnswerTurn(talk, ear.spec, ear.changed)
  /\ UNCHANGED <<lineQueue, sentLines, hand, greeted>>

(* Deepgram's connection drops in the middle of a turn: its end never comes. *)
HearingDrops ==
  /\ ear.at \in {"speaking", "eager"}
  /\ talk' = [talk EXCEPT !.over = @ \cup {ear.line}]
  /\ ear' = QuietEar
  /\ UNCHANGED <<lineQueue, sentLines, hand, greeted>>

----------------------------------------------------------------------------
(* _chat: a typed message is for coolton, or is remembered. *)
ChatLine(c) ==
  /\ sentLines[c] = "unsent"
  /\ sentLines' = [sentLines EXCEPT ![c] = "heard"]
  /\ \/ lineQueue' = Append(lineQueue, c) /\ UNCHANGED talk
     \/ /\ talk' = [Remember(talk, c) EXCEPT
                     !.slipped = @ \/ (ear.spec # 0 /\ Len(talk.heard) >= HeardLines)]
        /\ UNCHANGED lineQueue
  /\ UNCHANGED <<ear, hand, greeted>>

(* A reply starts a task, at most one, and its result comes back. *)
Delegate(r, t) ==
  /\ talk.replies[r].at = "running" /\ talk.replies[r].confirmed
  /\ ~talk.replies[r].fixed /\ ~talk.replies[r].delegated
  /\ sentLines[t] = "unsent"
  /\ sentLines' = [sentLines EXCEPT ![t] = "at work"]
  /\ talk' = [talk EXCEPT !.replies[r].delegated = TRUE]
  /\ UNCHANGED <<lineQueue, ear, hand, greeted>>

DelegationDone(t) ==
  /\ sentLines[t] = "at work"
  /\ sentLines' = [sentLines EXCEPT ![t] = "heard"]
  /\ lineQueue' = Append(lineQueue, t)
  /\ UNCHANGED <<talk, ear, hand, greeted>>

(* _work takes a line, waits until nothing is said, and answers it with     *)
(* what else is waiting.                                                    *)
TakeLine ==
  /\ hand = [line |-> NoLine, reply |-> 0] /\ lineQueue # <<>>
  /\ hand' = [hand EXCEPT !.line = Head(lineQueue)]
  /\ lineQueue' = Tail(lineQueue)
  /\ UNCHANGED <<talk, sentLines, ear, greeted>>

AnswerLine ==
  /\ hand.line # NoLine
  /\ talk.reply = 0 /\ talk.spec = 0 /\ ~talk.barge /\ ~talk.talking
  /\ HasReplies(1)
  /\ talk' = [StartReply(talk, {hand.line} \cup ToSet(lineQueue), TRUE) EXCEPT
               !.slipped = @ \/ ear.spec # 0]
  /\ lineQueue' = <<>>
  /\ hand' = [line |-> NoLine, reply |-> Len(talk'.replies)]
  /\ UNCHANGED <<sentLines, ear, greeted>>

AnswerIsOver ==
  /\ hand.reply # 0 /\ talk.replies[hand.reply].at = "over"
  /\ hand' = [hand EXCEPT !.reply = 0]
  /\ UNCHANGED <<talk, lineQueue, sentLines, ear, greeted>>

Greet ==
  /\ ~greeted /\ HasReplies(1)
  /\ greeted' = TRUE
  /\ talk' = Speak(talk)
  /\ UNCHANGED <<lineQueue, sentLines, ear, hand>>

----------------------------------------------------------------------------
(* _run_reply. *)

Over(s, r) == [s EXCEPT !.replies[r].at = "over", !.reply = IF @ = r THEN 0 ELSE @]

(* _act: a sentence is said, or posted, once the reply is confirmed. *)
Act(r) ==
  /\ talk.replies[r].at = "running" /\ talk.replies[r].confirmed
  /\ \E spoken \in BOOLEAN :
       talk' = [talk EXCEPT !.replies[r].acted = TRUE, !.replies[r].spoke = @ \/ spoken]
  /\ UNCHANGED <<lineQueue, sentLines, ear, hand, greeted>>

(* All of it was written, and heard: while someone talks over it, what it   *)
(* said is paused.                                                          *)
EndReply(r) ==
  LET reply == talk.replies[r] IN
  /\ reply.at = "running" /\ reply.confirmed
  /\ ~(talk.barge /\ reply.spoke)
  /\ reply.fixed => reply.acted
  /\ talk' = [Over(talk, r) EXCEPT !.recalled = @ \cup reply.lines]
  /\ UNCHANGED <<lineQueue, sentLines, ear, hand, greeted>>

(* Every model failed, or one after the reply did something. *)
ReplyFails(r) ==
  LET reply == talk.replies[r]
      s     == [Over(talk, r) EXCEPT !.over = @ \cup (IF reply.confirmed THEN reply.lines ELSE {})]
  IN /\ reply.at = "running"
     /\ IF reply.confirmed /\ ~reply.acted
          THEN HasReplies(1) /\ talk' = Speak(s)
          ELSE talk' = s
     /\ UNCHANGED <<lineQueue, sentLines, ear, hand, greeted>>

ReplyCancelled(r) ==
  /\ talk.replies[r].at = "cancelled"
  /\ talk' = Over(SettleInterrupted(talk, r), r)
  /\ UNCHANGED <<lineQueue, sentLines, ear, hand, greeted>>

----------------------------------------------------------------------------
TalkNext ==
  \/ \E v \in VoiceLines : StartOfTurn(v)
  \/ Update \/ Cleared \/ EagerEndOfTurn \/ TurnResumed \/ EndOfTurn \/ EndTurnCleared
  \/ HearingDrops
  \/ \E c \in ChatLines : ChatLine(c)
  \/ \E t \in TaskLines : DelegationDone(t) \/ \E r \in DOMAIN talk.replies : Delegate(r, t)
  \/ TakeLine \/ AnswerLine \/ AnswerIsOver \/ Greet
  \/ \E r \in DOMAIN talk.replies : Act(r) \/ EndReply(r) \/ ReplyFails(r) \/ ReplyCancelled(r)

TalkSpec == TalkInit /\ [][TalkNext]_talkVars

----------------------------------------------------------------------------
TalkTypeOK ==
  /\ talk.heard \in Seq(SUBSET Lines)
  /\ {talk.reply, talk.spec, ear.spec, hand.reply} \subseteq 0..Len(talk.replies)
  /\ \A r \in DOMAIN talk.replies :
       /\ talk.replies[r].lines \subseteq Lines
       /\ talk.replies[r].at \in {"running", "cancelled", "over"}
  /\ lineQueue \in Seq(Lines)
  /\ sentLines \in [Lines -> {"unsent", "at work", "heard"}]
  /\ {ear.line, hand.line} \subseteq Lines \cup {NoLine}

(* The prompts coolton is answering, or has let go of without an end. *)
Answering == Unfinished(talk) \cup ({talk.reply} \ {0})

(* Two slips aside (a reply put in the place of an unfinished one, and      *)
(* context taken or trimmed while _end_turn, about to confirm a reply,      *)
(* awaits voice.clear), every line said, typed or brought back by a task is *)
(* in one place: waiting in the queue or with the worker, heard as context, *)
(* being answered, or in the history; only the oldest context, a turn cut   *)
(* off, and what a failed reply was answering are let go of.  Speculative   *)
(* replies, interruptions and the trimming of the context neither drop a    *)
(* line nor answer it twice.                                                *)
LinesAreKept ==
  ~talk.slipped =>
    /\ \A l \in Lines : sentLines[l] = "heard" =>
         \/ l \in ToSet(lineQueue) \cup (UNION ToSet(talk.heard)) \cup talk.recalled \cup talk.over
         \/ l \in {ear.line, hand.line}
         \/ \E r \in Answering : l \in talk.replies[r].lines
    /\ \A i \in DOMAIN talk.heard :
         /\ talk.heard[i] \cap talk.recalled = {}
         /\ \A j \in DOMAIN talk.heard : i # j => talk.heard[i] \cap talk.heard[j] = {}
         /\ \A r \in Answering : talk.heard[i] \cap talk.replies[r].lines = {}
    /\ \A r \in Answering : talk.replies[r].lines \cap talk.recalled = {}
============================================================================
