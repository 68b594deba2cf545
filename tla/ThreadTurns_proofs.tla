------------------------ MODULE ThreadTurns_proofs ------------------------
(***************************************************************************)
(* What is proved of ThreadTurns for every thread: any number of messages, *)
(* senders, turns in flight, tool rounds, attempts, crashes and stops.     *)
(* First what each turn may do: whose mark it leaves, whom it answers and  *)
(* which stop reaches it; then where the messages are: each is in one      *)
(* place, none vanishes, a death resumes the turn it cut short, and        *)
(* ThreadTurns implements Inbox.                                           *)
(***************************************************************************)
EXTENDS ThreadTurns, SequenceTheorems, TLAPS

(* The elements of a sequence over S are in S. *)
LEMMA ToSetType ==
  ASSUME NEW S, NEW s \in Seq(S)
  PROVE  ToSet(s) \subseteq S
BY DEF ToSet

(* The constants, one by one. *)
LEMMA ConstantsType ==
  /\ MaxDepth \in Nat /\ MaxRounds \in Nat /\ MaxTries \in Nat
  /\ MaxCrashes \in Nat /\ MaxStops \in Nat /\ MaxBans \in Nat
  /\ \A m \in Messages : Sender[m] \in Users
BY ThreadTurnsAssumption

(* A frame stays a frame when one of its fields is set. *)
LEMMA FieldType ==
  ASSUME NEW t \in Turn, NEW s \in SUBSET Messages
  PROVE  /\ [t EXCEPT !.seen = s] \in Turn
         /\ [t EXCEPT !.safe = s] \in Turn
         /\ [t EXCEPT !.base = s] \in Turn
         /\ t.seen \in SUBSET Messages /\ t.safe \in SUBSET Messages /\ t.base \in SUBSET Messages
         /\ t.prompt \in Seq(Messages) /\ t.user \in Users \cup {None}
         /\ t.depth \in 0..MaxDepth
BY DEF Turn

LEMMA CounterType ==
  ASSUME NEW t \in Turn
  PROVE  /\ t.rounds < MaxRounds => [t EXCEPT !.rounds = @ + 1] \in Turn
         /\ t.tries + 1 < MaxTries => [t EXCEPT !.tries = @ + 1] \in Turn
<1>1. t.rounds < MaxRounds => t.rounds + 1 \in 0..MaxRounds
  BY ConstantsType DEF Turn
<1>2. t.tries + 1 < MaxTries => t.tries + 1 \in 0..MaxTries
  BY ConstantsType DEF Turn
<1> QED
  BY <1>1, <1>2 DEF Turn

(* The bounded events stay within their bounds. *)
LEMMA SpentType ==
  ASSUME NEW s \in [crashes: 0..MaxCrashes, stops: 0..MaxStops, bans: 0..MaxBans]
  PROVE  LET Spent == [crashes: 0..MaxCrashes, stops: 0..MaxStops, bans: 0..MaxBans]
         IN  /\ s.crashes < MaxCrashes => [s EXCEPT !.crashes = @ + 1] \in Spent
             /\ s.stops < MaxStops => [s EXCEPT !.stops = @ + 1] \in Spent
             /\ s.bans < MaxBans => [s EXCEPT !.bans = @ + 1] \in Spent
<1>1. /\ s.crashes < MaxCrashes => s.crashes + 1 \in 0..MaxCrashes
      /\ s.stops < MaxStops => s.stops + 1 \in 0..MaxStops
      /\ s.bans < MaxBans => s.bans + 1 \in 0..MaxBans
  BY ConstantsType
<1> QED
  BY <1>1

(* What a turn has taken, and what the files could resume, are messages. *)
LEMMA CustodyType ==
  ASSUME TypeOK, NEW w \in Workers
  PROVE  /\ Custody(w) \subseteq Messages
         /\ ToSet(turn[w].prompt) \subseteq Messages
<1>1. /\ turn[w].prompt \in Seq(Messages)
      /\ turn[w].seen \subseteq Messages
  BY DEF TypeOK, Turn
<1> QED
  BY <1>1, ToSetType DEF Custody

LEMMA InHandType ==
  ASSUME TypeOK
  PROVE  InHand \subseteq Messages
BY CustodyType DEF InHand, Live

LEMMA OrphanedType ==
  ASSUME TypeOK
  PROVE  /\ Orphaned \subseteq Messages
         /\ LoadCheckpoint \subseteq Messages
         /\ ToLoad \subseteq Messages
<1>1. checkpoint # None => checkpoint \subseteq Messages
  BY DEF TypeOK
<1>2. record # None => ToSet(record.prompt) \subseteq Messages
  BY ToSetType DEF TypeOK
<1> QED
  BY <1>1, <1>2 DEF Orphaned, LoadCheckpoint, ToLoad

(* A new frame is a frame. *)
LEMMA NewTurnType ==
  ASSUME NEW prompt \in Seq(Messages), NEW user \in Users \cup {None}, NEW depth \in 0..MaxDepth
  PROVE  NewTurn(prompt, user, depth) \in Turn
BY ThreadTurnsAssumption DEF NewTurn, Turn

LEMMA NoTurnType == NoTurn \in Turn
<1>1. <<>> \in Seq(Messages)
  OBVIOUS
<1>2. 0 \in 0..MaxDepth
  BY ThreadTurnsAssumption
<1> QED
  BY <1>1, <1>2, NewTurnType DEF NoTurn

LEMMA ReturnType ==
  ASSUME TypeOK, NEW w \in Workers, Return(w)
  PROVE  /\ pc' \in [Workers -> PCs]
         /\ turn' \in [Workers -> Turn]
BY NoTurnType DEF TypeOK, Return, Goto, PCs

(* Taking the messages of the next sender: a turn's worth, and what is left. *)
LEMMA TakeType ==
  ASSUME TypeOK, NEW n \in 1..Len(queue)
  PROVE  /\ SubSeq(queue, 1, n) \in Seq(Messages)
         /\ SubSeq(queue, n + 1, Len(queue)) \in Seq(Messages)
         /\ Sender[queue[n]] \in Users
<1>1. queue \in Seq(Messages)
  BY DEF TypeOK
<1>2. queue[n] \in Messages
  BY <1>1
<1>3. SubSeq(queue, 1, n) \in Seq(Messages) /\ SubSeq(queue, n + 1, Len(queue)) \in Seq(Messages)
  BY <1>1
<1> QED
  BY <1>2, <1>3, ThreadTurnsAssumption

----------------------------------------------------------------------------
LEMMA TypeInit == Init => TypeOK
BY ThreadTurnsAssumption, NoTurnType
DEF Init, TypeOK, Workers, PCs, HandlerPC, StartPC, RunPC, EndPC

LEMMA TypeStep == TypeOK /\ [Next]_vars => TypeOK'
<1> SUFFICES ASSUME TypeOK, [Next]_vars
             PROVE  TypeOK'
  OBVIOUS
<1> USE ThreadTurnsAssumption DEF memory, disk, ghosts
<1>1. ASSUME NEW m \in Messages, Ignore(m) \/ Steer(m) PROVE TypeOK'
  BY <1>1, ZenonT(60) DEF Ignore, Steer, TypeOK, Goto, PCs, HandlerPC
<1>2. ASSUME NEW m \in Messages, QueueSteering(m) PROVE TypeOK'
  <2>1. Append(queue, m) \in Seq(Messages)
    BY DEF TypeOK
  <2> QED
    BY <1>2, <2>1 DEF QueueSteering, QueueSteeringMessage, TypeOK, Goto, PCs, HandlerPC
<1>3. ASSUME NEW m \in Messages, Start(m) PROVE TypeOK'
  <2>1. <<m>> \in Seq(Messages) /\ Sender[m] \in Users /\ 0 \in 0..MaxDepth
    BY ConstantsType
  <2>2. NewTurn(<<m>>, Sender[m], 0) \in Turn
    BY <2>1, NewTurnType
  <2> QED
    BY <1>3, <2>2 DEF Start, TypeOK, Goto, PCs, StartPC, Workers
<1>4. ASSUME NEW m \in Messages, HandlerFails(m) PROVE TypeOK'
  BY <1>4, CustodyType, ReturnType DEF HandlerFails, TypeOK, Workers
<1>5. ASSUME NEW w \in Workers, ReadHistory(w) PROVE TypeOK'
  <2> DEFINE t == turn[w]
             s == IF t.seen = {} THEN history \cup ToSet(t.prompt) ELSE t.seen
  <2>1. t \in Turn /\ s \in SUBSET Messages /\ history \in SUBSET Messages
    BY CustodyType, FieldType DEF TypeOK
  <2>2. [[t EXCEPT !.base = history] EXCEPT !.seen = s] \in Turn
    BY <2>1, FieldType
  <2>3. turn' = [turn EXCEPT ![w] = [[t EXCEPT !.base = history] EXCEPT !.seen = s]]
    BY <1>5 DEF ReadHistory, TypeOK
  <2>4. turn' \in [Workers -> Turn]
    BY <2>2, <2>3 DEF TypeOK
  <2> QED
    BY <1>5, <2>4 DEF ReadHistory, TypeOK, Goto, PCs, StartPC
<1>6. ASSUME NEW w \in Workers, Refuse(w) PROVE TypeOK'
  BY <1>6, CustodyType, ReturnType DEF Refuse, TypeOK
<1>7. ASSUME NEW w \in Workers, Mark(w) PROVE TypeOK'
  BY <1>7 DEF Mark, MarkRunStarted, TypeOK, Goto, PCs, StartPC
<1>8. ASSUME NEW w \in Workers, Record(w) PROVE TypeOK'
  <2>1. record' \in [prompt: Seq(Messages), user: Users \cup {None}]
    BY <1>8 DEF Record, RecordStart, TypeOK, Turn
  <2>2. lost' \subseteq Messages
    BY <1>8, OrphanedType DEF Record, TypeOK
  <2> QED
    BY <1>8, <2>1, <2>2 DEF Record, TypeOK, Goto, PCs, StartPC
<1>9. ASSUME NEW w \in Workers, StartClean(w) \/ Forget(w) PROVE TypeOK'
  <2>1. lost' \subseteq Messages
    BY <1>9, OrphanedType DEF StartClean, Forget, LoseUnread, TypeOK
  <2> QED
    BY <1>9, <2>1 DEF StartClean, Forget, UnlinkCheckpoint, TypeOK, Goto, PCs, RunPC, EndPC
<1>10. ASSUME NEW w \in Workers, RecordFails(w) PROVE TypeOK'
  <2>1. lost' \subseteq Messages /\ settled' \subseteq Messages
    BY <1>10, CustodyType DEF RecordFails, TypeOK
  <2> QED
    BY <1>10, <2>1, ReturnType DEF RecordFails, TypeOK
<1>11. ASSUME NEW w \in Workers, RunAgent(w) PROVE TypeOK'
  <2>1. turn[w] \in Turn
    BY DEF TypeOK
  <2>2. turn' = [turn EXCEPT ![w] = [turn[w] EXCEPT !.safe = turn[w].seen]]
    BY <1>11 DEF RunAgent, TypeOK
  <2>3. turn' \in [Workers -> Turn]
    BY <2>1, <2>2, FieldType DEF TypeOK
  <2> QED
    BY <1>11, <2>3 DEF RunAgent, TypeOK, Goto, PCs, RunPC
<1>12. ASSUME NEW w \in Workers, Request(w) PROVE TypeOK'
  <2>1. lost' \subseteq Messages /\ mishaps' \subseteq {"overlap", "resume", "crossed", "torn", "disk"}
    BY <1>12, OrphanedType DEF Request, LoseUnread, TypeOK
  <2> QED
    BY <1>12, <2>1 DEF Request, SaveCheckpoint, TypeOK, Turn, Goto, PCs, RunPC
<1>13. ASSUME NEW w \in Workers, CallTool(w) PROVE TypeOK'
  <2> DEFINE t == [turn[w] EXCEPT !.safe = turn[w].seen]
  <2> turn[w] \in Turn
    BY DEF TypeOK
  <2>1. t \in Turn /\ t.rounds = turn[w].rounds
    BY FieldType DEF Turn
  <2>2. [t EXCEPT !.rounds = @ + 1] \in Turn
    BY <1>13, <2>1, CounterType DEF CallTool
  <2>3. turn' = [turn EXCEPT ![w] = [t EXCEPT !.rounds = @ + 1]]
    BY <1>13 DEF CallTool, TypeOK, Turn
  <2>4. turn' \in [Workers -> Turn]
    BY <2>2, <2>3 DEF TypeOK
  <2> QED
    BY <1>13, <2>4 DEF CallTool, TypeOK, Goto, PCs, RunPC
<1>14. ASSUME NEW w \in Workers, ToolReturns(w) PROVE TypeOK'
  <2>1. ToSet(queue) \subseteq Messages
    BY ToSetType DEF TypeOK
  <2>2. turn[w] \in Turn /\ turn[w].seen \cup ToSet(queue) \in SUBSET Messages
    BY <2>1, FieldType DEF TypeOK
  <2>3. \/ turn' = turn
        \/ turn' = [turn EXCEPT ![w] = [turn[w] EXCEPT !.seen = turn[w].seen \cup ToSet(queue)]]
    BY <1>14 DEF ToolReturns, TypeOK
  <2>4. [turn[w] EXCEPT !.seen = turn[w].seen \cup ToSet(queue)] \in Turn
    BY <2>2, FieldType
  <2>5. turn' \in [Workers -> Turn]
    BY <2>3, <2>4 DEF TypeOK
  <2>6. <<>> \in Seq(Messages)
    OBVIOUS
  <2>7. queue' \in Seq(Messages)
    BY <1>14, <2>6 DEF ToolReturns, TypeOK
  <2> QED
    BY <1>14, <2>5, <2>7 DEF ToolReturns, TypeOK, Goto, PCs, RunPC
<1>15. ASSUME NEW w \in Workers, Halt(w) PROVE TypeOK'
  <2>1. turn[w] \in Turn
    BY DEF TypeOK
  <2>2. turn' = [turn EXCEPT ![w] = [turn[w] EXCEPT !.safe = turn[w].seen]]
    BY <1>15 DEF Halt, TypeOK
  <2>3. turn' \in [Workers -> Turn]
    BY <2>1, <2>2, FieldType DEF TypeOK
  <2> QED
    BY <1>15, <2>3, CustodyType DEF Halt, TypeOK, Goto, PCs, RunPC
<1>16. ASSUME NEW w \in Workers, Skip(w) PROVE TypeOK'
  <2>1. PICK kept \in {turn[w].base, turn[w].safe} : turn' = [turn EXCEPT ![w].seen = kept]
    BY <1>16 DEF Skip
  <2>2. turn[w] \in Turn /\ kept \in SUBSET Messages
    BY FieldType DEF TypeOK
  <2>3. turn' = [turn EXCEPT ![w] = [turn[w] EXCEPT !.seen = kept]]
    BY <2>1 DEF TypeOK
  <2>4. turn' \in [Workers -> Turn]
    BY <2>2, <2>3, FieldType DEF TypeOK
  <2> QED
    BY <1>16, <2>4, CustodyType DEF Skip, TypeOK, Goto, PCs, RunPC
<1>17. ASSUME NEW w \in Workers, AttemptFails(w) PROVE TypeOK'
  <2> DEFINE t == [turn[w] EXCEPT !.seen = turn[w].safe]
  <2> turn[w] \in Turn
    BY DEF TypeOK
  <2>1. t \in Turn /\ t.tries = turn[w].tries
    BY FieldType DEF Turn
  <2>2. [t EXCEPT !.tries = @ + 1] \in Turn
    BY <1>17, <2>1, CounterType DEF AttemptFails
  <2>3. turn' = [turn EXCEPT ![w] = [t EXCEPT !.tries = @ + 1]]
    BY <1>17 DEF AttemptFails, TypeOK, Turn
  <2>6. turn' \in [Workers -> Turn]
    BY <2>2, <2>3 DEF TypeOK
  <2>4. turn[w].seen \subseteq Messages
    BY FieldType DEF TypeOK
  <2>5. lost' \subseteq Messages
    BY <1>17, <2>4 DEF AttemptFails, TypeOK
  <2> QED
    BY <1>17, <2>5, <2>6 DEF AttemptFails, TypeOK, Goto, PCs, RunPC
<1>18. ASSUME NEW w \in Workers, TurnFails(w) \/ PostReply(w) PROVE TypeOK'
  BY <1>18, CustodyType, ZenonT(60) DEF TurnFails, PostReply, TypeOK, Goto, PCs, RunPC, EndPC
<1>19. ASSUME NEW w \in Workers, SetHistory(w) PROVE TypeOK'
  BY <1>19 DEF SetHistory, TypeOK, Turn, Goto, PCs, EndPC
<1>20. ASSUME NEW w \in Workers, Unmark(w) PROVE TypeOK'
  BY <1>20 DEF Unmark, MarkRunFinished, TypeOK, Goto, PCs, EndPC
<1>21. ASSUME NEW w \in Workers, Unrecord(w) PROVE TypeOK'
  BY <1>21 DEF Unrecord, RecordFinished, TypeOK, Goto, PCs, EndPC
<1>22. ASSUME NEW w \in Workers, UnrecordFails(w) \/ DrainNothing(w) PROVE TypeOK'
  BY <1>22, ReturnType DEF UnrecordFails, DrainNothing, TypeOK
<1>23. ASSUME NEW w \in Workers, DrainNext(w) PROVE TypeOK'
  <2>1. PICK n \in 1..Len(queue) :
           /\ IsNextSenderRun(n)
           /\ turn' = [turn EXCEPT ![w] = NewTurn(SubSeq(queue, 1, n), Sender[queue[n]], @.depth + 1)]
           /\ queue' = SubSeq(queue, n + 1, Len(queue))
    BY <1>23 DEF DrainNext
  <2> turn[w].depth \in 0..MaxDepth /\ turn[w].depth < MaxDepth
    BY <1>23, FieldType DEF DrainNext, TypeOK
  <2>2. turn[w].depth + 1 \in 0..MaxDepth
    BY ConstantsType
  <2>3. NewTurn(SubSeq(queue, 1, n), Sender[queue[n]], turn[w].depth + 1) \in Turn
    BY <2>2, TakeType, NewTurnType
  <2>4. turn' \in [Workers -> Turn] /\ queue' \in Seq(Messages)
    BY <2>1, <2>3, TakeType DEF TypeOK
  <2> QED
    BY <1>23, <2>4 DEF DrainNext, TypeOK, Goto, PCs, StartPC
<1>24. ASSUME NEW w \in Workers, DrainTooDeep(w) PROVE TypeOK'
  <2>1. ToSet(queue) \subseteq Messages
    BY ToSetType DEF TypeOK
  <2> QED
    BY <1>24, <2>1, ReturnType DEF DrainTooDeep, TypeOK
<1>25. ASSUME Stop PROVE TypeOK'
  BY <1>25, SpentType DEF Stop, RequestStop, TypeOK
<1>26. ASSUME SetBan PROVE TypeOK'
  BY <1>26, SpentType DEF SetBan, TypeOK
<1>27. ASSUME Crash PROVE TypeOK'
  <2>1. lost' \subseteq Messages
    BY <1>27, InHandType, OrphanedType, ToSetType DEF Crash, TypeOK
  <2>2. pc' \in [Workers -> PCs] /\ turn' \in [Workers -> Turn]
    BY <1>27, NoTurnType DEF Crash, TypeOK, PCs
  <2>3. spent' \in [crashes: 0..MaxCrashes, stops: 0..MaxStops, bans: 0..MaxBans]
    BY <1>27, SpentType DEF Crash, TypeOK
  <2> QED
    BY <1>27, <2>1, <2>2, <2>3 DEF Crash, TypeOK
<1>28. ASSUME Boot PROVE TypeOK'
  BY <1>28 DEF Boot, TypeOK
<1>29. ASSUME PopAll PROVE TypeOK'
  <2>1. CASE record = None
    BY <1>29, <2>1 DEF PopAll, TypeOK
  <2>2. CASE record # None
    <3>1. /\ record.prompt \in Seq(Messages)
          /\ record.user \in Users \cup {None}
      BY <2>2 DEF TypeOK
    <3>2. NewTurn(record.prompt, record.user, 0) \in Turn
      <4>1. 0 \in 0..MaxDepth
        BY ConstantsType
      <4> QED
        BY <3>1, <4>1, NewTurnType
    <3>3. turn' \in [Workers -> Turn] /\ pc' \in [Workers -> PCs]
      BY <1>29, <2>2, <3>2, SMTT(120) DEF PopAll, TypeOK, Goto, PCs, StartPC, Workers
    <3> QED
      BY <1>29, <2>2, <3>3 DEF PopAll, TypeOK
  <2> QED
    BY <2>1, <2>2
<1>30. ASSUME Resume PROVE TypeOK'
  <2>1. turn[Resumer] \in Turn
    BY DEF TypeOK, Workers
  <2>2. [turn[Resumer] EXCEPT !.seen = LoadCheckpoint] \in Turn
    BY <2>1, OrphanedType, FieldType
  <2>3. ToSet(turn[Resumer].prompt) \subseteq Messages
    BY <2>1, ToSetType DEF Turn
  <2>4. turn' = [turn EXCEPT ![Resumer] = [turn[Resumer] EXCEPT !.seen = LoadCheckpoint]]
    BY <1>30 DEF Resume, TypeOK
  <2>5. turn' \in [Workers -> Turn] /\ pc' \in [Workers -> PCs]
    BY <1>30, <2>2, <2>4 DEF Resume, TypeOK, Goto, PCs, StartPC, Workers
  <2>6. lost' \subseteq Messages
    BY <1>30, <2>3 DEF Resume, TypeOK
  <2> QED
    BY <1>30, <2>5, <2>6 DEF Resume, TypeOK, disk, memory
<1>31. CASE UNCHANGED vars
  BY <1>31 DEF TypeOK, vars
<1>32. ASSUME NEW w \in Workers, TurnStep(w) PROVE TypeOK'
  BY <1>32, <1>5, <1>6, <1>7, <1>8, <1>9, <1>10, <1>11, <1>12, <1>13, <1>14, <1>15, <1>16,
     <1>17, <1>18, <1>19, <1>20, <1>21, <1>22, <1>23, <1>24 DEF TurnStep
<1> QED
  BY <1>1, <1>2, <1>3, <1>4, <1>25, <1>26, <1>27, <1>28, <1>29, <1>30, <1>31, <1>32 DEF Next, Arrival

(* Every variable keeps its type, in every reachable state. *)
THEOREM TypeInvariant == Spec => []TypeOK
<1>1. Init => TypeOK
  BY TypeInit
<1>2. TypeOK /\ [Next]_vars => TypeOK'
  BY TypeStep
<1> QED
  BY <1>1, <1>2, PTL DEF Spec

----------------------------------------------------------------------------
(* A step of a turn is made by a live worker, moves that worker alone and   *)
(* leaves the process and the steps' kinds of mishap in place.              *)
LEMMA TurnStepMoves ==
  ASSUME TypeOK, NEW w \in Workers, TurnStep(w)
  PROVE  /\ pc[w] \in LivePC
         /\ pc' = [pc EXCEPT ![w] = pc'[w]]
         /\ pc'[w] \in LivePC \cup {"done"}
         /\ pc[w] # "loading" /\ pc'[w] # "loading"
         /\ UNCHANGED proc
         /\ mishaps \subseteq mishaps'
<1> USE DEF memory, disk, ghosts, LivePC, StartPC, RunPC, EndPC, TypeOK, Goto, Return
<1>1. CASE ReadHistory(w) \/ Mark(w) \/ Record(w) \/ StartClean(w)
  BY <1>1 DEF ReadHistory, Mark, Record, StartClean
<1>2. CASE Refuse(w) \/ RecordFails(w) \/ UnrecordFails(w) \/ DrainNothing(w) \/ DrainTooDeep(w)
  BY <1>2 DEF Refuse, RecordFails, UnrecordFails, DrainNothing, DrainTooDeep
<1>3. CASE RunAgent(w) \/ Request(w) \/ CallTool(w) \/ ToolReturns(w) \/ AttemptFails(w)
  BY <1>3 DEF RunAgent, Request, CallTool, ToolReturns, AttemptFails
<1>4. CASE Halt(w) \/ Skip(w) \/ TurnFails(w) \/ PostReply(w) \/ SetHistory(w)
  BY <1>4 DEF Halt, Skip, TurnFails, PostReply, SetHistory
<1>5. CASE Unmark(w) \/ Unrecord(w) \/ Forget(w) \/ DrainNext(w)
  BY <1>5 DEF Unmark, Unrecord, Forget, DrainNext
<1> QED
  BY <1>1, <1>2, <1>3, <1>4, <1>5 DEF TurnStep

(* What a turn's step does to active_runs.                                  *)
LEMMA TurnStepMarks ==
  ASSUME TypeOK, NEW w \in Workers, TurnStep(w)
  PROVE  \/ active' = w /\ pc'[w] = "recording"
         \/ active' = (IF active = w THEN None ELSE active)
         \/ "disk" \in mishaps'
         \/ active' = active /\ (pc[w] \in MarkedPC => pc'[w] \in MarkedPC)
<1> USE DEF memory, disk, ghosts, MarkedPC, RunPC, TypeOK, Goto, Return
<1>1. CASE ReadHistory(w) \/ Refuse(w) \/ Unrecord(w) \/ Forget(w)
  BY <1>1 DEF ReadHistory, Refuse, Unrecord, Forget
<1>2. CASE Record(w) \/ StartClean(w) \/ RunAgent(w) \/ Request(w) \/ CallTool(w)
  BY <1>2 DEF Record, StartClean, RunAgent, Request, CallTool
<1>3. CASE ToolReturns(w) \/ AttemptFails(w) \/ Halt(w) \/ Skip(w)
  BY <1>3 DEF ToolReturns, AttemptFails, Halt, Skip
<1>4. CASE TurnFails(w) \/ PostReply(w) \/ SetHistory(w)
  BY <1>4 DEF TurnFails, PostReply, SetHistory
<1>5. CASE DrainNothing(w) \/ DrainNext(w) \/ DrainTooDeep(w)
  BY <1>5 DEF DrainNothing, DrainNext, DrainTooDeep
<1>6. CASE Mark(w) \/ Unmark(w)
  BY <1>6 DEF Mark, MarkRunStarted, Unmark, MarkRunFinished
<1>7. CASE RecordFails(w) \/ UnrecordFails(w)
  BY <1>7 DEF RecordFails, UnrecordFails
<1> QED
  BY <1>1, <1>2, <1>3, <1>4, <1>5, <1>6, <1>7 DEF TurnStep

(* The resuming thread only lives in a process that finished starting, and  *)
(* dies with it: while coolton starts, its turn has at most been taken.     *)
ResumerIsIdle ==
  /\ pc[Resumer] \notin HandlerPC
  /\ proc # "up" => pc[Resumer] \notin LivePC \ {"loading"}
  /\ \A w \in Workers : pc[w] = "loading" => w = Resumer /\ proc = "booting"

MarkInv == TypeOK /\ MarkIsOwned /\ ResumerIsIdle

LEMMA MarkInvStep == MarkInv /\ TypeOK' /\ [Next]_vars => MarkInv'
<1> SUFFICES ASSUME MarkInv, TypeOK', [Next]_vars
             PROVE  MarkIsOwned' /\ ResumerIsIdle'
  BY DEF MarkInv
<1> TypeOK /\ MarkIsOwned /\ ResumerIsIdle
  BY DEF MarkInv
<1> Resumer \notin Messages /\ None \notin Workers
  BY ThreadTurnsAssumption DEF Workers
<1> USE DEF memory, disk, ghosts
<1>1. ASSUME NEW w \in Workers, TurnStep(w) PROVE MarkIsOwned' /\ ResumerIsIdle'
  <2>0. /\ pc[w] \in LivePC
        /\ pc' = [pc EXCEPT ![w] = pc'[w]]
        /\ pc'[w] \in LivePC \cup {"done"}
        /\ pc[w] # "loading" /\ pc'[w] # "loading"
        /\ proc' = proc
        /\ mishaps \subseteq mishaps'
        /\ Resumer \in Workers
        /\ pc \in [Workers -> PCs]
    BY <1>1, TurnStepMoves DEF Workers, TypeOK
  <2>1. ResumerIsIdle'
    <3>1. CASE w = Resumer
      BY <2>0, <3>1 DEF ResumerIsIdle, LivePC, HandlerPC, StartPC, RunPC, EndPC
    <3>2. CASE w # Resumer
      BY <2>0, <3>2 DEF ResumerIsIdle
    <3> QED
      BY <3>1, <3>2
  <2>2. MarkIsOwned'
    <3>1. active' # None => active' \in Workers
      BY DEF TypeOK
    <3>2. CASE active' = w /\ pc'[w] = "recording"
      BY <2>0, <3>2 DEF MarkIsOwned, MarkedPC
    <3>3. CASE active' = (IF active = w THEN None ELSE active)
      BY <2>0, <3>1, <3>3 DEF MarkIsOwned
    <3>4. CASE "disk" \in mishaps'
      BY <3>4 DEF MarkIsOwned
    <3>5. CASE active' = active /\ (pc[w] \in MarkedPC => pc'[w] \in MarkedPC)
      BY <2>0, <3>1, <3>5 DEF MarkIsOwned
    <3> QED
      BY <1>1, <3>2, <3>3, <3>4, <3>5, TurnStepMarks
  <2> QED
    BY <2>1, <2>2
<1>2. ASSUME NEW m \in Messages, Ignore(m) \/ Steer(m) \/ QueueSteering(m) \/ HandlerFails(m)
      PROVE MarkIsOwned' /\ ResumerIsIdle'
  <2>1. /\ pc[m] \in {"sent", "queueing", "starting"}
        /\ \E l \in {"ignored", "queueing", "queued", "done"} : Goto(m, l)
        /\ UNCHANGED <<proc, active, mishaps>>
    BY <1>2 DEF Ignore, Steer, QueueSteering, HandlerFails, CanArrive, Return
  <2> QED
    BY <2>1 DEF Goto, MarkIsOwned, ResumerIsIdle, TypeOK, MarkedPC, RunPC, Workers
<1>3. ASSUME NEW m \in Messages, Start(m) PROVE MarkIsOwned' /\ ResumerIsIdle'
  BY <1>3 DEF Start, Goto, MarkIsOwned, ResumerIsIdle, TypeOK, Workers
<1>4. CASE Stop \/ SetBan \/ UNCHANGED vars
  BY <1>4 DEF Stop, SetBan, vars, MarkIsOwned, ResumerIsIdle
<1>5. CASE Crash
  BY <1>5 DEF Crash, MarkIsOwned, ResumerIsIdle, Live, LivePC, HandlerPC, StartPC, RunPC, EndPC, Workers
<1>6. CASE Boot
  BY <1>6 DEF Boot, MarkIsOwned, ResumerIsIdle
<1>7. CASE PopAll \/ Resume
  <2>1. /\ active' = active
        /\ \/ proc' = "up" /\ pc' = pc
           \/ proc' = proc /\ proc = "booting" /\ pc' = [pc EXCEPT ![Resumer] = "loading"]
           \/ proc' = "up" /\ pc' = [pc EXCEPT ![Resumer] = "starting"]
        /\ pc' = pc => pc[Resumer] # "loading"
        /\ mishaps \subseteq mishaps'
        /\ pc[Resumer] \notin LivePC \ {"loading"}
    <3>1. CASE PopAll
      BY <3>1 DEF PopAll, Goto, ResumerIsIdle, memory
    <3>2. CASE Resume
      <4>1. pc[Resumer] = "loading" /\ pc' = [pc EXCEPT ![Resumer] = "starting"] /\ proc' = "up"
            /\ active' = active /\ mishaps' = mishaps
        BY <3>2 DEF Resume, Goto, memory
      <4>2. pc'[Resumer] = "starting"
        BY <4>1 DEF TypeOK, Workers
      <4> QED
        BY <4>1, <4>2
    <3> QED
      BY <1>7, <3>1, <3>2
  <2>2. ResumerIsIdle'
    BY <2>1 DEF ResumerIsIdle, TypeOK, LivePC, HandlerPC, StartPC, RunPC, EndPC, Workers
  <2> QED
    BY <2>1, <2>2 DEF MarkIsOwned, TypeOK, LivePC, MarkedPC, StartPC, RunPC, EndPC, Workers
<1> QED
  BY <1>1, <1>2, <1>3, <1>4, <1>5, <1>6, <1>7 DEF Next, Arrival

(* active_runs' mark never outlives the run that made it.                   *)
THEOREM MarkNeverOutlivesRun == Spec => []MarkIsOwned
<1>1. Init => MarkInv
  <2>1. Init => TypeOK
    BY TypeInit
  <2> QED
    BY <2>1 DEF Init, MarkInv, MarkIsOwned, ResumerIsIdle, HandlerPC, LivePC, StartPC, RunPC, EndPC, Workers
<1>2. MarkInv /\ [Next]_vars => MarkInv'
  BY TypeStep, MarkInvStep DEF MarkInv
<1>3. MarkInv => MarkIsOwned
  BY DEF MarkInv
<1> QED
  BY <1>1, <1>2, <1>3, PTL DEF Spec

----------------------------------------------------------------------------
(* Only a drain gives a live turn another prompt or another sender.         *)
LEMMA TurnStepPrompts ==
  ASSUME TypeOK, NEW w \in Workers, TurnStep(w), ~DrainNext(w)
  PROVE  \A v \in Workers : pc'[v] \in LivePC =>
           /\ pc[v] \in LivePC
           /\ turn'[v].prompt = turn[v].prompt
           /\ turn'[v].user = turn[v].user
<1> DEFINE Same == \A v \in Workers : pc'[v] \in LivePC =>
                     /\ pc[v] \in LivePC
                     /\ turn'[v].prompt = turn[v].prompt
                     /\ turn'[v].user = turn[v].user
<1> /\ pc \in [Workers -> PCs]
    /\ turn \in [Workers -> Turn]
    /\ pc[w] \in LivePC
    /\ pc' = [pc EXCEPT ![w] = pc'[w]]
  BY TurnStepMoves DEF TypeOK
<1>1. CASE turn' = turn
  BY <1>1
<1>2. CASE Return(w)
  <2>1. pc'[w] \notin LivePC /\ \A v \in Workers \ {w} : turn'[v] = turn[v]
    BY <1>2 DEF Return, Goto, LivePC, StartPC, RunPC, EndPC
  <2> QED
    BY <2>1
<1>3. CASE ReadHistory(w)
  BY <1>3 DEF ReadHistory, Turn
<1>4. ASSUME NEW s, \/ turn' = [turn EXCEPT ![w].safe = s]
                     \/ turn' = [turn EXCEPT ![w].seen = s]
      PROVE  Same
  <2> turn[w] \in Turn
    OBVIOUS
  <2>1. /\ \A v \in Workers \ {w} : turn'[v] = turn[v]
        /\ \/ turn'[w] = [turn[w] EXCEPT !.safe = s]
           \/ turn'[w] = [turn[w] EXCEPT !.seen = s]
    BY <1>4
  <2>2. turn'[w].prompt = turn[w].prompt /\ turn'[w].user = turn[w].user
    BY <2>1 DEF Turn
  <2> QED
    BY <2>1, <2>2
<1>5. CASE CallTool(w)
  BY <1>5 DEF CallTool, Turn
<1>6. CASE RunAgent(w) \/ Halt(w) \/ ToolReturns(w) \/ Skip(w)
  BY <1>6, <1>1, <1>4 DEF RunAgent, Halt, ToolReturns, Skip
<1>7. CASE AttemptFails(w)
  BY <1>7 DEF AttemptFails, Turn
<1> QED
  BY <1>1, <1>2, <1>3, <1>4, <1>5, <1>6, <1>7
  DEF TurnStep, Refuse, Mark, Record, StartClean, RecordFails, Request, TurnFails, PostReply,
      SetHistory, Unmark, Unrecord, Forget, UnrecordFails, DrainNothing, DrainTooDeep

(* What a turn's step does to the record in inflight_runs.json.             *)
LEMMA TurnStepRecords ==
  ASSUME TypeOK, NEW w \in Workers, TurnStep(w)
  PROVE  \/ record' = record
         \/ record' = None
         \/ record' = [prompt |-> turn[w].prompt, user |-> turn[w].user]
<1> USE DEF memory, disk, ghosts
<1>1. CASE Record(w) \/ Unrecord(w)
  BY <1>1 DEF Record, RecordStart, Unrecord, RecordFinished
<1>2. CASE ReadHistory(w) \/ Refuse(w) \/ Mark(w) \/ StartClean(w) \/ RecordFails(w)
  BY <1>2 DEF ReadHistory, Refuse, Mark, StartClean, RecordFails
<1>3. CASE RunAgent(w) \/ Request(w) \/ CallTool(w) \/ ToolReturns(w) \/ Halt(w) \/ Skip(w)
  BY <1>3 DEF RunAgent, Request, CallTool, ToolReturns, Halt, Skip
<1>4. CASE AttemptFails(w) \/ TurnFails(w) \/ PostReply(w) \/ SetHistory(w) \/ Unmark(w)
  BY <1>4 DEF AttemptFails, TurnFails, PostReply, SetHistory, Unmark
<1>5. CASE Forget(w) \/ UnrecordFails(w) \/ DrainNothing(w) \/ DrainNext(w) \/ DrainTooDeep(w)
  BY <1>5 DEF Forget, UnrecordFails, DrainNothing, DrainNext, DrainTooDeep
<1> QED
  BY <1>1, <1>2, <1>3, <1>4, <1>5 DEF TurnStep

(* take_next_sender_messages gives messages of the last one's sender only.  *)
LEMMA NextSenderRun ==
  ASSUME TypeOK, NEW n \in 1..Len(queue), IsNextSenderRun(n)
  PROVE  \A m \in ToSet(SubSeq(queue, 1, n)) : Sender[m] = Sender[queue[n]]
<1>1. queue \in Seq(Messages) /\ n \in Nat /\ n <= Len(queue) /\ 1 <= n
  BY DEF TypeOK
<1> DEFINE s == SubSeq(queue, 1, n)
<1>2. Len(s) = n /\ DOMAIN s = 1..n /\ \A i \in 1..n : s[i] = queue[i]
  BY <1>1
<1>3. \A i \in 1..n : Sender[s[i]] = Sender[queue[1]]
  BY <1>2 DEF IsNextSenderRun
<1>4. Sender[queue[n]] = Sender[queue[1]]
  BY <1>1 DEF IsNextSenderRun
<1> QED
  BY <1>2, <1>3, <1>4 DEF ToSet

(* The recorded turn answers one sender too: a restart resumes it as them.  *)
RecordHasOneSender ==
  record # None => \A m \in ToSet(record.prompt) : Sender[m] = record.user

SenderInv == TypeOK /\ OneSenderPerTurn /\ RecordHasOneSender

LEMMA SenderInvStep == SenderInv /\ TypeOK' /\ [Next]_vars => SenderInv'
<1> SUFFICES ASSUME SenderInv, TypeOK', [Next]_vars
             PROVE  OneSenderPerTurn' /\ RecordHasOneSender'
  BY DEF SenderInv
<1> TypeOK /\ OneSenderPerTurn /\ RecordHasOneSender
  BY DEF SenderInv
<1> /\ pc \in [Workers -> PCs]
    /\ turn \in [Workers -> Turn]
    /\ Resumer \in Workers
    /\ Messages \subseteq Workers
  BY DEF TypeOK, Workers
<1> USE DEF memory, disk, ghosts
<1>1. ASSUME NEW w \in Workers, TurnStep(w) PROVE OneSenderPerTurn' /\ RecordHasOneSender'
  <2>1. OneSenderPerTurn'
    <3>1. CASE DrainNext(w)
      <4>1. PICK n \in 1..Len(queue) :
               /\ IsNextSenderRun(n)
               /\ turn' = [turn EXCEPT ![w] = NewTurn(SubSeq(queue, 1, n), Sender[queue[n]], @.depth + 1)]
        BY <3>1 DEF DrainNext
      <4>2. /\ turn'[w].prompt = SubSeq(queue, 1, n)
            /\ turn'[w].user = Sender[queue[n]]
        BY <4>1 DEF NewTurn
      <4>3. \A v \in Workers \ {w} : pc'[v] = pc[v] /\ turn'[v] = turn[v]
        BY <3>1, <4>1 DEF DrainNext, Goto
      <4> QED
        BY <4>1, <4>2, <4>3, NextSenderRun DEF OneSenderPerTurn, Live
    <3>2. CASE ~DrainNext(w)
      BY <1>1, <3>2, TurnStepPrompts DEF OneSenderPerTurn, Live
    <3> QED
      BY <3>1, <3>2
  <2>2. RecordHasOneSender'
    BY <1>1, TurnStepRecords, TurnStepMoves DEF RecordHasOneSender, OneSenderPerTurn, Live
  <2> QED
    BY <2>1, <2>2
<1>2. ASSUME NEW m \in Messages, Ignore(m) \/ Steer(m) \/ QueueSteering(m)
      PROVE OneSenderPerTurn' /\ RecordHasOneSender'
  <2>1. /\ UNCHANGED <<turn, record>>
        /\ \E l \in {"ignored", "queueing", "queued"} : Goto(m, l)
    BY <1>2 DEF Ignore, Steer, QueueSteering
  <2> QED
    BY <2>1 DEF Goto, OneSenderPerTurn, RecordHasOneSender, Live, LivePC, StartPC, RunPC, EndPC
<1>3. ASSUME NEW m \in Messages, Start(m) PROVE OneSenderPerTurn' /\ RecordHasOneSender'
  <2>1. /\ turn'[m].prompt = <<m>>
        /\ turn'[m].user = Sender[m]
        /\ \A v \in Workers \ {m} : pc'[v] = pc[v] /\ turn'[v] = turn[v]
        /\ record' = record
    BY <1>3 DEF Start, Goto, NewTurn
  <2>2. ToSet(<<m>>) = {m}
    BY DEF ToSet
  <2> QED
    BY <2>1, <2>2 DEF OneSenderPerTurn, RecordHasOneSender, Live
<1>4. ASSUME NEW m \in Messages, HandlerFails(m) PROVE OneSenderPerTurn' /\ RecordHasOneSender'
  BY <1>4 DEF HandlerFails, Return, Goto, OneSenderPerTurn, RecordHasOneSender, Live,
              LivePC, StartPC, RunPC, EndPC
<1>5. CASE Stop \/ SetBan \/ Boot \/ UNCHANGED vars
  BY <1>5 DEF Stop, SetBan, Boot, vars, OneSenderPerTurn, RecordHasOneSender, Live
<1>6. CASE Crash
  <2>1. record' = record /\ \A w \in Workers : pc'[w] \notin LivePC
    BY <1>6 DEF Crash, Live, LivePC, StartPC, RunPC, EndPC
  <2> QED
    BY <2>1 DEF OneSenderPerTurn, RecordHasOneSender, Live
<1>7. CASE PopAll
  <2>1. CASE record = None
    BY <1>7, <2>1 DEF PopAll, OneSenderPerTurn, RecordHasOneSender, Live
  <2>2. CASE record # None
    <3>1. /\ turn'[Resumer].prompt = record.prompt
          /\ turn'[Resumer].user = record.user
          /\ \A v \in Workers \ {Resumer} : pc'[v] = pc[v] /\ turn'[v] = turn[v]
          /\ record' = None
      BY <1>7, <2>2 DEF PopAll, Goto, NewTurn
    <3> QED
      BY <2>2, <3>1 DEF OneSenderPerTurn, RecordHasOneSender, Live
  <2> QED
    BY <2>1, <2>2
<1>8. CASE Resume
  <2>1. /\ turn'[Resumer].prompt = turn[Resumer].prompt
        /\ turn'[Resumer].user = turn[Resumer].user
        /\ \A v \in Workers \ {Resumer} : pc'[v] = pc[v] /\ turn'[v] = turn[v]
        /\ Resumer \in Live
        /\ record' = record
    BY <1>8 DEF Resume, Goto, Live, LivePC, StartPC, Turn
  <2> QED
    BY <2>1 DEF OneSenderPerTurn, RecordHasOneSender, Live
<1> QED
  BY <1>1, <1>2, <1>3, <1>4, <1>5, <1>6, <1>7, <1>8 DEF Next, Arrival

(* A turn, first, drained or resumed, answers messages of one sender: the   *)
(* person it runs as.                                                       *)
THEOREM TurnAnswersOneSender == Spec => []OneSenderPerTurn
<1>1. Init => SenderInv
  <2>1. Init => OneSenderPerTurn /\ RecordHasOneSender
    BY DEF Init, OneSenderPerTurn, RecordHasOneSender, Live, LivePC, StartPC, RunPC, EndPC
  <2> QED
    BY <2>1, TypeInit DEF SenderInv
<1>2. SenderInv /\ [Next]_vars => SenderInv'
  BY TypeStep, SenderInvStep DEF SenderInv
<1>3. SenderInv => OneSenderPerTurn
  BY DEF SenderInv
<1> QED
  BY <1>1, <1>2, <1>3, PTL DEF Spec

----------------------------------------------------------------------------
(* A turn reaches the model only through run_agent, which leaves every      *)
(* earlier !stop of the thread behind it.                                   *)
LEMMA TurnStepStops ==
  ASSUME TypeOK, NEW w \in Workers, TurnStep(w),
         NEW v \in Workers, pc'[v] \in AgentPC, v \in halted'
  PROVE  pc[v] \in AgentPC /\ v \in halted /\ (v \in told => v \in told')
<1> pc \in [Workers -> PCs]
  BY DEF TypeOK
<1> USE DEF memory, disk, ghosts, AgentPC, Goto, Return
<1>1. CASE ReadHistory(w) \/ Refuse(w) \/ Mark(w) \/ Record(w) \/ StartClean(w) \/ RecordFails(w)
  BY <1>1 DEF ReadHistory, Refuse, Mark, Record, StartClean, RecordFails
<1>2. CASE RunAgent(w)
  BY <1>2 DEF RunAgent
<1>3. CASE Request(w) \/ CallTool(w) \/ ToolReturns(w) \/ AttemptFails(w)
  BY <1>3 DEF Request, CallTool, ToolReturns, AttemptFails
<1>4. CASE Halt(w) \/ Skip(w) \/ TurnFails(w) \/ PostReply(w) \/ SetHistory(w)
  BY <1>4 DEF Halt, Skip, TurnFails, PostReply, SetHistory
<1>5. CASE Unmark(w) \/ Unrecord(w) \/ Forget(w) \/ UnrecordFails(w)
  BY <1>5 DEF Unmark, Unrecord, Forget, UnrecordFails
<1>6. CASE DrainNothing(w) \/ DrainNext(w) \/ DrainTooDeep(w)
  BY <1>6 DEF DrainNothing, DrainNext, DrainTooDeep
<1> QED
  BY <1>1, <1>2, <1>3, <1>4, <1>5, <1>6 DEF TurnStep

StopInv == TypeOK /\ StopHitsLiveTurns

LEMMA StopInvStep == StopInv /\ TypeOK' /\ [Next]_vars => StopInv'
<1> SUFFICES ASSUME TypeOK, StopHitsLiveTurns, TypeOK', [Next]_vars
             PROVE  StopHitsLiveTurns'
  BY DEF StopInv
<1> pc \in [Workers -> PCs] /\ Resumer \in Workers /\ Messages \subseteq Workers
  BY DEF TypeOK, Workers
<1> USE DEF memory, disk, ghosts
<1>1. ASSUME NEW w \in Workers, TurnStep(w) PROVE StopHitsLiveTurns'
  BY <1>1, TurnStepStops DEF StopHitsLiveTurns
<1>2. ASSUME NEW m \in Messages, Arrival(m) \/ QueueSteering(m) \/ HandlerFails(m)
      PROVE StopHitsLiveTurns'
  <2>1. /\ \E l \in {"ignored", "queueing", "queued", "starting", "done"} : Goto(m, l)
        /\ UNCHANGED <<halted, told>>
    BY <1>2 DEF Arrival, Ignore, Steer, Start, QueueSteering, HandlerFails, Return
  <2> QED
    BY <2>1 DEF Goto, StopHitsLiveTurns, AgentPC
<1>3. CASE Stop
  BY <1>3 DEF Stop, RequestStop, StopHitsLiveTurns, AgentPC, MarkedPC, RunPC
<1>4. CASE SetBan \/ Boot \/ UNCHANGED vars
  BY <1>4 DEF SetBan, Boot, vars, StopHitsLiveTurns
<1>5. CASE Crash
  BY <1>5 DEF Crash, StopHitsLiveTurns
<1>6. CASE PopAll \/ Resume
  <2>1. UNCHANGED <<halted, told>> /\ (pc' = pc \/ \E l \in {"loading", "starting"} : Goto(Resumer, l))
    BY <1>6 DEF PopAll, Resume
  <2> QED
    BY <2>1 DEF Goto, StopHitsLiveTurns, AgentPC
<1> QED
  BY <1>1, <1>2, <1>3, <1>4, <1>5, <1>6 DEF Next

(* !stop never halts a turn that started after it.                          *)
THEOREM StopNeverHitsLaterTurns == Spec => []StopHitsLiveTurns
<1>1. Init => StopInv
  <2>1. Init => StopHitsLiveTurns
    BY DEF Init, StopHitsLiveTurns
  <2> QED
    BY <2>1, TypeInit DEF StopInv
<1>2. StopInv /\ [Next]_vars => StopInv'
  BY TypeStep, StopInvStep DEF StopInv
<1>3. StopInv => StopHitsLiveTurns
  BY DEF StopInv
<1> QED
  BY <1>1, <1>2, <1>3, PTL DEF Spec

----------------------------------------------------------------------------

(* A handler has the message, and no turn knows of it yet. *)
Unseen(m) == pc[m] \in {"sent", "ignored", "queueing"}

(* The messages a frame names. *)
Fields(w) == ToSet(turn[w].prompt) \cup turn[w].base \cup turn[w].seen \cup turn[w].safe

(* The messages the files name. *)
Filed == (IF record = None THEN {} ELSE ToSet(record.prompt))
           \cup (IF checkpoint = None THEN {} ELSE checkpoint)
           \cup history

(* A turn has had the message. *)
Touched(m) == m \in settled \cup lost \cup Filed \/ \E w \in Workers : m \in Fields(w)

(* What a message in line is: queued once, and new to every turn.           *)
QueueIsFresh ==
  /\ \A i, j \in DOMAIN queue : queue[i] = queue[j] => i = j
  /\ \A m \in ToSet(queue) : pc[m] = "queued"
  /\ \A m \in Messages : Unseen(m) \/ m \in ToSet(queue) => ~Touched(m)

(* What a turn was given has its outcome, and all it saw by the time it     *)
(* stores it.                                                               *)
Stored(w) ==
  /\ turn[w].base \subseteq settled
  /\ pc[w] \notin EndPC \cup {"saving"} => turn[w].safe \subseteq turn[w].seen
  /\ pc[w] \in {"loading", "starting"} => turn[w].base = {}
  /\ pc[w] = "loading" => turn[w].seen = {}
  /\ pc[w] \in EndPC \cup {"saving"} => turn[w].seen \subseteq settled

StoredIsSettled ==
  /\ history \subseteq settled
  /\ \A w \in Live : Stored(w)

(* Two turns at once are a mishap. *)
OneLive == "overlap" \notin mishaps => \A v, w \in Live : v = w

(* As long as a recorded turn runs, the record is a running turn's.         *)
RecordHasOwner ==
  ~TwiceInHand /\ record # None /\ (\E w \in Workers : pc[w] \in RecordedPC) => RecordedTurnIsLive

(* Until start-up takes up the record, no turn has what it would resume,    *)
(* or the turn it would resume is running.                                  *)
OrphansAreFree ==
  ~TwiceInHand /\ proc # "up" /\ record # None =>
    RecordedTurnIsLive \/ Orphaned \cap InHand \subseteq settled

(* The messages worker w has in hand, if its turn is live. *)
Hand(w) == IF pc[w] \in LivePC THEN Custody(w) ELSE {}

(* No two turns have the same message in hand. *)
HandsApart ==
  ~TwiceInHand => \A v, w \in Workers : v # w => Hand(v) \cap Hand(w) \subseteq settled

(* What start-up has still to read, no other turn has. *)
UnreadIsFree ==
  ~TwiceInHand => \A v \in Workers \ {Resumer} : ToLoad \cap Hand(v) \subseteq settled

(* A message a turn has had is settled, given up on, queued or in hand ... *)
Accounted(m) == Unseen(m) \/ m \in settled \cup lost \cup ToSet(queue) \cup InHand

(* ... without the files' help once a turn has been recorded over them,     *)
(* but for the checkpoint that start-up has still to read.                  *)
FilesAreSpare ==
  \/ \E w \in Workers : pc[w] \in RecordedPC \cup {"forgetting"}
  \/ pc[Resumer] = "loading" /\ record # None
  => \A m \in Messages : Accounted(m) \/ m \in ToLoad

InboxInv ==
  /\ MarkInv
  /\ QueueIsFresh
  /\ StoredIsSettled
  /\ OneLive
  /\ RecordHasOwner
  /\ OrphansAreFree
  /\ HandsApart
  /\ UnreadIsFree
  /\ FilesAreSpare
  /\ NothingVanishes

----------------------------------------------------------------------------
(* Sequences as sets. *)

LEMMA ToSetEmpty == ToSet(<<>>) = {}
BY DEF ToSet

LEMMA ToSetSingle == ASSUME NEW m PROVE ToSet(<<m>>) = {m}
BY DEF ToSet

LEMMA ToSetAppend ==
  ASSUME NEW S, NEW s \in Seq(S), NEW m \in S
  PROVE  ToSet(Append(s, m)) = ToSet(s) \cup {m}
<1> DEFINE t == Append(s, m)
<1>1. /\ DOMAIN t = 1..(Len(s) + 1) /\ DOMAIN s = 1..Len(s) /\ Len(s) \in Nat
      /\ \A i \in 1..Len(s) : t[i] = s[i]
      /\ t[Len(s) + 1] = m
  OBVIOUS
<1>2. ToSet(t) \subseteq ToSet(s) \cup {m}
  BY <1>1 DEF ToSet
<1>3. ToSet(s) \cup {m} \subseteq ToSet(t)
  BY <1>1 DEF ToSet
<1> QED
  BY <1>2, <1>3

(* Cutting a sequence in two. *)
LEMMA ToSetCut ==
  ASSUME NEW S, NEW s \in Seq(S), NEW n \in 1..Len(s)
  PROVE  LET front == SubSeq(s, 1, n)
             rest  == SubSeq(s, n + 1, Len(s))
         IN  /\ ToSet(s) = ToSet(front) \cup ToSet(rest)
             /\ (\A i, j \in DOMAIN s : s[i] = s[j] => i = j) =>
                  /\ ToSet(front) \cap ToSet(rest) = {}
                  /\ \A i, j \in DOMAIN rest : rest[i] = rest[j] => i = j
<1> DEFINE front == SubSeq(s, 1, n)
           rest  == SubSeq(s, n + 1, Len(s))
<1>0. Len(s) \in Nat /\ n \in Nat /\ 1 <= n /\ n <= Len(s) /\ DOMAIN s = 1..Len(s)
  OBVIOUS
<1>1. /\ DOMAIN front = 1..n
      /\ \A i \in 1..n : front[i] = s[i]
  BY <1>0
<1>2. /\ DOMAIN rest = 1..(Len(s) - n)
      /\ \A i \in 1..(Len(s) - n) : rest[i] = s[i + n]
  BY <1>0
<1> HIDE DEF front, rest
<1>3. ASSUME NEW i \in DOMAIN s PROVE s[i] \in ToSet(front) \cup ToSet(rest)
  <2>1. CASE i <= n
    <3>1. i \in DOMAIN front /\ front[i] = s[i]
      BY <1>0, <1>1, <2>1
    <3> QED
      BY <3>1 DEF ToSet
  <2>2. CASE i > n
    <3>1. (i - n) \in DOMAIN rest /\ rest[i - n] = s[i]
      BY <1>0, <1>2, <2>2
    <3> QED
      BY <3>1 DEF ToSet
  <2> QED
    BY <1>0, <2>1, <2>2
<1>4. ToSet(front) \subseteq ToSet(s)
  BY <1>0, <1>1 DEF ToSet
<1>5. ASSUME NEW i \in DOMAIN rest PROVE (i + n) \in DOMAIN s /\ rest[i] = s[i + n]
  BY <1>0, <1>2
<1>6. ToSet(rest) \subseteq ToSet(s)
  BY <1>5 DEF ToSet
<1>7. ToSet(s) = ToSet(front) \cup ToSet(rest)
  BY <1>3, <1>4, <1>6 DEF ToSet
<1>8. ASSUME \A i, j \in DOMAIN s : s[i] = s[j] => i = j
      PROVE  /\ ToSet(front) \cap ToSet(rest) = {}
             /\ \A i, j \in DOMAIN rest : rest[i] = rest[j] => i = j
  <2>1. ASSUME NEW i \in DOMAIN front, NEW j \in DOMAIN rest PROVE front[i] # rest[j]
    <3>1. i \in DOMAIN s /\ front[i] = s[i] /\ (j + n) \in DOMAIN s /\ rest[j] = s[j + n]
      BY <1>0, <1>1, <1>5
    <3>2. i # j + n
      BY <1>0, <1>1, <1>2
    <3> QED
      BY <1>8, <3>1, <3>2
  <2>2. ASSUME NEW i \in DOMAIN rest, NEW j \in DOMAIN rest, rest[i] = rest[j] PROVE i = j
    <3>1. i + n = j + n
      BY <1>5, <1>8, <2>2
    <3> QED
      BY <1>0, <1>2, <3>1
  <2> QED
    BY <2>1, <2>2 DEF ToSet
<1> QED
  BY <1>7, <1>8 DEF front, rest

----------------------------------------------------------------------------
(* What a step of a turn does to its frame, to the queue and to the files.  *)

Frame(w, base, seen, safe) ==
  /\ turn'[w].prompt = turn[w].prompt
  /\ turn'[w].user = turn[w].user
  /\ turn'[w].base = base
  /\ turn'[w].seen = seen
  /\ turn'[w].safe = safe

LEMMA Frames ==
  ASSUME TypeOK, NEW w \in Workers
  PROVE  LET t == turn[w]
         IN  /\ UNCHANGED turn => Frame(w, t.base, t.seen, t.safe)
             /\ ReadHistory(w) =>
                  Frame(w, history, IF t.seen = {} THEN history \cup ToSet(t.prompt) ELSE t.seen, t.safe)
             /\ RunAgent(w) \/ CallTool(w) \/ Halt(w) => Frame(w, t.base, t.seen, t.seen)
             /\ ToolReturns(w) =>
                  \/ queue' = <<>> /\ Frame(w, t.base, t.seen \cup ToSet(queue), t.safe)
                  \/ queue' = queue /\ Frame(w, t.base, t.seen, t.safe)
             /\ Skip(w) => \E kept \in {t.base, t.safe} : Frame(w, t.base, kept, t.safe)
             /\ AttemptFails(w) => Frame(w, t.base, t.safe, t.safe)
             /\ Return(w) => turn'[w] = NoTurn
<1> turn \in [Workers -> Turn] /\ turn[w] \in Turn
  BY DEF TypeOK
<1>1. ReadHistory(w) =>
        Frame(w, history, IF turn[w].seen = {} THEN history \cup ToSet(turn[w].prompt) ELSE turn[w].seen,
              turn[w].safe)
  BY DEF ReadHistory, Frame, Turn
<1>2. RunAgent(w) \/ CallTool(w) \/ Halt(w) => Frame(w, turn[w].base, turn[w].seen, turn[w].seen)
  BY DEF RunAgent, CallTool, Halt, Frame, Turn
<1>3. ToolReturns(w) =>
        \/ queue' = <<>> /\ Frame(w, turn[w].base, turn[w].seen \cup ToSet(queue), turn[w].safe)
        \/ queue' = queue /\ Frame(w, turn[w].base, turn[w].seen, turn[w].safe)
  BY DEF ToolReturns, Frame, Turn
<1>4. Skip(w) => \E kept \in {turn[w].base, turn[w].safe} : Frame(w, turn[w].base, kept, turn[w].safe)
  BY DEF Skip, Frame, Turn
<1>5. AttemptFails(w) => Frame(w, turn[w].base, turn[w].safe, turn[w].safe)
  BY DEF AttemptFails, Frame, Turn
<1>6. UNCHANGED turn => Frame(w, turn[w].base, turn[w].seen, turn[w].safe)
  BY DEF Frame
<1>7. Return(w) => turn'[w] = NoTurn
  BY DEF Return
<1> QED
  BY <1>1, <1>2, <1>3, <1>4, <1>5, <1>6, <1>7

(* A drained frame: the messages taken from the front of the line.          *)
LEMMA DrainedFrame ==
  ASSUME TypeOK, NEW w \in Workers, DrainNext(w)
  PROVE  \E n \in 1..Len(queue) :
           /\ queue' = SubSeq(queue, n + 1, Len(queue))
           /\ turn'[w].prompt = SubSeq(queue, 1, n)
           /\ turn'[w].base = {} /\ turn'[w].seen = {} /\ turn'[w].safe = {}
<1>1. PICK n \in 1..Len(queue) :
         /\ turn' = [turn EXCEPT ![w] = NewTurn(SubSeq(queue, 1, n), Sender[queue[n]], @.depth + 1)]
         /\ queue' = SubSeq(queue, n + 1, Len(queue))
  BY DEF DrainNext
<1>2. turn'[w] = NewTurn(SubSeq(queue, 1, n), Sender[queue[n]], turn[w].depth + 1)
  BY <1>1 DEF TypeOK
<1> QED
  BY <1>1, <1>2 DEF NewTurn

(* The other workers' frames stay. *)
LEMMA OtherFrames ==
  ASSUME TypeOK, NEW w \in Workers, TurnStep(w)
  PROVE  \A v \in Workers \ {w} : pc'[v] = pc[v] /\ turn'[v] = turn[v]
<1> /\ pc \in [Workers -> PCs]
    /\ turn \in [Workers -> Turn]
    /\ pc' = [pc EXCEPT ![w] = pc'[w]]
  BY TurnStepMoves DEF TypeOK
<1>1. \/ turn' = turn
      \/ \E t : turn' = [turn EXCEPT ![w] = t]
  <2>1. CASE ReadHistory(w) \/ RunAgent(w) \/ CallTool(w) \/ ToolReturns(w) \/ Halt(w)
    BY <2>1 DEF ReadHistory, RunAgent, CallTool, ToolReturns, Halt
  <2>2. CASE Skip(w) \/ AttemptFails(w) \/ DrainNext(w)
    BY <2>2 DEF Skip, AttemptFails, DrainNext
  <2>3. CASE \/ Refuse(w) \/ RecordFails(w) \/ UnrecordFails(w) \/ DrainNothing(w) \/ DrainTooDeep(w)
    BY <2>3 DEF Refuse, RecordFails, UnrecordFails, DrainNothing, DrainTooDeep, Return
  <2>4. CASE \/ Mark(w) \/ Record(w) \/ StartClean(w) \/ Request(w) \/ TurnFails(w) \/ PostReply(w)
             \/ SetHistory(w) \/ Unmark(w) \/ Unrecord(w) \/ Forget(w)
    BY <2>4 DEF Mark, Record, StartClean, Request, TurnFails, PostReply, SetHistory, Unmark, Unrecord, Forget
  <2> QED
    BY <2>1, <2>2, <2>3, <2>4 DEF TurnStep
<1> QED
  BY <1>1

(* Messages leave the line from the front. *)
LEMMA StepQueue ==
  ASSUME TypeOK, NEW w \in Workers, TurnStep(w)
  PROVE  \/ queue' = queue
         \/ queue' = <<>>
         \/ \E n \in 1..Len(queue) : queue' = SubSeq(queue, n + 1, Len(queue))
<1> USE DEF memory, disk, ghosts
<1>1. CASE ToolReturns(w) \/ DrainTooDeep(w)
  BY <1>1 DEF ToolReturns, DrainTooDeep
<1>2. CASE DrainNext(w)
  BY <1>2, DrainedFrame
<1>3. CASE ReadHistory(w) \/ Refuse(w) \/ Mark(w) \/ Record(w) \/ StartClean(w) \/ RecordFails(w)
  BY <1>3 DEF ReadHistory, Refuse, Mark, Record, StartClean, RecordFails
<1>4. CASE RunAgent(w) \/ Request(w) \/ CallTool(w) \/ Halt(w) \/ Skip(w) \/ AttemptFails(w)
  BY <1>4 DEF RunAgent, Request, CallTool, Halt, Skip, AttemptFails
<1>5. CASE TurnFails(w) \/ PostReply(w) \/ SetHistory(w) \/ Unmark(w) \/ Unrecord(w) \/ Forget(w)
  BY <1>5 DEF TurnFails, PostReply, SetHistory, Unmark, Unrecord, Forget
<1>6. CASE UnrecordFails(w) \/ DrainNothing(w)
  BY <1>6 DEF UnrecordFails, DrainNothing
<1> QED
  BY <1>1, <1>2, <1>3, <1>4, <1>5, <1>6 DEF TurnStep

(* What leaves the line was in it, and is no longer. *)
LEMMA StepLine ==
  ASSUME TypeOK, QueueIsFresh, NEW w \in Workers, TurnStep(w)
  PROVE  /\ ToSet(queue') \subseteq ToSet(queue)
         /\ \A i, j \in DOMAIN queue' : queue'[i] = queue'[j] => i = j
<1>0. queue \in Seq(Messages) /\ \A i, j \in DOMAIN queue : queue[i] = queue[j] => i = j
  BY DEF TypeOK, QueueIsFresh
<1>1. CASE queue' = queue
  BY <1>0, <1>1
<1>2. CASE queue' = <<>>
  BY <1>2, ToSetEmpty
<1>3. ASSUME NEW n \in 1..Len(queue), queue' = SubSeq(queue, n + 1, Len(queue))
      PROVE  /\ ToSet(queue') \subseteq ToSet(queue)
             /\ \A i, j \in DOMAIN queue' : queue'[i] = queue'[j] => i = j
  BY <1>0, <1>3, ToSetCut
<1> QED
  BY <1>1, <1>2, <1>3, StepQueue

LEMMA CustodyFields == ASSUME NEW w \in Workers PROVE Custody(w) \subseteq Fields(w)
BY DEF Custody, Fields

(* Settled or given up on is only what a turn had, the files named, or the  *)
(* line held.                                                               *)
LEMMA StepOutcomes ==
  ASSUME TypeOK, NEW w \in Workers, TurnStep(w)
  PROVE  /\ settled \subseteq settled' /\ lost \subseteq lost'
         /\ settled' \subseteq settled \cup Fields(w)
         /\ lost' \subseteq lost \cup Fields(w) \cup Filed \cup (ToSet(queue) \ ToSet(queue'))
<1> USE CustodyFields DEF memory, disk, ghosts
<1>1. CASE ReadHistory(w) \/ Mark(w) \/ RunAgent(w) \/ CallTool(w)
  BY <1>1 DEF ReadHistory, Mark, RunAgent, CallTool
<1>2. CASE ToolReturns(w) \/ SetHistory(w) \/ Unmark(w) \/ Unrecord(w)
  BY <1>2 DEF ToolReturns, SetHistory, Unmark, Unrecord
<1>8. CASE StartClean(w) \/ Forget(w) \/ Request(w)
  <2>1. settled' = settled /\ (lost' = lost \/ \E kept : LoseUnread(kept))
    BY <1>8 DEF StartClean, Forget, Request
  <2> QED
    BY <2>1 DEF LoseUnread, ToLoad, Filed
<1>3. CASE UnrecordFails(w) \/ DrainNothing(w) \/ DrainNext(w)
  BY <1>3 DEF UnrecordFails, DrainNothing, DrainNext
<1>4. CASE Refuse(w) \/ RecordFails(w) \/ Halt(w) \/ Skip(w) \/ TurnFails(w) \/ PostReply(w)
  BY <1>4 DEF Refuse, RecordFails, Halt, Skip, TurnFails, PostReply
<1>5. CASE Record(w)
  BY <1>5 DEF Record, Orphaned, Filed
<1>6. CASE AttemptFails(w)
  BY <1>6 DEF AttemptFails, Fields
<1>7. CASE DrainTooDeep(w)
  BY <1>7, ToSetEmpty DEF DrainTooDeep
<1> QED
  BY <1>1, <1>2, <1>3, <1>4, <1>5, <1>6, <1>7, <1>8 DEF TurnStep

(* The files name what they named, or what the turn that writes them had.   *)
LEMMA StepFiles ==
  ASSUME TypeOK, NEW w \in Workers, TurnStep(w)
  PROVE  Filed' \subseteq Filed \cup Fields(w)
<1> USE DEF memory, disk, ghosts, Filed
<1>1. CASE Record(w)
  BY <1>1, ThreadTurnsAssumption DEF Record, RecordStart, Fields
<1>2. CASE Request(w)
  BY <1>2 DEF Request, SaveCheckpoint, Fields
<1>3. CASE SetHistory(w) \/ StartClean(w) \/ Forget(w) \/ Unrecord(w)
  BY <1>3 DEF SetHistory, StartClean, Forget, Unrecord, UnlinkCheckpoint, RecordFinished, Fields
<1>4. CASE ReadHistory(w) \/ Refuse(w) \/ Mark(w) \/ RecordFails(w) \/ RunAgent(w) \/ CallTool(w)
  BY <1>4 DEF ReadHistory, Refuse, Mark, RecordFails, RunAgent, CallTool
<1>5. CASE ToolReturns(w) \/ Halt(w) \/ Skip(w) \/ AttemptFails(w) \/ TurnFails(w) \/ PostReply(w)
  BY <1>5 DEF ToolReturns, Halt, Skip, AttemptFails, TurnFails, PostReply
<1>6. CASE Unmark(w) \/ UnrecordFails(w) \/ DrainNothing(w) \/ DrainNext(w) \/ DrainTooDeep(w)
  BY <1>6 DEF Unmark, UnrecordFails, DrainNothing, DrainNext, DrainTooDeep
<1> QED
  BY <1>1, <1>2, <1>3, <1>4, <1>5, <1>6 DEF TurnStep

(* A frame gets messages of the history, and those that leave the line.     *)
LEMMA StepFields ==
  ASSUME TypeOK, QueueIsFresh, NEW w \in Workers, TurnStep(w)
  PROVE  Fields(w)' \subseteq Fields(w) \cup Filed \cup (ToSet(queue) \ ToSet(queue'))
<1> DEFINE Goal == Fields(w)' \subseteq Fields(w) \cup Filed \cup (ToSet(queue) \ ToSet(queue'))
<1>1. CASE ReadHistory(w)
  BY <1>1, Frames, ZenonT(60) DEF Frame, Fields, Filed
<1>2. CASE RunAgent(w) \/ CallTool(w) \/ Halt(w)
  BY <1>2, Frames DEF Frame, Fields
<1>3. CASE ToolReturns(w)
  BY <1>3, Frames, ToSetEmpty DEF Frame, Fields
<1>4. CASE Skip(w)
  BY <1>4, Frames DEF Frame, Fields
<1>5. CASE AttemptFails(w)
  BY <1>5, Frames DEF Frame, Fields
<1>6. CASE Return(w)
  <2>1. turn'[w].prompt = <<>> /\ turn'[w].base = {} /\ turn'[w].seen = {} /\ turn'[w].safe = {}
    <3>1. turn'[w] = NoTurn
      BY <1>6, Frames
    <3>2. NoTurn.prompt = <<>> /\ NoTurn.base = {} /\ NoTurn.seen = {} /\ NoTurn.safe = {}
      BY DEF NoTurn, NewTurn
    <3> QED
      BY <3>1, <3>2
  <2>2. Fields(w)' = {}
    BY <2>1, ToSetEmpty, Zenon DEF Fields
  <2> QED
    BY <2>2
<1>7. CASE DrainNext(w)
  <2>1. PICK n \in 1..Len(queue) :
           /\ queue' = SubSeq(queue, n + 1, Len(queue))
           /\ turn'[w].prompt = SubSeq(queue, 1, n)
           /\ turn'[w].base = {} /\ turn'[w].seen = {} /\ turn'[w].safe = {}
    BY <1>7, DrainedFrame
  <2>2. Fields(w)' = ToSet(SubSeq(queue, 1, n))
    BY <2>1 DEF Fields
  <2>3. queue \in Seq(Messages) /\ \A i, j \in DOMAIN queue : queue[i] = queue[j] => i = j
    BY DEF TypeOK, QueueIsFresh
  <2>4. ToSet(SubSeq(queue, 1, n)) \subseteq ToSet(queue) \ ToSet(queue')
    BY <2>1, <2>3, ToSetCut
  <2> QED
    BY <2>2, <2>4
<1>8. CASE UNCHANGED turn
  BY <1>8, Frames DEF Frame, Fields
<1> QED
  BY <1>1, <1>2, <1>3, <1>4, <1>5, <1>6, <1>7, <1>8
  DEF TurnStep, Refuse, Mark, Record, StartClean, RecordFails, Request, TurnFails, PostReply, SetHistory,
      Unmark, Unrecord, Forget, UnrecordFails, DrainNothing, DrainTooDeep

----------------------------------------------------------------------------
(* The line is fresh. *)

LEMMA FieldsOf ==
  ASSUME NEW prompt, NEW user, NEW depth
  PROVE  LET t == NewTurn(prompt, user, depth)
         IN  /\ t.prompt = prompt /\ t.user = user
             /\ t.base = {} /\ t.seen = {} /\ t.safe = {}
BY DEF NewTurn

LEMMA InHandIsTouched == \A m \in InHand : Touched(m)
BY CustodyFields DEF InHand, Live, Touched

LEMMA StepTouches ==
  ASSUME TypeOK, QueueIsFresh, NEW w \in Workers, TurnStep(w), NEW m, Touched(m)'
  PROVE  Touched(m) \/ m \in ToSet(queue) \ ToSet(queue')
<1>1. CASE \E v \in Workers : v # w /\ m \in Fields(v)'
  <2>1. PICK v \in Workers : v # w /\ m \in Fields(v)'
    BY <1>1
  <2>2. Fields(v)' = Fields(v)
    BY <2>1, OtherFrames DEF Fields
  <2> QED
    BY <2>1, <2>2 DEF Touched
<1>2. CASE m \in Fields(w)'
  BY <1>2, StepFields DEF Touched
<1>3. CASE m \in Filed'
  BY <1>3, StepFiles DEF Touched
<1>4. CASE m \in settled' \cup lost'
  BY <1>4, StepOutcomes DEF Touched
<1> QED
  BY <1>1, <1>2, <1>3, <1>4 DEF Touched

LEMMA QueueStep ==
  TypeOK /\ ResumerIsIdle /\ QueueIsFresh /\ [Next]_vars => QueueIsFresh'
<1> SUFFICES ASSUME TypeOK, ResumerIsIdle, QueueIsFresh, [Next]_vars
             PROVE  QueueIsFresh'
  OBVIOUS
<1> /\ pc \in [Workers -> PCs] /\ turn \in [Workers -> Turn] /\ queue \in Seq(Messages)
    /\ Messages \subseteq Workers /\ Resumer \in Workers /\ Resumer \notin Messages
    /\ \A i, j \in DOMAIN queue : queue[i] = queue[j] => i = j
    /\ ToSet(queue) \subseteq Messages
  BY ThreadTurnsAssumption, ToSetType DEF TypeOK, Workers, QueueIsFresh
<1>q. /\ \A m \in ToSet(queue) : pc[m] = "queued"
      /\ \A m \in Messages : Unseen(m) \/ m \in ToSet(queue) => ~Touched(m)
  BY DEF QueueIsFresh
<1>1. ASSUME NEW w \in Workers, TurnStep(w) PROVE QueueIsFresh'
  <2>1. /\ pc[w] \in LivePC /\ pc'[w] \in LivePC \cup {"done"}
        /\ \A v \in Workers \ {w} : pc'[v] = pc[v]
    BY <1>1, TurnStepMoves, OtherFrames
  <2>2. ASSUME NEW m \in Messages, Unseen(m)' PROVE Unseen(m)
    BY <2>1, <2>2 DEF Unseen, LivePC, StartPC, RunPC, EndPC
  <2>3. ASSUME NEW m \in ToSet(queue') PROVE m \in ToSet(queue) /\ pc'[m] = "queued"
    <3>1. m \in ToSet(queue) /\ pc[m] = "queued"
      BY <1>1, <1>q, StepLine
    <3>2. m # w
      BY <2>1, <3>1 DEF LivePC, StartPC, RunPC, EndPC
    <3> QED
      BY <2>1, <3>1, <3>2
  <2>4. ASSUME NEW m \in Messages, Unseen(m)' \/ m \in ToSet(queue')
        PROVE  ~Touched(m)'
    <3>1. ~Touched(m)
      BY <1>q, <2>2, <2>3, <2>4
    <3>2. m \notin ToSet(queue) \ ToSet(queue')
      BY <1>q, <2>2, <2>4 DEF Unseen
    <3> QED
      BY <1>1, <3>1, <3>2, StepTouches
  <2> QED
    BY <1>1, <2>3, <2>4, StepLine DEF QueueIsFresh
<1>2. ASSUME NEW m \in Messages, Ignore(m) \/ Steer(m) \/ QueueSteering(m)
      PROVE QueueIsFresh'
  <2>1. /\ Unseen(m)
        /\ \E l \in {"ignored", "queueing", "queued"} : Goto(m, l)
        /\ UNCHANGED <<turn, record, checkpoint, history, settled, lost>>
        /\ \/ queue' = queue
           \/ queue' = Append(queue, m) /\ pc'[m] = "queued"
    BY <1>2 DEF Ignore, Steer, QueueSteering, QueueSteeringMessage, CanArrive, Goto, Unseen, memory, disk, ghosts
  <2>2. \A x : Touched(x)' <=> Touched(x)
    BY <2>1 DEF Touched, Fields, Filed
  <2>3. \A v \in Workers \ {m} : pc'[v] = pc[v]
    BY <2>1 DEF Goto
  <2>4. m \notin ToSet(queue) /\ ~Touched(m)
    BY <1>q, <2>1 DEF Unseen
  <2>5. CASE queue' = queue
    <3>1. \A x \in Messages : Unseen(x)' => Unseen(x)
      BY <2>1, <2>3 DEF Unseen
    <3> QED
      BY <1>q, <2>2, <2>3, <2>4, <2>5, <3>1 DEF QueueIsFresh
  <2>6. CASE queue' = Append(queue, m) /\ pc'[m] = "queued"
    <3>1. ToSet(queue') = ToSet(queue) \cup {m}
      BY <2>6, ToSetAppend
    <3>2. ASSUME NEW i \in DOMAIN queue', NEW j \in DOMAIN queue', queue'[i] = queue'[j] PROVE i = j
      <4>1. /\ DOMAIN queue' = 1..(Len(queue) + 1) /\ DOMAIN queue = 1..Len(queue) /\ Len(queue) \in Nat
            /\ \A k \in 1..Len(queue) : queue'[k] = queue[k]
            /\ queue'[Len(queue) + 1] = m
        BY <2>6
      <4>2. \A k \in DOMAIN queue : queue[k] # m
        BY <2>4 DEF ToSet
      <4> QED
        BY <3>2, <4>1, <4>2
    <3>3. \A x \in Messages : Unseen(x)' => Unseen(x)
      BY <2>3, <2>6 DEF Unseen
    <3> QED
      BY <1>q, <2>2, <2>3, <2>4, <2>6, <3>1, <3>2, <3>3 DEF QueueIsFresh
  <2> QED
    BY <2>1, <2>5, <2>6
<1>3. ASSUME NEW m \in Messages, Start(m) PROVE QueueIsFresh'
  <2>1. /\ Unseen(m) /\ pc' = [pc EXCEPT ![m] = "starting"]
        /\ turn' = [turn EXCEPT ![m] = NewTurn(<<m>>, Sender[m], 0)]
        /\ UNCHANGED <<queue, record, checkpoint, history, settled, lost>>
    BY <1>3 DEF Start, CanArrive, Goto, Unseen, disk
  <2>2. Fields(m)' = {m}
    BY <2>1, FieldsOf, ToSetSingle DEF Fields
  <2>3. \A v \in Workers \ {m} : pc'[v] = pc[v] /\ Fields(v)' = Fields(v)
    BY <2>1 DEF Fields
  <2>4. \A x : Touched(x)' => Touched(x) \/ x = m
    BY <2>1, <2>2, <2>3 DEF Touched, Filed
  <2>5. m \notin ToSet(queue)
    BY <1>q, <2>1 DEF Unseen
  <2>6. \A x \in Messages : Unseen(x)' => Unseen(x) /\ x # m
    BY <2>1 DEF Unseen
  <2> QED
    BY <1>q, <2>1, <2>3, <2>4, <2>5, <2>6 DEF QueueIsFresh
<1>4. ASSUME NEW m \in Messages, HandlerFails(m) PROVE QueueIsFresh'
  <2>1. /\ pc[m] = "starting" /\ pc' = [pc EXCEPT ![m] = "done"]
        /\ turn' = [turn EXCEPT ![m] = NoTurn]
        /\ UNCHANGED <<queue, record, checkpoint, history, lost>>
        /\ settled' = settled \cup Custody(m)
    BY <1>4 DEF HandlerFails, Return, Goto, memory, disk
  <2>2. Fields(m)' = {}
    BY <2>1, FieldsOf, ToSetEmpty DEF Fields, NoTurn
  <2>3. \A v \in Workers \ {m} : pc'[v] = pc[v] /\ Fields(v)' = Fields(v)
    BY <2>1 DEF Fields
  <2>4. \A x : Touched(x)' => Touched(x)
    BY <2>1, <2>2, <2>3, CustodyFields DEF Touched, Filed
  <2>5. m \notin ToSet(queue)
    BY <1>q, <2>1
  <2>6. \A x \in Messages : Unseen(x)' => Unseen(x)
    BY <2>1 DEF Unseen
  <2> QED
    BY <1>q, <2>1, <2>3, <2>4, <2>5, <2>6 DEF QueueIsFresh
<1>5. CASE Stop \/ SetBan \/ Boot \/ UNCHANGED vars
  <2>1. UNCHANGED <<pc, turn, queue, record, checkpoint, history, settled, lost>>
    BY <1>5 DEF Stop, SetBan, Boot, vars, memory, disk, ghosts
  <2> QED
    BY <2>1, <1>q DEF QueueIsFresh, Touched, Fields, Filed, Unseen
<1>6. CASE Crash
  <2>1. /\ queue' = <<>> /\ turn' = [w \in Workers |-> NoTurn]
        /\ UNCHANGED <<record, checkpoint, history, settled>>
        /\ \A w \in Workers : pc'[w] \in {pc[w], "dead"} /\ (pc[w] = "queueing" => pc'[w] = "dead")
        /\ lost' \subseteq lost \cup InHand \cup ToSet(queue) \cup {m \in Messages : pc[m] = "queueing"} \cup Filed
    BY <1>6 DEF Crash, disk, ToLoad, Filed
  <2>2. \A w \in Workers : Fields(w)' = {}
    BY <2>1, FieldsOf, ToSetEmpty DEF Fields, NoTurn
  <2>3. ASSUME NEW m \in Messages, Unseen(m)' PROVE ~Touched(m)'
    <3>1. Unseen(m) /\ pc[m] # "queueing"
      BY <2>1, <2>3 DEF Unseen
    <3>2. ~Touched(m) /\ m \notin InHand \cup ToSet(queue)
      BY <3>1, <1>q, InHandIsTouched DEF Unseen
    <3> QED
      BY <2>1, <2>2, <3>1, <3>2 DEF Touched, Filed
  <2> QED
    BY <2>1, <2>3, ToSetEmpty DEF QueueIsFresh
<1>7. CASE PopAll
  <2>1. CASE record = None
    <3>1. UNCHANGED <<pc, turn, queue, record, checkpoint, history, settled, lost>>
      BY <1>7, <2>1 DEF PopAll, memory
    <3> QED
      BY <3>1, <1>q DEF QueueIsFresh, Touched, Fields, Filed, Unseen
  <2>2. CASE record # None
    <3>1. /\ turn' = [turn EXCEPT ![Resumer] = NewTurn(record.prompt, record.user, 0)]
          /\ pc' = [pc EXCEPT ![Resumer] = "loading"]
          /\ record' = None
          /\ UNCHANGED <<queue, checkpoint, history, settled>>
          /\ lost' \subseteq lost
      BY <1>7, <2>2 DEF PopAll, Goto, memory
    <3>2. Fields(Resumer)' \subseteq Filed
      <4>1. turn'[Resumer] = NewTurn(record.prompt, record.user, 0)
        BY <3>1
      <4> QED
        BY <2>2, <4>1, FieldsOf DEF Fields, Filed
    <3>3. \A v \in Workers \ {Resumer} : pc'[v] = pc[v] /\ Fields(v)' = Fields(v)
      BY <3>1 DEF Fields
    <3>4. Filed' \subseteq Filed
      BY <2>2, <3>1 DEF Filed
    <3>5. \A x : Touched(x)' => Touched(x)
      BY <3>1, <3>2, <3>3, <3>4 DEF Touched
    <3>6. \A x \in Messages : pc'[x] = pc[x]
      BY <3>3
    <3> QED
      BY <1>q, <3>1, <3>5, <3>6 DEF QueueIsFresh, Unseen
  <2> QED
    BY <2>1, <2>2
<1>8. CASE Resume
  <2>1. /\ turn' = [turn EXCEPT ![Resumer].seen = LoadCheckpoint]
        /\ pc' = [pc EXCEPT ![Resumer] = "starting"]
        /\ UNCHANGED <<queue, record, checkpoint, history, settled>>
        /\ lost' \subseteq lost \cup ToSet(turn[Resumer].prompt)
    BY <1>8 DEF Resume, Goto, memory, disk
  <2>2. Fields(Resumer)' \subseteq Fields(Resumer) \cup Filed
    <3>1. turn[Resumer] \in Turn
      OBVIOUS
    <3>2. /\ turn'[Resumer].prompt = turn[Resumer].prompt /\ turn'[Resumer].base = turn[Resumer].base
          /\ turn'[Resumer].safe = turn[Resumer].safe /\ turn'[Resumer].seen = LoadCheckpoint
      BY <2>1, <3>1 DEF Turn
    <3> QED
      BY <3>2 DEF Fields, Filed, LoadCheckpoint
  <2>3. \A v \in Workers \ {Resumer} : pc'[v] = pc[v] /\ Fields(v)' = Fields(v)
    BY <2>1 DEF Fields
  <2>4. Filed' = Filed /\ ToSet(turn[Resumer].prompt) \subseteq Fields(Resumer)
    BY <2>1 DEF Filed, Fields
  <2>5. \A x : Touched(x)' => Touched(x)
    BY <2>1, <2>2, <2>3, <2>4 DEF Touched
  <2>6. \A x \in Messages : pc'[x] = pc[x]
    BY <2>3
  <2> QED
    BY <1>q, <2>1, <2>5, <2>6 DEF QueueIsFresh, Unseen
<1> QED
  BY <1>1, <1>2, <1>3, <1>4, <1>5, <1>6, <1>7, <1>8 DEF Next, Arrival

----------------------------------------------------------------------------
(* What a turn has in hand leaves it with an outcome. *)

LEMMA InHandIs == \A m : m \in InHand <=> \E w \in Workers : m \in Hand(w)
BY DEF InHand, Hand, Live

(* Past the start, a turn holds what its model saw beyond the history. *)
LEMMA CustodyIs ==
  ASSUME NEW w \in Workers
  PROVE  /\ pc[w] \notin {"loading", "starting"} => Custody(w) = turn[w].seen \ turn[w].base
         /\ pc[w] = "starting" /\ turn[w].seen = {} => Custody(w) = ToSet(turn[w].prompt)
         /\ pc[w] = "starting" /\ turn[w].seen # {} => Custody(w) = turn[w].seen \ turn[w].base
         /\ pc'[w] \notin {"loading", "starting"} => Custody(w)' = turn'[w].seen \ turn'[w].base
         /\ pc'[w] = "starting" /\ turn'[w].seen = {} => Custody(w)' = ToSet(turn'[w].prompt)
         /\ pc'[w] = "starting" /\ turn'[w].seen # {} => Custody(w)' = turn'[w].seen \ turn'[w].base
BY DEF Custody

(* The step of one action that is neither a start nor a drain nor an end:   *)
(* the turn stays past its start.                                           *)
LEMMA StepHand ==
  ASSUME TypeOK, StoredIsSettled, QueueIsFresh, NEW w \in Workers, TurnStep(w)
  PROVE  /\ Hand(w)' \subseteq Hand(w) \cup (ToSet(queue) \ ToSet(queue'))
         /\ Hand(w) \subseteq Hand(w)' \cup settled' \cup lost'
         /\ ToSet(queue) \ ToSet(queue') \subseteq Hand(w)' \cup lost'
<1> DEFINE Goal == /\ Hand(w)' \subseteq Hand(w) \cup (ToSet(queue) \ ToSet(queue'))
                   /\ Hand(w) \subseteq Hand(w)' \cup settled' \cup lost'
                   /\ ToSet(queue) \ ToSet(queue') \subseteq Hand(w)' \cup lost'
<1> /\ pc \in [Workers -> PCs] /\ turn \in [Workers -> Turn] /\ queue \in Seq(Messages)
  BY DEF TypeOK
<1>0. /\ pc[w] \in LivePC
      /\ Hand(w) = Custody(w)
      /\ settled \subseteq settled' /\ lost \subseteq lost'
      /\ history \subseteq settled
      /\ turn[w].base \subseteq settled
      /\ pc[w] \notin EndPC \cup {"saving"} => turn[w].safe \subseteq turn[w].seen
      /\ pc[w] = "starting" => turn[w].base = {}
      /\ pc[w] \in EndPC \cup {"saving"} => turn[w].seen \subseteq settled
  BY TurnStepMoves, StepOutcomes DEF Hand, StoredIsSettled, Stored, Live
<1>1. CASE ReadHistory(w)
  <2>1. /\ pc[w] = "starting" /\ pc'[w] = "entering" /\ queue' = queue
        /\ settled' = settled /\ lost' = lost
    BY <1>1 DEF ReadHistory, Goto, memory, ghosts
  <2>2. /\ Custody(w)' = turn'[w].seen \ history
        /\ turn'[w].seen = IF turn[w].seen = {} THEN history \cup ToSet(turn[w].prompt) ELSE turn[w].seen
    BY <1>1, <2>1, Frames, CustodyIs DEF Frame
  <2>3. Hand(w)' = Custody(w)'
    BY <2>1 DEF Hand, LivePC, StartPC
  <2> QED
    BY <1>0, <2>1, <2>2, <2>3, CustodyIs
<1>2. CASE ToolReturns(w)
  <2>1. /\ pc[w] = "tool" /\ pc'[w] = "request" /\ settled' = settled /\ lost' = lost
    BY <1>2 DEF ToolReturns, Goto, ghosts
  <2>2. /\ Custody(w) = turn[w].seen \ turn[w].base /\ Hand(w)' = turn'[w].seen \ turn'[w].base
    BY <2>1, CustodyIs DEF Hand, LivePC, RunPC
  <2>3. ToSet(queue) \cap turn[w].base = {}
    BY ToSetType DEF QueueIsFresh, Touched, Fields
  <2>4. CASE queue' = <<>> /\ Frame(w, turn[w].base, turn[w].seen \cup ToSet(queue), turn[w].safe)
    <3>1. Hand(w)' = (turn[w].seen \cup ToSet(queue)) \ turn[w].base /\ ToSet(queue') = {}
      BY <2>2, <2>4, ToSetEmpty DEF Frame
    <3> QED
      BY <1>0, <2>2, <2>3, <3>1
  <2>5. CASE queue' = queue /\ Frame(w, turn[w].base, turn[w].seen, turn[w].safe)
    BY <1>0, <2>2, <2>5 DEF Frame
  <2> QED
    BY <1>2, <2>4, <2>5, Frames
<1>3. CASE Skip(w)
  <2>1. /\ pc[w] = "tool" /\ pc'[w] = "saving" /\ queue' = queue /\ settled' = settled \cup Custody(w)
    BY <1>3 DEF Skip, Goto, memory
  <2>2. PICK kept \in {turn[w].base, turn[w].safe} : Frame(w, turn[w].base, kept, turn[w].safe)
    BY <1>3, Frames
  <2>3. /\ Custody(w) = turn[w].seen \ turn[w].base /\ Hand(w)' = turn'[w].seen \ turn'[w].base
    BY <2>1, CustodyIs DEF Hand, LivePC, RunPC
  <2>4. turn[w].safe \subseteq turn[w].seen
    BY <1>0, <2>1 DEF EndPC
  <2> QED
    BY <1>0, <2>1, <2>2, <2>3, <2>4 DEF Frame
<1>4. CASE AttemptFails(w)
  <2>1. /\ pc[w] \in {"response", "tool"} /\ pc'[w] = "request" /\ queue' = queue
        /\ lost' = lost \cup (turn[w].seen \ (turn[w].safe \cup settled)) /\ settled' = settled
    BY <1>4 DEF AttemptFails, Goto, memory
  <2>2. /\ Custody(w) = turn[w].seen \ turn[w].base /\ Hand(w)' = turn'[w].seen \ turn'[w].base
    BY <2>1, CustodyIs DEF Hand, LivePC, RunPC
  <2>3. turn[w].safe \subseteq turn[w].seen
    BY <1>0, <2>1 DEF EndPC
  <2>4. Frame(w, turn[w].base, turn[w].safe, turn[w].safe)
    BY <1>4, Frames
  <2>5. Hand(w)' = turn[w].safe \ turn[w].base
    BY <2>2, <2>4 DEF Frame
  <2> QED
    BY <1>0, <2>1, <2>2, <2>3, <2>5
<1>5. CASE Refuse(w) \/ RecordFails(w)
  <2>1. /\ queue' = queue /\ pc'[w] = "done"
        /\ Custody(w) \subseteq settled' \cup lost'
    BY <1>5 DEF Refuse, RecordFails, Return, Goto, memory
  <2>2. Hand(w)' = {}
    BY <2>1 DEF Hand, LivePC, StartPC, RunPC, EndPC
  <2> QED
    BY <1>0, <2>1, <2>2
<1>6. CASE UnrecordFails(w) \/ DrainNothing(w) \/ DrainTooDeep(w)
  <2>1. /\ pc[w] \in EndPC /\ pc'[w] = "done"
        /\ \/ queue' = queue
           \/ lost' = lost \cup ToSet(queue)
    BY <1>6 DEF UnrecordFails, DrainNothing, DrainTooDeep, Return, Goto, memory, EndPC
  <2>2. Hand(w)' = {}
    BY <2>1 DEF Hand, LivePC, StartPC, RunPC, EndPC
  <2>3. Custody(w) \subseteq settled
    BY <1>0, <2>1, CustodyIs DEF EndPC
  <2> QED
    BY <1>0, <2>1, <2>2, <2>3
<1>7. CASE DrainNext(w)
  <2>1. PICK n \in 1..Len(queue) :
           /\ queue' = SubSeq(queue, n + 1, Len(queue))
           /\ turn'[w].prompt = SubSeq(queue, 1, n)
           /\ turn'[w].base = {} /\ turn'[w].seen = {} /\ turn'[w].safe = {}
    BY <1>7, DrainedFrame
  <2>2. pc[w] = "drain" /\ pc'[w] = "starting"
    BY <1>7 DEF DrainNext, Goto
  <2>3. Hand(w)' = ToSet(SubSeq(queue, 1, n))
    BY <2>1, <2>2, CustodyIs DEF Hand, LivePC, StartPC
  <2>4. Custody(w) \subseteq settled
    BY <1>0, <2>2, CustodyIs DEF EndPC
  <2>5. ToSet(SubSeq(queue, 1, n)) = ToSet(queue) \ ToSet(queue')
    <3>1. \A i, j \in DOMAIN queue : queue[i] = queue[j] => i = j
      BY DEF QueueIsFresh
    <3> QED
      BY <2>1, <3>1, ToSetCut
  <2> QED
    BY <1>0, <2>3, <2>4, <2>5
<1>8. CASE \/ Mark(w) \/ Record(w) \/ StartClean(w) \/ RunAgent(w) \/ Request(w) \/ CallTool(w) \/ Halt(w)
           \/ TurnFails(w) \/ PostReply(w) \/ SetHistory(w) \/ Unmark(w) \/ Unrecord(w) \/ Forget(w)
  <2>1. /\ queue' = queue /\ pc'[w] \in LivePC
        /\ pc[w] \notin {"loading", "starting"} /\ pc'[w] \notin {"loading", "starting"}
    BY <1>8 DEF Mark, Record, StartClean, RunAgent, Request, CallTool, Halt, TurnFails, PostReply, SetHistory,
                Unmark, Unrecord, Forget, Goto, memory, LivePC, StartPC, RunPC, EndPC
  <2>2. turn'[w].seen = turn[w].seen /\ turn'[w].base = turn[w].base
    <3>1. CASE RunAgent(w) \/ CallTool(w) \/ Halt(w)
      BY <3>1, Frames DEF Frame
    <3>2. CASE UNCHANGED turn
      BY <3>2
    <3> QED
      BY <1>8, <3>1, <3>2 DEF Mark, Record, StartClean, Request, TurnFails, PostReply, SetHistory, Unmark,
                              Unrecord, Forget
  <2>3. Hand(w)' = Hand(w)
    BY <1>0, <2>1, <2>2, CustodyIs DEF Hand
  <2> QED
    BY <2>1, <2>3
<1> QED
  BY <1>1, <1>2, <1>3, <1>4, <1>5, <1>6, <1>7, <1>8 DEF TurnStep

LEMMA StepStores ==
  ASSUME TypeOK, StoredIsSettled, NEW w \in Workers, TurnStep(w)
  PROVE  /\ history' \subseteq settled'
         /\ pc'[w] \in LivePC => Stored(w)'
<1> DEFINE Goal == history' \subseteq settled' /\ (pc'[w] \in LivePC => Stored(w)')
<1> /\ pc \in [Workers -> PCs] /\ turn \in [Workers -> Turn]
  BY DEF TypeOK
<1>0. /\ pc[w] \in LivePC
      /\ settled \subseteq settled'
      /\ history \subseteq settled
      /\ turn[w].base \subseteq settled
      /\ pc[w] \notin EndPC \cup {"saving"} => turn[w].safe \subseteq turn[w].seen
      /\ pc[w] = "starting" => turn[w].base = {}
      /\ pc[w] \in EndPC \cup {"saving"} => turn[w].seen \subseteq settled
  BY TurnStepMoves, StepOutcomes DEF StoredIsSettled, Stored, Live
<1>1. CASE ReadHistory(w)
  <2>1. pc[w] = "starting" /\ pc'[w] = "entering" /\ history' = history
    BY <1>1 DEF ReadHistory, Goto, disk
  <2>2. turn[w].safe \subseteq turn[w].seen
    BY <1>0, <2>1 DEF EndPC
  <2>3. turn'[w].base = history /\ turn'[w].safe = turn[w].safe /\ turn[w].seen \subseteq turn'[w].seen
    BY <1>1, Frames DEF Frame
  <2> QED
    BY <1>0, <2>1, <2>2, <2>3 DEF Stored, EndPC
<1>2. CASE RunAgent(w) \/ CallTool(w)
  <2>1. pc'[w] \in {"request", "tool"} /\ history' = history
    BY <1>2 DEF RunAgent, CallTool, Goto, disk
  <2>2. turn'[w].base = turn[w].base /\ turn'[w].safe = turn'[w].seen
    BY <1>2, Frames DEF Frame
  <2> QED
    BY <1>0, <2>1, <2>2 DEF Stored, EndPC
<1>3. CASE ToolReturns(w) \/ AttemptFails(w)
  <2>1. pc[w] \in {"response", "tool"} /\ pc'[w] = "request" /\ history' = history
    BY <1>3 DEF ToolReturns, AttemptFails, Goto, disk
  <2>2. turn'[w].base = turn[w].base
    BY <1>3, Frames DEF Frame
  <2>3. turn'[w].safe = turn[w].safe /\ turn[w].safe \subseteq turn[w].seen
    BY <1>0, <1>3, <2>1, Frames DEF Frame, EndPC
  <2>4. \/ turn'[w].seen = turn[w].safe
        \/ turn[w].seen \subseteq turn'[w].seen
    BY <1>3, Frames DEF Frame
  <2> QED
    BY <1>0, <2>1, <2>2, <2>3, <2>4 DEF Stored, EndPC
<1>4. CASE Halt(w) \/ Skip(w) \/ PostReply(w) \/ TurnFails(w)
  <2>1. /\ pc[w] \in RunPC /\ pc'[w] \in {"saving", "unmark"} /\ history' = history
        /\ settled' = settled \cup Custody(w)
    BY <1>4 DEF Halt, Skip, PostReply, TurnFails, Goto, disk, RunPC
  <2>2. turn'[w].base = turn[w].base
    BY <1>4, Frames DEF Frame, PostReply, TurnFails
  <2>3. turn[w].seen \subseteq settled'
    BY <1>0, <2>1, CustodyIs DEF RunPC
  <2>4. \/ turn'[w].seen = turn[w].seen
        \/ turn'[w].seen = turn[w].base
        \/ pc[w] = "tool" /\ turn'[w].seen = turn[w].safe
    BY <1>4, Frames DEF Frame, Skip, PostReply, TurnFails
  <2>5. turn'[w].seen \subseteq settled'
    BY <1>0, <2>3, <2>4 DEF EndPC
  <2> QED
    BY <1>0, <2>1, <2>2, <2>5 DEF Stored, EndPC
<1>5. CASE SetHistory(w)
  <2>1. /\ pc[w] = "saving" /\ pc'[w] = "unmark" /\ history' = turn[w].seen /\ turn' = turn /\ settled' = settled
    BY <1>5 DEF SetHistory, Goto, ghosts
  <2> QED
    BY <1>0, <2>1 DEF Stored, EndPC
<1>6. CASE DrainNext(w)
  <2>1. pc'[w] = "starting" /\ history' = history /\ settled' = settled
    BY <1>6 DEF DrainNext, Goto, disk, ghosts
  <2>2. turn'[w].base = {} /\ turn'[w].safe = {}
    BY <1>6, DrainedFrame
  <2> QED
    BY <1>0, <2>1, <2>2 DEF Stored, EndPC
<1>7. CASE Refuse(w) \/ RecordFails(w) \/ UnrecordFails(w) \/ DrainNothing(w) \/ DrainTooDeep(w)
  <2>1. pc'[w] = "done" /\ history' = history
    BY <1>7 DEF Refuse, RecordFails, UnrecordFails, DrainNothing, DrainTooDeep, Return, Goto, disk
  <2> QED
    BY <1>0, <2>1 DEF LivePC, StartPC, RunPC, EndPC
<1>8. CASE Mark(w) \/ Record(w) \/ StartClean(w) \/ Request(w)
  <2>1. /\ turn' = turn /\ history' = history /\ settled' = settled
        /\ pc[w] \in {"entering", "recording", "unlinking", "request"}
        /\ pc'[w] \in {"recording", "unlinking", "setup", "response"}
    BY <1>8 DEF Mark, Record, StartClean, Request, Goto, disk, ghosts
  <2> QED
    BY <1>0, <2>1 DEF Stored, EndPC
<1>9. CASE Unmark(w) \/ Unrecord(w) \/ Forget(w)
  <2>1. /\ turn' = turn /\ history' = history /\ settled' = settled
        /\ pc[w] \in EndPC /\ pc'[w] \in EndPC
    BY <1>9 DEF Unmark, Unrecord, Forget, Goto, disk, ghosts, EndPC
  <2> QED
    BY <1>0, <2>1 DEF Stored, EndPC
<1> QED
  BY <1>1, <1>2, <1>3, <1>4, <1>5, <1>6, <1>7, <1>8, <1>9 DEF TurnStep

LEMMA StoredStep ==
  TypeOK /\ StoredIsSettled /\ [Next]_vars => StoredIsSettled'
<1> SUFFICES ASSUME TypeOK, StoredIsSettled, [Next]_vars
             PROVE  StoredIsSettled'
  OBVIOUS
<1> /\ pc \in [Workers -> PCs] /\ turn \in [Workers -> Turn]
    /\ Messages \subseteq Workers /\ Resumer \in Workers
  BY DEF TypeOK, Workers
<1>1. ASSUME NEW w \in Workers, TurnStep(w) PROVE StoredIsSettled'
  <2>1. ASSUME NEW v \in Workers \ {w}, pc'[v] \in LivePC PROVE Stored(v)'
    <3>1. pc'[v] = pc[v] /\ turn'[v] = turn[v] /\ settled \subseteq settled'
      BY <1>1, OtherFrames, StepOutcomes
    <3>2. Stored(v)
      BY <2>1, <3>1 DEF StoredIsSettled, Live
    <3> QED
      BY <3>1, <3>2 DEF Stored
  <2> QED
    BY <1>1, <2>1, StepStores DEF StoredIsSettled, Live
<1>2. ASSUME NEW m \in Messages, Ignore(m) \/ Steer(m) \/ QueueSteering(m) \/ HandlerFails(m)
      PROVE StoredIsSettled'
  <2>1. /\ pc'[m] \notin LivePC
        /\ \A v \in Workers \ {m} : pc'[v] = pc[v] /\ turn'[v] = turn[v]
        /\ settled \subseteq settled' /\ history' = history
    BY <1>2 DEF Ignore, Steer, QueueSteering, HandlerFails, Return, Goto, LivePC, StartPC, RunPC, EndPC,
                memory, disk, ghosts
  <2> QED
    BY <2>1 DEF StoredIsSettled, Stored, Live
<1>3. ASSUME NEW m \in Messages, Start(m) PROVE StoredIsSettled'
  <2>1. /\ pc'[m] = "starting" /\ turn'[m] = NewTurn(<<m>>, Sender[m], 0)
        /\ \A v \in Workers \ {m} : pc'[v] = pc[v] /\ turn'[v] = turn[v]
        /\ settled' = settled /\ history' = history
    BY <1>3 DEF Start, Goto, disk
  <2>2. Stored(m)'
    BY <2>1, FieldsOf DEF Stored, EndPC
  <2>3. \A v \in Workers \ {m} : Stored(v)' <=> Stored(v)
    BY <2>1 DEF Stored
  <2> QED
    BY <2>1, <2>2, <2>3 DEF StoredIsSettled, Live
<1>4. CASE Stop \/ SetBan \/ Boot \/ UNCHANGED vars
  BY <1>4 DEF Stop, SetBan, Boot, vars, memory, disk, ghosts, StoredIsSettled, Stored, Live
<1>5. CASE Crash
  <2>1. \A w \in Workers : pc'[w] \notin LivePC
    BY <1>5 DEF Crash, Live, LivePC, StartPC, RunPC, EndPC
  <2> QED
    BY <1>5, <2>1 DEF Crash, disk, StoredIsSettled, Live
<1>6. CASE PopAll
  <2>1. CASE record = None
    BY <1>6, <2>1 DEF PopAll, StoredIsSettled, Stored, Live
  <2>2. CASE record # None
    <3>1. /\ pc'[Resumer] = "loading"
          /\ turn'[Resumer] = NewTurn(record.prompt, record.user, 0)
          /\ \A v \in Workers \ {Resumer} : pc'[v] = pc[v] /\ turn'[v] = turn[v]
          /\ settled' = settled /\ history' = history
      BY <1>6, <2>2 DEF PopAll, Goto
    <3>2. Stored(Resumer)'
      BY <3>1, FieldsOf DEF Stored, EndPC
    <3>3. \A v \in Workers \ {Resumer} : Stored(v)' <=> Stored(v)
      BY <3>1 DEF Stored
    <3> QED
      BY <3>1, <3>2, <3>3 DEF StoredIsSettled, Live
  <2> QED
    BY <2>1, <2>2
<1>7. CASE Resume
  <2>1. /\ pc[Resumer] = "loading" /\ pc'[Resumer] = "starting"
        /\ \A v \in Workers \ {Resumer} : pc'[v] = pc[v] /\ turn'[v] = turn[v]
        /\ settled' = settled /\ history' = history
    BY <1>7 DEF Resume, Goto, disk
  <2>2. turn[Resumer].base = {} /\ turn[Resumer].safe \subseteq turn[Resumer].seen /\ turn[Resumer].seen = {}
    BY <2>1 DEF StoredIsSettled, Stored, Live, LivePC, StartPC, EndPC
  <2>3. turn'[Resumer].base = {} /\ turn'[Resumer].safe = {}
    BY <1>7, <2>2 DEF Resume, Turn
  <2>4. Stored(Resumer)'
    BY <2>1, <2>3 DEF Stored, EndPC
  <2>5. \A v \in Workers \ {Resumer} : Stored(v)' <=> Stored(v)
    BY <2>1 DEF Stored
  <2> QED
    BY <2>1, <2>4, <2>5 DEF StoredIsSettled, Live
<1> QED
  BY <1>1, <1>2, <1>3, <1>4, <1>5, <1>6, <1>7 DEF Next, Arrival

LEMMA OneLiveStep == TypeOK /\ OneLive /\ [Next]_vars => OneLive'
<1> SUFFICES ASSUME TypeOK, OneLive, [Next]_vars
             PROVE  OneLive'
  OBVIOUS
<1> /\ pc \in [Workers -> PCs] /\ Messages \subseteq Workers /\ Resumer \in Workers
  BY DEF TypeOK, Workers
<1>1. ASSUME NEW w \in Workers, TurnStep(w) PROVE OneLive'
  <2>1. /\ pc[w] \in LivePC /\ pc' = [pc EXCEPT ![w] = pc'[w]] /\ mishaps \subseteq mishaps'
    BY <1>1, TurnStepMoves
  <2> QED
    BY <2>1 DEF OneLive, Live
<1>2. ASSUME NEW m \in Messages, Ignore(m) \/ Steer(m) \/ QueueSteering(m) \/ HandlerFails(m)
      PROVE OneLive'
  <2>1. /\ \E l \in {"ignored", "queueing", "queued", "done"} : Goto(m, l)
        /\ mishaps' = mishaps
    BY <1>2 DEF Ignore, Steer, QueueSteering, HandlerFails, Return, ghosts
  <2> QED
    BY <2>1 DEF Goto, OneLive, Live, LivePC, StartPC, RunPC, EndPC
<1>3. ASSUME NEW m \in Messages, Start(m) PROVE OneLive'
  <2>1. /\ pc' = [pc EXCEPT ![m] = "starting"]
        /\ mishaps' = IF Live = {} THEN mishaps ELSE mishaps \cup {"overlap"}
    BY <1>3 DEF Start, Goto
  <2> QED
    BY <2>1 DEF OneLive, Live
<1>4. CASE Stop \/ SetBan \/ Boot \/ UNCHANGED vars
  BY <1>4 DEF Stop, SetBan, Boot, vars, ghosts, OneLive, Live
<1>5. CASE Crash
  BY <1>5 DEF Crash, OneLive, Live, LivePC, StartPC, RunPC, EndPC
<1>6. CASE PopAll \/ Resume
  <2>1. \/ pc' = pc /\ mishaps' = mishaps
        \/ /\ \E l \in {"loading", "starting"} : pc' = [pc EXCEPT ![Resumer] = l]
           /\ Live # {} /\ pc[Resumer] # "loading" => "overlap" \in mishaps'
           /\ mishaps \subseteq mishaps'
    BY <1>6 DEF PopAll, Resume, Goto, ghosts
  <2> QED
    BY <2>1 DEF OneLive, Live, LivePC, StartPC
<1> QED
  BY <1>1, <1>2, <1>3, <1>4, <1>5, <1>6 DEF Next, Arrival

----------------------------------------------------------------------------
(* What the other steps put into whose hands. *)

LEMMA ArrivalHands ==
  ASSUME TypeOK, NEW m \in Messages, Ignore(m) \/ Steer(m) \/ QueueSteering(m)
  PROVE  /\ \A v \in Workers : Hand(v)' = Hand(v)
         /\ \A v \in Workers : pc'[v] \in LivePC <=> pc[v] \in LivePC
         /\ pc[m] \notin LivePC /\ pc'[m] \notin LivePC
         /\ \A v \in Workers \ {m} : pc'[v] = pc[v]
         /\ UNCHANGED <<proc, turn, record, checkpoint, history, settled, lost, mishaps>>
<1>1. /\ pc \in [Workers -> PCs] /\ m \in Workers
      /\ \E l \in {"ignored", "queueing", "queued"} : pc' = [pc EXCEPT ![m] = l]
      /\ pc[m] \in {"sent", "queueing"}
      /\ UNCHANGED <<proc, turn, record, checkpoint, history, settled, lost, mishaps>>
  BY DEF Ignore, Steer, QueueSteering, CanArrive, Goto, TypeOK, memory, disk, ghosts, Workers
<1>2. /\ pc'[m] \notin LivePC /\ pc[m] \notin LivePC
      /\ \A v \in Workers \ {m} : pc'[v] = pc[v]
  BY <1>1 DEF LivePC, StartPC, RunPC, EndPC
<1>3. \A v \in Workers : Hand(v)' = Hand(v)
  BY <1>1, <1>2 DEF Hand, Custody
<1> QED
  BY <1>1, <1>2, <1>3

LEMMA StartHands ==
  ASSUME TypeOK, NEW m \in Messages, Start(m)
  PROVE  /\ Hand(m) = {} /\ Hand(m)' = {m}
         /\ pc[m] = "sent" /\ pc'[m] = "starting"
         /\ \A v \in Workers \ {m} : Hand(v)' = Hand(v) /\ pc'[v] = pc[v] /\ turn'[v] = turn[v]
         /\ UNCHANGED <<proc, queue, record, checkpoint, history, settled, lost>>
         /\ mishaps \subseteq mishaps'
<1>1. /\ pc \in [Workers -> PCs] /\ turn \in [Workers -> Turn] /\ m \in Workers
      /\ pc[m] = "sent" /\ pc' = [pc EXCEPT ![m] = "starting"]
      /\ turn' = [turn EXCEPT ![m] = NewTurn(<<m>>, Sender[m], 0)]
      /\ UNCHANGED <<proc, queue, record, checkpoint, history, settled, lost>>
      /\ mishaps \subseteq mishaps'
  BY DEF Start, CanArrive, Goto, TypeOK, disk, Workers
<1>2. turn'[m].prompt = <<m>> /\ turn'[m].seen = {} /\ pc'[m] = "starting"
  BY <1>1, FieldsOf
<1>3. Hand(m) = {} /\ Hand(m)' = {m}
  BY <1>1, <1>2, ToSetSingle DEF Hand, Custody, LivePC, StartPC, RunPC, EndPC
<1>4. \A v \in Workers \ {m} : pc'[v] = pc[v] /\ turn'[v] = turn[v]
  BY <1>1
<1>5. \A v \in Workers \ {m} : Hand(v)' = Hand(v)
  BY <1>4 DEF Hand, Custody
<1> QED
  BY <1>1, <1>2, <1>3, <1>4, <1>5

LEMMA FailHands ==
  ASSUME TypeOK, NEW m \in Messages, HandlerFails(m)
  PROVE  /\ Hand(m)' = {} /\ Hand(m) \subseteq settled'
         /\ pc[m] = "starting" /\ pc'[m] = "done"
         /\ \A v \in Workers \ {m} : Hand(v)' = Hand(v) /\ pc'[v] = pc[v] /\ turn'[v] = turn[v]
         /\ UNCHANGED <<proc, queue, record, checkpoint, history, lost, mishaps>>
         /\ settled' = settled \cup Hand(m)
<1>1. /\ pc \in [Workers -> PCs] /\ turn \in [Workers -> Turn] /\ m \in Workers
      /\ pc[m] = "starting" /\ pc' = [pc EXCEPT ![m] = "done"]
      /\ turn' = [turn EXCEPT ![m] = NoTurn]
      /\ UNCHANGED <<proc, queue, record, checkpoint, history, lost, mishaps>>
      /\ settled' = settled \cup Custody(m)
  BY DEF HandlerFails, Return, Goto, TypeOK, memory, disk, Workers
<1>2. Hand(m) = Custody(m) /\ Hand(m)' = {} /\ pc'[m] = "done"
  BY <1>1 DEF Hand, LivePC, StartPC, RunPC, EndPC
<1>4. \A v \in Workers \ {m} : pc'[v] = pc[v] /\ turn'[v] = turn[v]
  BY <1>1
<1>5. \A v \in Workers \ {m} : Hand(v)' = Hand(v)
  BY <1>4 DEF Hand, Custody
<1> QED
  BY <1>1, <1>2, <1>4, <1>5

LEMMA CrashHands ==
  ASSUME Crash
  PROVE  \A v \in Workers : Hand(v)' = {} /\ pc'[v] \notin LivePC
<1>1. \A v \in Workers : pc'[v] \notin LivePC
  BY DEF Crash, Live, LivePC, StartPC, RunPC, EndPC
<1> QED
  BY <1>1 DEF Hand

LEMMA PopHands ==
  ASSUME TypeOK, ResumerIsIdle, PopAll, record # None
  PROVE  /\ Hand(Resumer) = {} /\ pc[Resumer] \notin LivePC /\ pc'[Resumer] = "loading"
         /\ Hand(Resumer)' = ToSet(record.prompt)
         /\ \A v \in Workers \ {Resumer} : Hand(v)' = Hand(v) /\ pc'[v] = pc[v] /\ turn'[v] = turn[v]
         /\ ToLoad' = LoadCheckpoint
<1>1. /\ pc \in [Workers -> PCs] /\ turn \in [Workers -> Turn] /\ Resumer \in Workers
      /\ pc[Resumer] \notin LivePC
      /\ turn' = [turn EXCEPT ![Resumer] = NewTurn(record.prompt, record.user, 0)]
      /\ pc' = [pc EXCEPT ![Resumer] = "loading"]
      /\ checkpoint' = checkpoint
  BY DEF PopAll, Goto, TypeOK, ResumerIsIdle, Workers
<1>2. turn'[Resumer] = NewTurn(record.prompt, record.user, 0) /\ pc'[Resumer] = "loading"
  BY <1>1
<1>3. turn'[Resumer].prompt = record.prompt /\ turn'[Resumer].seen = {}
  BY <1>2, FieldsOf
<1>4. Hand(Resumer)' = ToSet(record.prompt)
  BY <1>2, <1>3 DEF Hand, Custody, LivePC, StartPC
<1>5. \A v \in Workers \ {Resumer} : pc'[v] = pc[v] /\ turn'[v] = turn[v]
  BY <1>1
<1>6. \A v \in Workers \ {Resumer} : Hand(v)' = Hand(v)
  BY <1>5 DEF Hand, Custody
<1>7. Hand(Resumer) = {}
  BY <1>1 DEF Hand
<1>8. ToLoad' = LoadCheckpoint
  BY <1>1, <1>2 DEF ToLoad, LoadCheckpoint
<1> QED
  BY <1>1, <1>2, <1>4, <1>5, <1>6, <1>7, <1>8

LEMMA ResumeHands ==
  ASSUME TypeOK, StoredIsSettled, Resume
  PROVE  /\ pc[Resumer] = "loading" /\ pc'[Resumer] = "starting"
         /\ Hand(Resumer) = ToSet(turn[Resumer].prompt)
         /\ Hand(Resumer)' = IF ToLoad = {} THEN ToSet(turn[Resumer].prompt) ELSE ToLoad
         /\ \A v \in Workers \ {Resumer} : Hand(v)' = Hand(v) /\ pc'[v] = pc[v] /\ turn'[v] = turn[v]
         /\ ToLoad = LoadCheckpoint
<1>1. /\ pc \in [Workers -> PCs] /\ turn \in [Workers -> Turn] /\ Resumer \in Workers
      /\ pc[Resumer] = "loading"
      /\ turn' = [turn EXCEPT ![Resumer].seen = LoadCheckpoint]
      /\ pc' = [pc EXCEPT ![Resumer] = "starting"]
  BY DEF Resume, Goto, TypeOK, Workers
<1>2. turn[Resumer].seen = {} /\ turn[Resumer].base = {}
  BY <1>1 DEF StoredIsSettled, Stored, Live, LivePC, StartPC
<1>3. /\ turn'[Resumer].prompt = turn[Resumer].prompt /\ turn'[Resumer].base = {}
      /\ turn'[Resumer].seen = LoadCheckpoint
      /\ pc'[Resumer] = "starting"
  BY <1>1, <1>2 DEF Turn
<1>4. ToLoad = LoadCheckpoint
  BY <1>1 DEF ToLoad, LoadCheckpoint
<1>5. Hand(Resumer) = ToSet(turn[Resumer].prompt)
  BY <1>1, <1>2 DEF Hand, Custody, LivePC, StartPC
<1>6. Hand(Resumer)' = IF LoadCheckpoint = {} THEN ToSet(turn[Resumer].prompt) ELSE LoadCheckpoint
  BY <1>3 DEF Hand, Custody, LivePC, StartPC
<1>7. \A v \in Workers \ {Resumer} : pc'[v] = pc[v] /\ turn'[v] = turn[v]
  BY <1>1
<1>8. \A v \in Workers \ {Resumer} : Hand(v)' = Hand(v)
  BY <1>7 DEF Hand, Custody
<1> QED
  BY <1>1, <1>3, <1>4, <1>5, <1>6, <1>7, <1>8

----------------------------------------------------------------------------
(* Whose the record is. *)

LEMMA RecordedIsLive == RecordedPC \subseteq LivePC
BY DEF RecordedPC, LivePC, StartPC, RunPC, EndPC

LEMMA StepRecords ==
  ASSUME TypeOK, NEW w \in Workers, TurnStep(w)
  PROVE  \/ Record(w) /\ record' # None /\ record'.prompt = turn[w].prompt /\ pc'[w] = "unlinking" /\ turn' = turn
         \/ Unrecord(w) /\ record' = None
         \/ UnrecordFails(w) /\ record' = record /\ "disk" \in mishaps' /\ pc'[w] = "done"
         \/ /\ record' = record
            /\ pc'[w] \in RecordedPC <=> pc[w] \in RecordedPC
            /\ pc[w] \in RecordedPC => turn'[w].prompt = turn[w].prompt
            /\ checkpoint' = checkpoint \/ checkpoint' = None \/ pc[w] = "request"
<1> pc \in [Workers -> PCs]
  BY DEF TypeOK
<1> USE DEF memory, disk, ghosts, Goto, Return, RecordedPC, RunPC
<1>1. CASE Record(w)
  <2>1. record' # None
    <3>1. record' \in [prompt: Seq(Messages), user: Users \cup {None}]
      BY <1>1, FieldType DEF Record, RecordStart, TypeOK
    <3> QED
      BY <3>1, ThreadTurnsAssumption
  <2> QED
    BY <1>1, <2>1 DEF Record, RecordStart
<1>2. CASE Unrecord(w) \/ UnrecordFails(w)
  BY <1>2 DEF Unrecord, RecordFinished, UnrecordFails
<1>3. CASE DrainNext(w)
  BY <1>3 DEF DrainNext
<1>4. CASE \/ ReadHistory(w) \/ Refuse(w) \/ Mark(w) \/ RecordFails(w) \/ StartClean(w) \/ Forget(w)
           \/ DrainNothing(w) \/ DrainTooDeep(w)
  <2>1. /\ record' = record /\ (checkpoint' = checkpoint \/ checkpoint' = None)
        /\ pc'[w] \in RecordedPC <=> pc[w] \in RecordedPC
        /\ pc[w] \in RecordedPC => turn'[w].prompt = turn[w].prompt
    BY <1>4 DEF ReadHistory, Refuse, Mark, RecordFails, StartClean, Forget, UnlinkCheckpoint,
                DrainNothing, DrainTooDeep
  <2> QED
    BY <2>1
<1>5. CASE \/ RunAgent(w) \/ Request(w) \/ CallTool(w) \/ ToolReturns(w) \/ Halt(w) \/ Skip(w)
           \/ AttemptFails(w) \/ TurnFails(w) \/ PostReply(w) \/ SetHistory(w) \/ Unmark(w)
  <2>1. /\ record' = record /\ (checkpoint' = checkpoint \/ pc[w] = "request")
        /\ pc'[w] \in RecordedPC /\ pc[w] \in RecordedPC
    BY <1>5 DEF RunAgent, Request, CallTool, ToolReturns, Halt, Skip, AttemptFails, TurnFails,
                PostReply, SetHistory, Unmark
  <2>2. turn'[w].prompt = turn[w].prompt
    <3>1. pc'[w] \in LivePC
      BY <2>1, RecordedIsLive
    <3>2. ~DrainNext(w)
      BY <2>1 DEF DrainNext
    <3> QED
      BY <3>1, <3>2, TurnStepPrompts
  <2> QED
    BY <2>1, <2>2
<1> QED
  BY <1>1, <1>2, <1>3, <1>4, <1>5 DEF TurnStep

LEMMA TwiceStays == TypeOK /\ [Next]_vars /\ TwiceInHand => TwiceInHand'
<1> SUFFICES ASSUME TypeOK, [Next]_vars PROVE mishaps \subseteq mishaps'
  BY DEF TwiceInHand
<1>1. ASSUME NEW w \in Workers, TurnStep(w) PROVE mishaps \subseteq mishaps'
  BY <1>1, TurnStepMoves
<1>2. ASSUME NEW m \in Messages, Arrival(m) \/ QueueSteering(m) \/ HandlerFails(m)
      PROVE  mishaps \subseteq mishaps'
  BY <1>2 DEF Arrival, Ignore, Steer, Start, QueueSteering, HandlerFails, ghosts
<1>3. CASE Stop \/ SetBan \/ Boot \/ Crash \/ PopAll \/ Resume \/ UNCHANGED vars
  BY <1>3 DEF Stop, SetBan, Boot, Crash, PopAll, Resume, vars, ghosts
<1> QED
  BY <1>1, <1>2, <1>3 DEF Next

LEMMA OwnerStep ==
  TypeOK /\ OneLive /\ RecordHasOwner /\ [Next]_vars => RecordHasOwner'
<1> SUFFICES ASSUME TypeOK, OneLive, RecordHasOwner, [Next]_vars,
                    ~TwiceInHand', record' # None, NEW v \in Workers, pc'[v] \in RecordedPC
             PROVE  RecordedTurnIsLive'
  BY DEF RecordHasOwner
<1> /\ pc \in [Workers -> PCs] /\ turn \in [Workers -> Turn] /\ Messages \subseteq Workers /\ Resumer \in Workers
  BY DEF TypeOK, Workers
<1>0. ~TwiceInHand
  BY TwiceStays
<1>k. (\E u \in Workers : pc[u] \in RecordedPC) /\ record # None => RecordedTurnIsLive
  BY <1>0 DEF RecordHasOwner
<1>1. ASSUME NEW w \in Workers, TurnStep(w) PROVE RecordedTurnIsLive'
  <2>1. CASE Record(w) /\ record'.prompt = turn[w].prompt /\ pc'[w] = "unlinking" /\ turn' = turn
    BY <2>1 DEF RecordedTurnIsLive, Live, RecordedPC, LivePC, StartPC
  <2>2. CASE UnrecordFails(w) /\ record' = record /\ "disk" \in mishaps' /\ pc'[w] = "done"
    <3>1. "overlap" \notin mishaps /\ v # w /\ pc[w] \in LivePC /\ pc[v] = pc'[v]
      BY <1>1, <2>2, TurnStepMoves, OtherFrames DEF TwiceInHand, RecordedPC, RunPC
    <3> QED
      BY <3>1, RecordedIsLive DEF OneLive, Live
  <2>3. CASE /\ record' = record
             /\ pc'[w] \in RecordedPC <=> pc[w] \in RecordedPC
             /\ pc[w] \in RecordedPC => turn'[w].prompt = turn[w].prompt
    <3>1. \A u \in Workers : pc'[u] \in RecordedPC <=> pc[u] \in RecordedPC
      BY <1>1, <2>3, OtherFrames
    <3>2. \A u \in Workers : pc[u] \in RecordedPC => turn'[u].prompt = turn[u].prompt
      BY <1>1, <2>3, OtherFrames
    <3>3. PICK u \in Live : pc[u] \in RecordedPC /\ turn[u].prompt = record.prompt
      BY <1>k, <2>3, <3>1 DEF RecordedTurnIsLive
    <3>4. u \in Workers /\ pc'[u] \in RecordedPC /\ turn'[u].prompt = record'.prompt
      BY <2>3, <3>1, <3>2, <3>3 DEF Live
    <3> QED
      BY <3>4, RecordedIsLive DEF RecordedTurnIsLive, Live
  <2> QED
    BY <1>1, <2>1, <2>2, <2>3, StepRecords
<1>2. ASSUME record' = record,
             \A u \in Workers : pc'[u] \in RecordedPC <=> pc[u] \in RecordedPC,
             \A u \in Workers : pc[u] \in RecordedPC => turn'[u] = turn[u]
      PROVE  RecordedTurnIsLive'
  <2>1. PICK u \in Live : pc[u] \in RecordedPC /\ turn[u].prompt = record.prompt
    BY <1>k, <1>2 DEF RecordedTurnIsLive
  <2>2. u \in Workers /\ pc'[u] \in RecordedPC /\ turn'[u].prompt = record'.prompt
    BY <1>2, <2>1 DEF Live
  <2> QED
    BY <2>2, RecordedIsLive DEF RecordedTurnIsLive, Live
<1>3. ASSUME NEW m \in Messages, Ignore(m) \/ Steer(m) \/ QueueSteering(m) PROVE RecordedTurnIsLive'
  <2>1. /\ pc[m] \notin LivePC /\ pc'[m] \notin LivePC
        /\ \A u \in Workers \ {m} : pc'[u] = pc[u]
        /\ UNCHANGED <<record, turn>>
    BY <1>3, ArrivalHands
  <2> QED
    BY <1>2, <2>1, RecordedIsLive
<1>4. ASSUME NEW m \in Messages, Start(m) \/ HandlerFails(m) PROVE RecordedTurnIsLive'
  <2>1. /\ pc[m] \in {"sent", "starting"} /\ pc'[m] \in {"starting", "done"}
        /\ \A u \in Workers \ {m} : pc'[u] = pc[u] /\ turn'[u] = turn[u]
        /\ record' = record
    BY <1>4, StartHands, FailHands
  <2> QED
    BY <1>2, <2>1 DEF RecordedPC, RunPC
<1>5. CASE Stop \/ SetBan \/ Boot \/ UNCHANGED vars
  <2>1. UNCHANGED <<pc, turn, record>>
    BY <1>5 DEF Stop, SetBan, Boot, vars, disk
  <2> QED
    BY <1>2, <2>1
<1>6. CASE Crash
  BY <1>6, CrashHands, RecordedIsLive
<1>7. CASE PopAll
  BY <1>7 DEF PopAll
<1>8. CASE Resume
  <2>1. /\ pc[Resumer] = "loading" /\ pc'[Resumer] = "starting" /\ record' = record
        /\ \A u \in Workers \ {Resumer} : pc'[u] = pc[u] /\ turn'[u] = turn[u]
    BY <1>8 DEF Resume, Goto, disk
  <2> QED
    BY <1>2, <2>1 DEF RecordedPC, RunPC
<1> QED
  BY <1>1, <1>3, <1>4, <1>5, <1>6, <1>7, <1>8 DEF Next, Arrival

LEMMA OrphansFiled == Orphaned \subseteq Filed
BY DEF Orphaned, Filed

(* What is in line no turn has, and no file names. *)
LEMMA LineIsFree ==
  ASSUME TypeOK, QueueIsFresh
  PROVE  /\ ToSet(queue) \cap InHand = {}
         /\ ToSet(queue) \cap Filed = {}
         /\ \A m \in Messages : Unseen(m) => m \notin InHand \cup Filed
<1>1. ToSet(queue) \subseteq Messages
  BY ToSetType DEF TypeOK
<1> QED
  BY <1>1, InHandIsTouched DEF QueueIsFresh, Touched

LEMMA OrphansStep ==
  /\ TypeOK /\ ResumerIsIdle /\ QueueIsFresh /\ StoredIsSettled
  /\ OneLive /\ RecordHasOwner /\ OrphansAreFree /\ [Next]_vars
  => OrphansAreFree'
<1> SUFFICES ASSUME TypeOK, ResumerIsIdle, QueueIsFresh, StoredIsSettled, OneLive, RecordHasOwner,
                    OrphansAreFree, [Next]_vars,
                    ~TwiceInHand', proc' # "up", record' # None, ~RecordedTurnIsLive'
             PROVE  Orphaned' \cap InHand' \subseteq settled'
  BY DEF OrphansAreFree
<1> /\ pc \in [Workers -> PCs] /\ turn \in [Workers -> Turn] /\ Messages \subseteq Workers /\ Resumer \in Workers
  BY DEF TypeOK, Workers
<1>0. ~TwiceInHand
  BY TwiceStays
<1>k. proc # "up" /\ record # None /\ ~RecordedTurnIsLive => Orphaned \cap InHand \subseteq settled
  BY <1>0 DEF OrphansAreFree
<1>1. ASSUME NEW w \in Workers, TurnStep(w) PROVE Orphaned' \cap InHand' \subseteq settled'
  <2>0. proc' = proc /\ pc[w] \in LivePC
    BY <1>1, TurnStepMoves
  <2>1. CASE Record(w) /\ record'.prompt = turn[w].prompt /\ pc'[w] = "unlinking" /\ turn' = turn
    BY <2>1 DEF RecordedTurnIsLive, Live, RecordedPC, LivePC, StartPC
  <2>2. CASE UnrecordFails(w) /\ record' = record /\ "disk" \in mishaps' /\ pc'[w] = "done"
    <3>1. "overlap" \notin mishaps
      BY <1>1, <2>2, TurnStepMoves DEF TwiceInHand
    <3>2. \A v \in Workers : pc'[v] \notin LivePC
      BY <1>1, <2>0, <2>2, <3>1, OtherFrames DEF OneLive, Live, LivePC, StartPC, RunPC, EndPC
    <3> QED
      BY <3>2 DEF InHand, Live
  <2>3. CASE /\ record' = record
             /\ pc'[w] \in RecordedPC <=> pc[w] \in RecordedPC
             /\ pc[w] \in RecordedPC => turn'[w].prompt = turn[w].prompt
             /\ checkpoint' = checkpoint \/ checkpoint' = None \/ pc[w] = "request"
    <3>1. ~RecordedTurnIsLive
      <4> SUFFICES ASSUME NEW u \in Live, pc[u] \in RecordedPC, turn[u].prompt = record.prompt
                   PROVE  FALSE
        BY DEF RecordedTurnIsLive
      <4>1. u \in Workers /\ pc'[u] \in RecordedPC /\ turn'[u].prompt = record'.prompt
        BY <1>1, <2>3, OtherFrames DEF Live
      <4> QED
        BY <4>1, RecordedIsLive DEF RecordedTurnIsLive, Live
    <3>2. pc[w] # "request"
      BY <1>0, <2>3, <3>1 DEF RecordHasOwner, RecordedPC, RunPC
    <3>3. Orphaned' \subseteq Orphaned
      BY <2>3, <3>2 DEF Orphaned
    <3>4. InHand' \subseteq InHand \cup ToSet(queue)
      <4> SUFFICES ASSUME NEW m \in InHand' PROVE m \in InHand \cup ToSet(queue)
        OBVIOUS
      <4>1. PICK v \in Workers : m \in Hand(v)'
        BY DEF InHand, Hand, Live
      <4>2. v # w => Hand(v)' = Hand(v)
        BY <1>1, OtherFrames DEF Hand, Custody
      <4>3. Hand(w)' \subseteq Hand(w) \cup ToSet(queue)
        BY <1>1, StepHand
      <4> QED
        BY <4>1, <4>2, <4>3, InHandIs
    <3>5. Orphaned \cap ToSet(queue) = {}
      BY OrphansFiled, LineIsFree
    <3>6. Orphaned \cap InHand \subseteq settled
      BY <1>k, <2>0, <2>3, <3>1
    <3>7. settled \subseteq settled'
      BY <1>1, StepOutcomes
    <3> QED
      BY <3>3, <3>4, <3>5, <3>6, <3>7
  <2> QED
    BY <1>1, <2>1, <2>2, <2>3, StepRecords
<1>2. ASSUME proc' = proc, record' = record, checkpoint' = checkpoint, settled \subseteq settled',
             \A u \in Workers : pc[u] \in RecordedPC => pc'[u] \in RecordedPC /\ turn'[u] = turn[u],
             \A m \in InHand' : m \in InHand \/ (m \in Messages /\ Unseen(m))
      PROVE  Orphaned' \cap InHand' \subseteq settled'
  <2>1. ~RecordedTurnIsLive
    <3> SUFFICES ASSUME NEW u \in Live, pc[u] \in RecordedPC, turn[u].prompt = record.prompt
                 PROVE  FALSE
      BY DEF RecordedTurnIsLive
    <3>1. u \in Workers /\ pc'[u] \in RecordedPC /\ turn'[u].prompt = record'.prompt
      BY <1>2 DEF Live
    <3> QED
      BY <3>1, RecordedIsLive DEF RecordedTurnIsLive, Live
  <2>2. Orphaned' = Orphaned
    BY <1>2 DEF Orphaned
  <2> QED
    BY <1>k, <1>2, <2>1, <2>2, OrphansFiled, LineIsFree
<1>3. ASSUME NEW m \in Messages, Ignore(m) \/ Steer(m) \/ QueueSteering(m)
      PROVE  Orphaned' \cap InHand' \subseteq settled'
  <2>1. /\ pc[m] \notin LivePC
        /\ \A u \in Workers \ {m} : pc'[u] = pc[u]
        /\ UNCHANGED <<proc, record, checkpoint, turn, settled>>
        /\ \A v \in Workers : Hand(v)' = Hand(v)
    BY <1>3, ArrivalHands
  <2>2. \A x \in InHand' : x \in InHand
    BY <2>1, InHandIs DEF InHand, Hand, Live
  <2> QED
    BY <1>2, <2>1, <2>2, RecordedIsLive
<1>4. ASSUME NEW m \in Messages, Start(m) \/ HandlerFails(m) PROVE Orphaned' \cap InHand' \subseteq settled'
  <2>1. /\ pc[m] \notin RecordedPC
        /\ \A u \in Workers \ {m} : pc'[u] = pc[u] /\ turn'[u] = turn[u] /\ Hand(u)' = Hand(u)
        /\ UNCHANGED <<proc, record, checkpoint>> /\ settled \subseteq settled'
        /\ Hand(m)' \subseteq {x \in {m} : Unseen(x)}
    BY <1>4, StartHands, FailHands DEF RecordedPC, RunPC, Unseen
  <2>2. ASSUME NEW x \in InHand' PROVE x \in InHand \/ (x \in Messages /\ Unseen(x))
    <3>1. PICK v \in Workers : x \in Hand(v)'
      BY DEF InHand, Hand, Live
    <3> QED
      BY <2>1, <3>1, InHandIs
  <2> QED
    BY <1>2, <2>1, <2>2
<1>5. CASE Stop \/ SetBan \/ UNCHANGED vars
  <2>1. UNCHANGED <<proc, pc, turn, record, checkpoint, settled>>
    BY <1>5 DEF Stop, SetBan, vars, disk, ghosts
  <2>2. InHand' = InHand
    BY <2>1 DEF InHand, Live, Custody
  <2> QED
    BY <1>2, <2>1, <2>2
<1>6. CASE Boot
  <2>1. UNCHANGED <<pc, turn, record, checkpoint, settled>> /\ proc = "down"
    BY <1>6 DEF Boot, disk, ghosts
  <2>2. InHand' = InHand /\ Orphaned' = Orphaned /\ RecordedTurnIsLive' = RecordedTurnIsLive
    BY <2>1 DEF InHand, Live, Custody, Orphaned, RecordedTurnIsLive
  <2> QED
    BY <1>k, <2>1, <2>2
<1>7. CASE Crash
  BY <1>7, CrashHands DEF InHand, Live
<1>8. CASE PopAll \/ Resume
  BY <1>8 DEF PopAll, Resume
<1> QED
  BY <1>1, <1>3, <1>4, <1>5, <1>6, <1>7, <1>8 DEF Next, Arrival

(* What start-up has still to read is a file's. *)
LEMMA UnreadFiled == ToLoad \subseteq Filed
BY DEF ToLoad, Filed

(* A turn's step leaves the unread checkpoint, drops it, or writes over it. *)
LEMMA StepUnread ==
  ASSUME TypeOK, ResumerIsIdle, NEW w \in Workers, TurnStep(w)
  PROVE  /\ pc'[Resumer] = "loading" <=> pc[Resumer] = "loading"
         /\ \/ ToLoad' = ToLoad
            \/ ToLoad' = {} /\ lost' = lost \cup (ToLoad \ (InHand \cup settled)) /\ settled' = settled
            \/ /\ Request(w) /\ ToLoad' = turn[w].seen /\ "crossed" \in mishaps'
               /\ lost' = lost \cup (ToLoad \ (InHand \cup settled \cup turn[w].seen))
<1>0. pc'[Resumer] = "loading" <=> pc[Resumer] = "loading"
  <2>1. CASE w = Resumer
    BY <2>1, TurnStepMoves
  <2>2. CASE w # Resumer
    BY <2>2, OtherFrames DEF Workers
  <2> QED
    BY <2>1, <2>2
<1>1. CASE checkpoint' = checkpoint \/ pc[Resumer] # "loading"
  BY <1>0, <1>1 DEF ToLoad
<1>2. CASE StartClean(w) \/ Forget(w)
  BY <1>0, <1>2 DEF StartClean, Forget, UnlinkCheckpoint, LoseUnread, ToLoad
<1>3. CASE Request(w) /\ record # None /\ pc[Resumer] = "loading"
  <2>1. turn[w].seen # None
    <3>1. turn[w].seen \in SUBSET Messages
      BY DEF TypeOK, Turn
    <3> QED
      BY <3>1, ThreadTurnsAssumption
  <2>2. checkpoint' = turn[w].seen
    BY <1>3 DEF Request, SaveCheckpoint
  <2>3. ToLoad' = turn[w].seen
    BY <1>0, <1>3, <2>1, <2>2 DEF ToLoad
  <2> QED
    BY <1>0, <1>3, <2>3 DEF Request, LoseUnread
<1>4. CASE Request(w) /\ record = None
  BY <1>0, <1>4 DEF Request, SaveCheckpoint, ToLoad
<1>5. checkpoint' = checkpoint \/ StartClean(w) \/ Forget(w) \/ Request(w)
  BY DEF TurnStep, disk, ReadHistory, Refuse, Mark, Record, RecordFails, RunAgent, CallTool, ToolReturns,
         Halt, Skip, AttemptFails, TurnFails, PostReply, SetHistory, Unmark, Unrecord, UnrecordFails,
         DrainNothing, DrainNext, DrainTooDeep
<1> QED
  BY <1>0, <1>1, <1>2, <1>3, <1>4, <1>5

LEMMA UnreadStep ==
  /\ TypeOK /\ ResumerIsIdle /\ QueueIsFresh /\ StoredIsSettled
  /\ OrphansAreFree /\ UnreadIsFree /\ [Next]_vars
  => UnreadIsFree'
<1> SUFFICES ASSUME TypeOK, ResumerIsIdle, QueueIsFresh, StoredIsSettled, OrphansAreFree, UnreadIsFree,
                    [Next]_vars, ~TwiceInHand', NEW v \in Workers \ {Resumer}
             PROVE  ToLoad' \cap Hand(v)' \subseteq settled'
  BY DEF UnreadIsFree
<1> pc \in [Workers -> PCs] /\ Messages \subseteq Workers /\ Resumer \in Workers
  BY DEF TypeOK, Workers
<1>0. ~TwiceInHand
  BY TwiceStays
<1>k. ToLoad \cap Hand(v) \subseteq settled
  BY <1>0 DEF UnreadIsFree
<1>1. ASSUME NEW w \in Workers, TurnStep(w) PROVE ToLoad' \cap Hand(v)' \subseteq settled'
  <2>1. Hand(v)' \subseteq Hand(v) \cup ToSet(queue)
    <3>1. CASE v = w
      BY <1>1, <3>1, StepHand
    <3>2. CASE v # w
      BY <1>1, <3>2, OtherFrames DEF Hand, Custody
    <3> QED
      BY <3>1, <3>2
  <2>2. ToLoad' \subseteq ToLoad
    BY <1>1, StepUnread DEF TwiceInHand
  <2>3. ToLoad \cap ToSet(queue) = {}
    BY UnreadFiled, LineIsFree
  <2> QED
    BY <1>1, <1>k, <2>1, <2>2, <2>3, StepOutcomes
<1>2. ASSUME NEW m \in Messages, Ignore(m) \/ Steer(m) \/ QueueSteering(m)
      PROVE  ToLoad' \cap Hand(v)' \subseteq settled'
  <2>1. /\ Hand(v)' = Hand(v) /\ checkpoint' = checkpoint /\ settled' = settled
        /\ pc'[Resumer] = pc[Resumer]
    BY <1>2, ArrivalHands, ThreadTurnsAssumption
  <2> QED
    BY <1>k, <2>1 DEF ToLoad
<1>3. ASSUME NEW m \in Messages, Start(m) \/ HandlerFails(m)
      PROVE  ToLoad' \cap Hand(v)' \subseteq settled'
  <2>1. /\ Hand(v)' \subseteq Hand(v) \cup {x \in {m} : Unseen(x)}
        /\ checkpoint' = checkpoint /\ settled \subseteq settled'
        /\ pc'[Resumer] = pc[Resumer]
    BY <1>3, StartHands, FailHands, ThreadTurnsAssumption DEF Unseen
  <2>2. ToLoad \cap {x \in {m} : Unseen(x)} = {}
    BY UnreadFiled, LineIsFree
  <2> QED
    BY <1>k, <2>1, <2>2 DEF ToLoad
<1>4. CASE Stop \/ SetBan \/ Boot \/ UNCHANGED vars
  <2>1. UNCHANGED <<pc, turn, checkpoint, settled>>
    BY <1>4 DEF Stop, SetBan, Boot, vars, disk, ghosts
  <2> QED
    BY <1>k, <2>1 DEF ToLoad, Hand, Custody
<1>5. CASE Crash
  BY <1>5, CrashHands
<1>6. CASE PopAll
  <2>1. CASE record = None
    <3>1. UNCHANGED <<pc, turn, checkpoint, settled>>
      BY <1>6, <2>1 DEF PopAll
    <3> QED
      BY <1>k, <3>1 DEF ToLoad, Hand, Custody
  <2>2. CASE record # None
    <3>1. ~RecordedTurnIsLive /\ proc # "up" /\ settled' = settled
      BY <1>6, <2>2 DEF PopAll, TwiceInHand
    <3>2. Orphaned \cap InHand \subseteq settled
      BY <1>0, <2>2, <3>1 DEF OrphansAreFree
    <3>3. ToLoad' \subseteq Orphaned /\ Hand(v)' = Hand(v)
      BY <1>6, <2>2, PopHands DEF Orphaned, LoadCheckpoint
    <3> QED
      BY <3>1, <3>2, <3>3, InHandIs
  <2> QED
    BY <2>1, <2>2
<1>7. CASE Resume
  BY <1>7, ResumeHands DEF ToLoad
<1> QED
  BY <1>1, <1>2, <1>3, <1>4, <1>5, <1>6, <1>7 DEF Next, Arrival

(* A message can be taken by one turn only. *)
LEMMA ApartStep ==
  /\ TypeOK /\ ResumerIsIdle /\ QueueIsFresh /\ StoredIsSettled
  /\ OrphansAreFree /\ HandsApart /\ UnreadIsFree /\ [Next]_vars
  => HandsApart'
<1> SUFFICES ASSUME TypeOK, ResumerIsIdle, QueueIsFresh, StoredIsSettled, OrphansAreFree, HandsApart,
                    UnreadIsFree, [Next]_vars, ~TwiceInHand', NEW u \in Workers, NEW v \in Workers, u # v
             PROVE  Hand(u)' \cap Hand(v)' \subseteq settled'
  BY DEF HandsApart
<1> ~TwiceInHand
  BY TwiceStays
<1> DEFINE Goal == Hand(u)' \cap Hand(v)' \subseteq settled'
<1>1. \A x, y \in Workers : x # y => Hand(x) \cap Hand(y) \subseteq settled
  BY DEF HandsApart
<1>2. \A x \in Workers : Hand(x) \cap ToSet(queue) = {}
  BY LineIsFree, InHandIs
<1>3. ASSUME NEW w \in Workers, settled \subseteq settled',
             \A x \in Workers \ {w} : Hand(x)' = Hand(x),
             \A x \in Workers \ {w} : Hand(w)' \cap Hand(x) \subseteq settled
      PROVE  Goal
  BY <1>1, <1>3
<1>4. ASSUME NEW w \in Workers, TurnStep(w) PROVE Goal
  <2>1. Hand(w)' \subseteq Hand(w) \cup ToSet(queue) /\ settled \subseteq settled'
    BY <1>4, StepHand, StepOutcomes
  <2>2. \A x \in Workers \ {w} : Hand(x)' = Hand(x)
    BY <1>4, OtherFrames DEF Hand, Custody
  <2>3. \A x \in Workers \ {w} : Hand(w)' \cap Hand(x) \subseteq settled
    BY <1>1, <1>2, <2>1
  <2> QED
    BY <1>3, <2>1, <2>2, <2>3
<1>5. ASSUME NEW m \in Messages, Ignore(m) \/ Steer(m) \/ QueueSteering(m) PROVE Goal
  BY <1>1, <1>5, ArrivalHands
<1>6. ASSUME NEW m \in Messages, Start(m) PROVE Goal
  <2>1. m \notin InHand /\ m \in Workers
    BY <1>6, StartHands, LineIsFree DEF Unseen, Workers
  <2>2. \A x \in Workers \ {m} : Hand(m)' \cap Hand(x) \subseteq settled
    BY <1>6, <2>1, StartHands, InHandIs
  <2> QED
    BY <1>3, <1>6, <2>1, <2>2, StartHands
<1>7. ASSUME NEW m \in Messages, HandlerFails(m) PROVE Goal
  <2>1. m \in Workers
    BY DEF Workers
  <2> QED
    BY <1>3, <1>7, <2>1, FailHands
<1>8. CASE Stop \/ SetBan \/ Boot \/ UNCHANGED vars
  <2>1. UNCHANGED <<pc, turn, settled>>
    BY <1>8 DEF Stop, SetBan, Boot, vars, ghosts
  <2> QED
    BY <1>1, <2>1 DEF Hand, Custody
<1>9. CASE Crash
  BY <1>9, CrashHands
<1>10. CASE PopAll
  <2>1. CASE record = None
    <3>1. UNCHANGED <<pc, turn, settled>>
      BY <1>10, <2>1 DEF PopAll
    <3> QED
      BY <1>1, <3>1 DEF Hand, Custody
  <2>2. CASE record # None
    <3>1. ~RecordedTurnIsLive /\ proc # "up" /\ settled' = settled
      BY <1>10, <2>2 DEF PopAll, TwiceInHand
    <3>2. Orphaned \cap InHand \subseteq settled
      BY <2>2, <3>1 DEF OrphansAreFree
    <3>3. Hand(Resumer)' \subseteq Orphaned
      BY <1>10, <2>2, PopHands DEF Orphaned
    <3>4. \A x \in Workers \ {Resumer} : Hand(Resumer)' \cap Hand(x) \subseteq settled
      BY <3>2, <3>3, InHandIs
    <3> QED
      BY <1>3, <1>10, <2>2, <3>1, <3>4, PopHands DEF Workers
  <2> QED
    BY <2>1, <2>2
<1>11. CASE Resume
  <2>1. /\ Hand(Resumer)' \subseteq Hand(Resumer) \cup ToLoad
        /\ \A x \in Workers \ {Resumer} : Hand(x)' = Hand(x)
        /\ settled' = settled /\ Resumer \in Workers
    BY <1>11, ResumeHands DEF Resume, Workers
  <2>2. \A x \in Workers \ {Resumer} : Hand(Resumer)' \cap Hand(x) \subseteq settled
    BY <1>1, <2>1 DEF UnreadIsFree
  <2> QED
    BY <1>3, <2>1, <2>2
<1> QED
  BY <1>4, <1>5, <1>6, <1>7, <1>8, <1>9, <1>10, <1>11 DEF Next, Arrival

----------------------------------------------------------------------------
(* Every message is accounted for. *)

LEMMA AccountedStays ==
  /\ TypeOK /\ ResumerIsIdle /\ QueueIsFresh /\ StoredIsSettled /\ [Next]_vars /\ ~Crash
  => \A m \in Messages : Accounted(m) => Accounted(m)'
<1> SUFFICES ASSUME TypeOK, ResumerIsIdle, QueueIsFresh, StoredIsSettled, [Next]_vars, ~Crash,
                    NEW m \in Messages, Accounted(m)
             PROVE  Accounted(m)'
  OBVIOUS
<1> /\ pc \in [Workers -> PCs] /\ Messages \subseteq Workers /\ Resumer \in Workers /\ Resumer \notin Messages
  BY ThreadTurnsAssumption DEF TypeOK, Workers
<1>0. m \in InHand' <=> \E v \in Workers : m \in Hand(v)'
  BY DEF InHand, Hand, Live
<1>1. ASSUME NEW w \in Workers, TurnStep(w) PROVE Accounted(m)'
  <2>1. /\ pc[w] \in LivePC
        /\ \A v \in Workers \ {w} : pc'[v] = pc[v] /\ Hand(v)' = Hand(v)
    BY <1>1, TurnStepMoves, OtherFrames DEF Hand, Custody
  <2>2. /\ Hand(w) \subseteq Hand(w)' \cup settled' \cup lost'
        /\ ToSet(queue) \subseteq ToSet(queue') \cup Hand(w)' \cup lost'
        /\ settled \subseteq settled' /\ lost \subseteq lost'
    BY <1>1, StepHand, StepOutcomes
  <2>3. CASE Unseen(m)
    <3>1. m # w
      BY <2>1, <2>3 DEF Unseen, LivePC, StartPC, RunPC, EndPC
    <3> QED
      BY <2>1, <2>3, <3>1 DEF Accounted, Unseen
  <2>4. CASE m \in settled \cup lost \cup ToSet(queue)
    BY <1>0, <2>2, <2>4 DEF Accounted
  <2>5. CASE m \in InHand
    <3>1. PICK v \in Workers : m \in Hand(v)
      BY <2>5, InHandIs
    <3> QED
      BY <1>0, <2>1, <2>2, <3>1 DEF Accounted
  <2> QED
    BY <2>3, <2>4, <2>5 DEF Accounted
<1>2. ASSUME NEW x \in Messages, Ignore(x) \/ Steer(x) \/ QueueSteering(x) PROVE Accounted(m)'
  <2>1. /\ \A v \in Workers : Hand(v)' = Hand(v)
        /\ \A v \in Workers \ {x} : pc'[v] = pc[v]
        /\ settled' = settled /\ lost' = lost
    BY <1>2, ArrivalHands
  <2>2. CASE QueueSteering(x)
    <3>1. ToSet(queue') = ToSet(queue) \cup {x}
      BY <2>2, ToSetAppend DEF QueueSteering, QueueSteeringMessage, TypeOK
    <3> QED
      BY <1>0, <2>1, <3>1, InHandIs DEF Accounted, Unseen
  <2>3. CASE Ignore(x) \/ Steer(x)
    <3>1. queue' = queue /\ pc' = [pc EXCEPT ![x] = pc'[x]] /\ pc'[x] \in {"ignored", "queueing"}
      BY <2>3 DEF Ignore, Steer, Goto, memory
    <3> QED
      BY <1>0, <2>1, <3>1, InHandIs DEF Accounted, Unseen
  <2> QED
    BY <1>2, <2>2, <2>3
<1>3. ASSUME NEW x \in Messages, Start(x) PROVE Accounted(m)'
  BY <1>0, <1>3, StartHands, InHandIs DEF Accounted, Unseen
<1>4. ASSUME NEW x \in Messages, HandlerFails(x) PROVE Accounted(m)'
  BY <1>0, <1>4, FailHands, InHandIs DEF Accounted, Unseen
<1>5. CASE Stop \/ SetBan \/ Boot \/ UNCHANGED vars
  BY <1>5 DEF Stop, SetBan, Boot, vars, memory, ghosts, Accounted, Unseen, InHand, Live, Custody
<1>6. CASE PopAll
  <2>1. CASE record = None
    BY <1>6, <2>1 DEF PopAll, memory, Accounted, Unseen, InHand, Live, Custody
  <2>2. CASE record # None
    <3>1. /\ settled' = settled /\ queue' = queue
          /\ \A x \in lost : x \in lost' \cup Hand(Resumer)'
      BY <1>6, <2>2, PopHands DEF PopAll, memory
    <3>2. /\ Hand(Resumer) = {}
          /\ \A v \in Workers \ {Resumer} : pc'[v] = pc[v] /\ Hand(v)' = Hand(v)
      BY <1>6, <2>2, PopHands
    <3> QED
      BY <1>0, <3>1, <3>2, InHandIs DEF Accounted, Unseen
  <2> QED
    BY <2>1, <2>2
<1>7. CASE Resume
  <2>1. /\ settled' = settled /\ queue' = queue
        /\ \A x \in lost \cup Hand(Resumer) : x \in lost' \cup settled \cup Hand(Resumer)'
    BY <1>7, ResumeHands DEF Resume, memory, LoadCheckpoint
  <2>2. \A v \in Workers \ {Resumer} : pc'[v] = pc[v] /\ Hand(v)' = Hand(v)
    BY <1>7, ResumeHands
  <2> QED
    BY <1>0, <2>1, <2>2, InHandIs DEF Accounted, Unseen
<1> QED
  BY <1>1, <1>2, <1>3, <1>4, <1>5, <1>6, <1>7 DEF Next, Arrival

(* What start-up has still to read stays there, or is accounted for.        *)
LEMMA UnreadStays ==
  /\ TypeOK /\ ResumerIsIdle /\ QueueIsFresh /\ StoredIsSettled /\ [Next]_vars /\ ~Crash
  => \A m \in Messages : m \in ToLoad => Accounted(m)' \/ m \in ToLoad'
<1> SUFFICES ASSUME TypeOK, ResumerIsIdle, QueueIsFresh, StoredIsSettled, [Next]_vars, ~Crash,
                    NEW m \in Messages, m \in ToLoad
             PROVE  Accounted(m)' \/ m \in ToLoad'
  OBVIOUS
<1>1. ASSUME NEW w \in Workers, TurnStep(w) PROVE Accounted(m)' \/ m \in ToLoad'
  <2>1. CASE m \in InHand \cup settled
    BY <2>1, AccountedStays DEF Accounted
  <2>2. CASE m \notin InHand \cup settled
    BY <1>1, <2>2, StepUnread DEF Accounted
  <2> QED
    BY <2>1, <2>2
<1>2. ASSUME NEW x \in Messages, Arrival(x) \/ QueueSteering(x) \/ HandlerFails(x) PROVE m \in ToLoad'
  <2>1. pc'[Resumer] = pc[Resumer] /\ checkpoint' = checkpoint
    BY <1>2, ArrivalHands, StartHands, FailHands, ThreadTurnsAssumption DEF Arrival, Workers
  <2> QED
    BY <2>1 DEF ToLoad
<1>3. CASE Stop \/ SetBan \/ Boot \/ UNCHANGED vars
  BY <1>3 DEF Stop, SetBan, Boot, vars, disk, ToLoad
<1>4. CASE PopAll
  BY <1>4 DEF PopAll, ToLoad
<1>5. CASE Resume
  <2>1. m \in Hand(Resumer)'
    BY <1>5, ResumeHands
  <2> QED
    BY <2>1 DEF Accounted, InHand, Hand, Live, Workers
<1> QED
  BY <1>1, <1>2, <1>3, <1>4, <1>5 DEF Next

(* Only turns that were recorded, or are being recorded, touch the files.   *)
LEMMA StepDisk ==
  ASSUME TypeOK, NEW w \in Workers, TurnStep(w), ~Record(w), pc[w] \notin RecordedPC \cup {"forgetting"}
  PROVE  UNCHANGED <<record, checkpoint>> /\ pc'[w] \notin RecordedPC \cup {"forgetting"}
<1> pc \in [Workers -> PCs]
  BY DEF TypeOK
<1> USE DEF disk, Goto, Return, RecordedPC, RunPC
<1>1. CASE ReadHistory(w) \/ Refuse(w) \/ Mark(w) \/ RecordFails(w) \/ UnrecordFails(w)
  BY <1>1 DEF ReadHistory, Refuse, Mark, RecordFails, UnrecordFails
<1>2. CASE DrainNothing(w) \/ DrainNext(w) \/ DrainTooDeep(w)
  BY <1>2 DEF DrainNothing, DrainNext, DrainTooDeep
<1>3. CASE StartClean(w) \/ RunAgent(w) \/ Request(w) \/ CallTool(w) \/ ToolReturns(w) \/ Halt(w) \/ Skip(w)
  BY <1>3 DEF StartClean, RunAgent, Request, CallTool, ToolReturns, Halt, Skip
<1>4. CASE \/ AttemptFails(w) \/ TurnFails(w) \/ PostReply(w) \/ SetHistory(w) \/ Unmark(w)
           \/ Unrecord(w) \/ Forget(w)
  BY <1>4 DEF AttemptFails, TurnFails, PostReply, SetHistory, Unmark, Unrecord, Forget
<1> QED
  BY <1>1, <1>2, <1>3, <1>4 DEF TurnStep

(* record_start gives up on what it overwrites. *)
LEMMA RecordAccounts ==
  ASSUME TypeOK, NothingVanishes, NEW w \in Workers, Record(w), TypeOK, ResumerIsIdle, QueueIsFresh,
         StoredIsSettled, [Next]_vars, ~Crash
  PROVE  \A m \in Messages : Accounted(m)' \/ m \in ToLoad'
<1> SUFFICES ASSUME NEW m \in Messages PROVE Accounted(m)' \/ m \in ToLoad'
  OBVIOUS
<1>1. CASE Accounted(m)
  BY <1>1, AccountedStays
<1>2. CASE m \in ToLoad
  BY <1>2, UnreadStays
<1>3. CASE proc # "up" /\ m \in Orphaned /\ m \notin InHand \cup settled \cup ToLoad
  <2>1. m \in lost'
    BY <1>3 DEF Record
  <2> QED
    BY <2>1 DEF Accounted
<1> QED
  BY <1>1, <1>2, <1>3 DEF NothingVanishes, Accounted, Unseen

LEMMA SpareStep ==
  /\ TypeOK /\ ResumerIsIdle /\ QueueIsFresh /\ StoredIsSettled
  /\ FilesAreSpare /\ NothingVanishes /\ [Next]_vars
  => FilesAreSpare'
<1> DEFINE Held(v) == pc[v] \in RecordedPC \cup {"forgetting"}
           Goal == \A m \in Messages : Accounted(m)' \/ m \in ToLoad'
<1> SUFFICES ASSUME TypeOK, ResumerIsIdle, QueueIsFresh, StoredIsSettled, FilesAreSpare, NothingVanishes,
                    [Next]_vars,
                    (\E u \in Workers : Held(u)') \/ (pc'[Resumer] = "loading" /\ record' # None)
             PROVE  Goal
  BY DEF FilesAreSpare
<1> /\ pc \in [Workers -> PCs] /\ Messages \subseteq Workers /\ Resumer \in Workers /\ Resumer \notin Messages
  BY ThreadTurnsAssumption DEF TypeOK, Workers
<1>1. ASSUME ~Crash, (\E u \in Workers : Held(u)) \/ (pc[Resumer] = "loading" /\ record # None) PROVE Goal
  BY <1>1, AccountedStays, UnreadStays DEF FilesAreSpare
<1>2. CASE Crash
  BY <1>2, CrashHands, RecordedIsLive DEF LivePC, EndPC, StartPC
<1>3. ASSUME ~Crash, NEW w \in Workers, TurnStep(w) PROVE Goal
  <2>1. CASE Record(w)
    BY <1>3, <2>1, RecordAccounts
  <2>2. CASE Held(w)
    BY <1>1, <1>3, <2>2
  <2>3. CASE ~Record(w) /\ ~Held(w)
    <3>1. record' = record /\ ~Held(w)'
      BY <1>3, <2>3, StepDisk
    <3>2. /\ \A u \in Workers \ {w} : pc'[u] = pc[u]
          /\ pc'[Resumer] = "loading" <=> pc[Resumer] = "loading"
      BY <1>3, OtherFrames, StepUnread
    <3> QED
      BY <1>1, <1>3, <3>1, <3>2
  <2> QED
    BY <2>1, <2>2, <2>3
<1>4. ASSUME ~Crash, NEW m \in Messages, Arrival(m) \/ QueueSteering(m) \/ HandlerFails(m) PROVE Goal
  <2>1. \E l \in {"ignored", "queueing", "queued", "starting", "done"} : Goto(m, l)
    BY <1>4 DEF Arrival, Ignore, Steer, Start, QueueSteering, HandlerFails, Return
  <2>2. record' = record
    BY <1>4, ArrivalHands, StartHands, FailHands DEF Arrival
  <2>3. /\ \A u \in Workers : Held(u)' => Held(u)
        /\ pc'[Resumer] = pc[Resumer]
    BY <2>1 DEF Goto, RecordedPC, RunPC
  <2> QED
    BY <1>1, <1>4, <2>2, <2>3
<1>5. CASE ~Crash /\ (Stop \/ SetBan \/ Boot \/ UNCHANGED vars)
  <2>1. pc' = pc /\ record' = record
    BY <1>5 DEF Stop, SetBan, Boot, vars, disk
  <2> QED
    BY <1>1, <1>5, <2>1
<1>6. CASE ~Crash /\ (PopAll \/ Resume)
  <2>1. pc' = pc \/ Goto(Resumer, "loading") \/ Goto(Resumer, "starting")
    BY <1>6 DEF PopAll, Resume
  <2>2. \A u \in Workers : Held(u)' => Held(u)
    BY <2>1 DEF Goto, RecordedPC, RunPC
  <2>3. ~(pc'[Resumer] = "loading" /\ record' # None)
    BY <1>6 DEF PopAll, Resume, Goto
  <2> QED
    BY <1>1, <1>6, <2>2, <2>3
<1> QED
  BY <1>2, <1>3, <1>4, <1>5, <1>6 DEF Next

LEMMA VanishStep ==
  /\ TypeOK /\ ResumerIsIdle /\ QueueIsFresh /\ StoredIsSettled
  /\ FilesAreSpare /\ NothingVanishes /\ ResumerIsIdle' /\ [Next]_vars
  => NothingVanishes'
<1> SUFFICES ASSUME TypeOK, ResumerIsIdle, QueueIsFresh, StoredIsSettled, FilesAreSpare, NothingVanishes,
                    ResumerIsIdle', [Next]_vars, NEW m \in Messages
             PROVE  Accounted(m)' \/ (proc' # "up" /\ m \in (Orphaned \cup ToLoad)')
  BY DEF NothingVanishes, Accounted, Unseen
<1> DEFINE Goal == Accounted(m)' \/ (proc' # "up" /\ m \in (Orphaned \cup ToLoad)')
<1> /\ pc \in [Workers -> PCs] /\ Messages \subseteq Workers /\ Resumer \in Workers
  BY DEF TypeOK, Workers
<1>0. m \in ToLoad' => Goal
  BY DEF ToLoad, ResumerIsIdle, Workers
<1>1. Accounted(m) \/ (proc # "up" /\ m \in Orphaned) \/ m \in ToLoad
  BY DEF NothingVanishes, Accounted, Unseen
<1>2. CASE Crash
  <2>1. /\ proc' = "down" /\ settled' = settled /\ Orphaned' = Orphaned
        /\ \A v \in Workers : pc'[v] = pc[v] \/ pc[v] = "queueing" \/ v \in Live
        /\ lost' = lost \cup ((InHand \cup ToSet(queue) \cup {x \in Messages : pc[x] = "queueing"} \cup ToLoad)
                                \ (Orphaned \cup settled))
    BY <1>2 DEF Crash, disk, Orphaned
  <2>2. CASE Unseen(m)
    <3>1. m \notin Live
      BY <2>2 DEF Unseen, Live, LivePC, StartPC, RunPC, EndPC
    <3> QED
      BY <2>1, <2>2, <3>1 DEF Accounted, Unseen
  <2>3. CASE ~Unseen(m)
    BY <1>1, <2>1, <2>3 DEF Accounted
  <2> QED
    BY <2>2, <2>3
<1>3. CASE ~Crash /\ Accounted(m)
  BY <1>3, AccountedStays
<1>4. CASE ~Crash /\ m \in ToLoad
  BY <1>0, <1>4, UnreadStays
<1>5. CASE ~Crash /\ proc # "up" /\ m \in Orphaned
  <2>1. ASSUME NEW w \in Workers, TurnStep(w) PROVE Goal
    <3>1. CASE Record(w)
      BY <1>0, <1>5, <3>1, RecordAccounts
    <3>2. CASE pc[w] \in RecordedPC \cup {"forgetting"}
      BY <1>0, <1>5, <3>2, AccountedStays, UnreadStays DEF FilesAreSpare
    <3>3. CASE ~Record(w) /\ pc[w] \notin RecordedPC \cup {"forgetting"}
      <4>1. UNCHANGED <<record, checkpoint, proc>>
        BY <2>1, <3>3, StepDisk, TurnStepMoves
      <4> QED
        BY <1>5, <4>1 DEF Orphaned
    <3> QED
      BY <3>1, <3>2, <3>3
  <2>2. ASSUME NEW x \in Messages, Ignore(x) \/ Steer(x) \/ QueueSteering(x) \/ Start(x) \/ HandlerFails(x)
        PROVE  Goal
    <3>1. UNCHANGED <<record, checkpoint, proc>>
      BY <2>2, ArrivalHands, StartHands, FailHands
    <3> QED
      BY <1>5, <3>1 DEF Orphaned
  <2>3. CASE Stop \/ SetBan \/ UNCHANGED vars
    BY <1>5, <2>3 DEF Stop, SetBan, vars, disk, Orphaned
  <2>4. CASE Boot
    BY <1>5, <2>4 DEF Boot, disk, Orphaned
  <2>5. CASE PopAll
    <3>1. record # None
      BY <1>5 DEF Orphaned
    <3>2. m \in Hand(Resumer)' \cup ToLoad'
      BY <1>5, <2>5, <3>1, PopHands DEF Orphaned, LoadCheckpoint
    <3>3. m \in Hand(Resumer)' => m \in InHand'
      BY DEF InHand, Hand, Live
    <3> QED
      BY <1>0, <3>2, <3>3 DEF Accounted
  <2>6. CASE Resume
    <3>1. record # None /\ pc[Resumer] = "loading"
      BY <1>5, <2>6 DEF Orphaned, Resume
    <3> QED
      BY <1>0, <1>5, <3>1, AccountedStays, UnreadStays DEF FilesAreSpare
  <2> QED
    BY <1>5, <2>1, <2>2, <2>3, <2>4, <2>5, <2>6 DEF Next, Arrival
<1> QED
  BY <1>1, <1>2, <1>3, <1>5, <1>4

----------------------------------------------------------------------------
LEMMA InboxInit == Init => InboxInv
<1> SUFFICES ASSUME Init PROVE InboxInv
  OBVIOUS
<1>1. MarkInv
  BY TypeInit DEF Init, MarkInv, MarkIsOwned, ResumerIsIdle, HandlerPC, LivePC, StartPC, RunPC, EndPC, Workers
<1>2. /\ queue = <<>> /\ settled = {} /\ lost = {} /\ history = {} /\ record = None /\ checkpoint = None
      /\ proc = "up"
      /\ \A w \in Workers : turn[w] = NoTurn /\ pc[w] \in {"sent", "done"}
      /\ \A m \in Messages : pc[m] = "sent"
  BY ThreadTurnsAssumption DEF Init, Workers
<1>3. \A w \in Workers : pc[w] \notin LivePC /\ Hand(w) = {} /\ pc[w] \notin RecordedPC \cup {"forgetting"}
  BY <1>2, RecordedIsLive DEF LivePC, StartPC, RunPC, EndPC, Hand
<1>4. \A w \in Workers : Fields(w) = {}
  BY <1>2, FieldsOf, ToSetEmpty DEF Fields, NoTurn
<1>5. QueueIsFresh
  BY <1>2, <1>4, ToSetEmpty DEF QueueIsFresh, Touched, Filed
<1>6. /\ StoredIsSettled /\ OneLive /\ RecordHasOwner /\ OrphansAreFree /\ HandsApart /\ UnreadIsFree
      /\ FilesAreSpare
  BY <1>2, <1>3 DEF StoredIsSettled, OneLive, RecordHasOwner, OrphansAreFree, HandsApart, UnreadIsFree, ToLoad,
                    FilesAreSpare, Live
<1>7. NothingVanishes
  BY <1>2 DEF NothingVanishes
<1> QED
  BY <1>1, <1>5, <1>6, <1>7 DEF InboxInv

LEMMA InboxStep == InboxInv /\ [Next]_vars => InboxInv'
<1> SUFFICES ASSUME InboxInv, [Next]_vars PROVE InboxInv'
  OBVIOUS
<1>1. /\ MarkInv /\ QueueIsFresh /\ StoredIsSettled /\ OneLive /\ RecordHasOwner /\ OrphansAreFree
      /\ HandsApart /\ UnreadIsFree /\ FilesAreSpare /\ NothingVanishes /\ TypeOK /\ ResumerIsIdle
  BY DEF InboxInv, MarkInv
<1>2. MarkInv' /\ ResumerIsIdle'
  BY <1>1, TypeStep, MarkInvStep DEF MarkInv
<1>3. QueueIsFresh' /\ StoredIsSettled' /\ OneLive'
  BY <1>1, QueueStep, StoredStep, OneLiveStep
<1>4. RecordHasOwner' /\ OrphansAreFree' /\ HandsApart' /\ UnreadIsFree'
  BY <1>1, OwnerStep, OrphansStep, ApartStep, UnreadStep
<1>5. FilesAreSpare' /\ NothingVanishes'
  BY <1>1, <1>2, SpareStep, VanishStep
<1> QED
  BY <1>2, <1>3, <1>4, <1>5 DEF InboxInv

LEMMA InboxInvariant == Spec => []InboxInv
BY InboxInit, InboxStep, PTL DEF Spec

(* No message is queued twice, is both queued and in a turn's hands, or is  *)
(* in the hands of two turns, unless start-up resumed a running turn.       *)
THEOREM MessagesAreInOnePlace == Spec => []OnePlaceEach
<1>1. InboxInv => OnePlaceEach
  BY LineIsFree DEF InboxInv, MarkInv, OnePlaceEach, HandsApart, Hand, Live, QueueIsFresh
<1> QED
  BY <1>1, InboxInvariant, PTL

(* A message a handler took on is settled, given up on, queued, in a turn's *)
(* hands, or in the files the next start resumes from.                      *)
THEOREM NoMessageVanishes == Spec => []NothingVanishes
<1>1. InboxInv => NothingVanishes
  BY DEF InboxInv
<1> QED
  BY <1>1, InboxInvariant, PTL

----------------------------------------------------------------------------
(* What a death leaves, as long as nothing went wrong before it.            *)

Own(w) == [prompt |-> turn[w].prompt, user |-> turn[w].user]

RecordIsOwn == mishaps = {} => \A w \in Workers : pc[w] \in RecordedPC => record = Own(w)

(* What the files would resume knows its own prompt and the history.        *)
CheckpointFits ==
  mishaps = {} /\ LockFree /\ record # None /\ checkpoint # None =>
    ToSet(record.prompt) \cup history \subseteq checkpoint

BeforeSetup == {"entering", "recording", "unlinking"}

(* A turn's context holds its prompt and the history, and so does what it   *)
(* would retry from and what it wrote down.                                 *)
Sound(w) ==
  /\ pc[w] = "loading" /\ checkpoint # None => ToSet(turn[w].prompt) \cup history \subseteq checkpoint
  /\ pc[w] = "starting" /\ turn[w].seen # {} => ToSet(turn[w].prompt) \cup history \subseteq turn[w].seen
  /\ pc[w] \in BeforeSetup \cup {"setup"} \cup AgentPC => ToSet(turn[w].prompt) \subseteq turn[w].seen
  /\ pc[w] \in BeforeSetup \cup RunPC => turn[w].base = history /\ history \subseteq turn[w].seen
  /\ pc[w] \in AgentPC => ToSet(turn[w].prompt) \cup turn[w].base \subseteq turn[w].safe
  /\ pc[w] \in {"response", "tool", "saving"} /\ checkpoint # None => turn[w].seen \subseteq checkpoint
  /\ pc[w] = "setup" => checkpoint = None
  /\ pc[w] = "forgetting" => record = None
  /\ pc[w] \in BeforeSetup \cup {"starting"} /\ checkpoint # None /\ ToSet(turn[w].prompt) \subseteq checkpoint
       => history \subseteq checkpoint

TurnsAreSound == mishaps = {} => \A w \in Workers : Sound(w)

CalmInv == InboxInv /\ RecordIsOwn /\ CheckpointFits /\ TurnsAreSound

(* A worker that is not in a turn is sound. *)
LEMMA IdleSound ==
  ASSUME NEW w
  PROVE  /\ pc[w] \notin LivePC => Sound(w)
         /\ pc'[w] \notin LivePC => Sound(w)'
BY DEF Sound, LivePC, StartPC, RunPC, EndPC, BeforeSetup, AgentPC

(* The only turn's step. *)
LEMMA SoundStep ==
  ASSUME CalmInv, [Next]_vars, mishaps = {}, mishaps' = {}, NEW w \in Workers, TurnStep(w)
  PROVE  Sound(w)' /\ (pc'[w] \in RecordedPC => record' = Own(w)')
<1> DEFINE Goal == Sound(w)' /\ (pc'[w] \in RecordedPC => record' = Own(w)')
<1> USE DEF Sound, BeforeSetup, AgentPC, RunPC, RecordedPC, Own
<1>0. /\ TypeOK /\ QueueIsFresh /\ StoredIsSettled /\ pc[w] \in LivePC /\ w \in Live
      /\ pc \in [Workers -> PCs] /\ turn \in [Workers -> Turn]
      /\ Sound(w) /\ (pc[w] \in RecordedPC => record = Own(w))
  BY TurnStepMoves DEF CalmInv, InboxInv, MarkInv, RecordIsOwn, TurnsAreSound, TypeOK, Live

<1>1. CASE ReadHistory(w)
  <2>1. pc[w] = "starting" /\ pc'[w] = "entering" /\ UNCHANGED <<history, checkpoint>>
    BY <1>0, <1>1 DEF ReadHistory, Goto, disk
  <2>2. /\ turn'[w].prompt = turn[w].prompt /\ turn'[w].base = history
        /\ turn'[w].seen = IF turn[w].seen = {} THEN history \cup ToSet(turn[w].prompt) ELSE turn[w].seen
    BY <1>0, <1>1, Frames DEF Frame
  <2> QED
    BY <1>0, <2>1, <2>2
<1>2. CASE Mark(w)
  <2>1. pc[w] = "entering" /\ pc'[w] = "recording" /\ UNCHANGED <<turn, history, checkpoint>>
    BY <1>0, <1>2 DEF Mark, Goto, disk
  <2> QED
    BY <1>0, <2>1
<1>3. CASE Record(w)
  <2>1. pc[w] = "recording" /\ pc'[w] = "unlinking" /\ UNCHANGED <<turn, history, checkpoint>> /\ record' = Own(w)
    BY <1>0, <1>3 DEF Record, RecordStart, Goto
  <2> QED
    BY <1>0, <2>1
<1>4. CASE StartClean(w)
  <2>1. pc[w] = "unlinking" /\ pc'[w] = "setup" /\ UNCHANGED <<turn, record, history>> /\ checkpoint' = None
    BY <1>0, <1>4 DEF StartClean, UnlinkCheckpoint, Goto
  <2> QED
    BY <1>0, <2>1
<1>5. CASE RunAgent(w) \/ CallTool(w) \/ Halt(w)
  <2>1. /\ \/ pc[w] = "setup" /\ pc'[w] = "request"
           \/ pc[w] = "response" /\ pc'[w] \in {"tool", "saving"}
        /\ UNCHANGED <<record, history, checkpoint>>
    BY <1>0, <1>5 DEF RunAgent, CallTool, Halt, Goto, disk
  <2>2. Frame(w, turn[w].base, turn[w].seen, turn[w].seen)
    BY <1>0, <1>5, Frames
  <2> QED
    BY <1>0, <2>1, <2>2 DEF Frame
<1>6. CASE Request(w)
  <2>1. /\ pc[w] = "request" /\ pc'[w] = "response" /\ UNCHANGED <<turn, record, history>>
        /\ checkpoint' = IF record = None THEN checkpoint ELSE turn[w].seen
    BY <1>0, <1>6 DEF Request, SaveCheckpoint, Goto
  <2>2. record # None
    <3>0. turn[w].prompt \in Seq(Messages) /\ turn[w].user \in Users \cup {None}
      BY <1>0 DEF Turn
    <3>1. record \in [prompt: Seq(Messages), user: Users \cup {None}]
      BY <1>0, <2>1, <3>0
    <3> QED
      BY <3>1, ThreadTurnsAssumption
  <2> QED
    BY <1>0, <2>1, <2>2
<1>7. CASE ToolReturns(w)
  <2>1. /\ pc[w] = "tool" /\ pc'[w] = "request" /\ UNCHANGED <<record, history, checkpoint>>
    BY <1>0, <1>7 DEF ToolReturns, Goto, disk
  <2>2. \E some \in {{}, ToSet(queue)} : Frame(w, turn[w].base, turn[w].seen \cup some, turn[w].safe)
    <3>1. turn[w].seen \cup {} = turn[w].seen
      OBVIOUS
    <3> QED
      BY <1>0, <1>7, <3>1, Frames
  <2> QED
    BY <1>0, <2>1, <2>2 DEF Frame
<1>8. CASE Skip(w)
  <2>1. /\ pc[w] = "tool" /\ pc'[w] = "saving" /\ UNCHANGED <<record, history, checkpoint>>
    BY <1>0, <1>8 DEF Skip, Goto, disk
  <2>2. PICK kept \in {turn[w].base, turn[w].safe} : Frame(w, turn[w].base, kept, turn[w].safe)
    BY <1>0, <1>8, Frames
  <2>3. turn[w].safe \subseteq turn[w].seen
    BY <1>0, <2>1 DEF StoredIsSettled, Stored, EndPC
  <2> QED
    BY <1>0, <2>1, <2>2, <2>3 DEF Frame
<1>9. CASE AttemptFails(w)
  <2>1. pc[w] \in {"response", "tool"} /\ pc'[w] = "request" /\ UNCHANGED <<record, history, checkpoint>>
    BY <1>0, <1>9 DEF AttemptFails, Goto, disk
  <2>2. Frame(w, turn[w].base, turn[w].safe, turn[w].safe)
    BY <1>0, <1>9, Frames
  <2> QED
    BY <1>0, <2>1, <2>2 DEF Frame
<1>10. CASE PostReply(w)
  <2>1. pc[w] = "response" /\ pc'[w] = "saving" /\ UNCHANGED <<turn, record, history, checkpoint>>
    BY <1>0, <1>10 DEF PostReply, Goto, disk
  <2> QED
    BY <1>0, <2>1
<1>11. CASE TurnFails(w) \/ SetHistory(w) \/ Unmark(w)
  <2>1. /\ pc[w] \in RunPC \cup {"unmark"} /\ pc'[w] \in {"unmark", "unrecord"} /\ UNCHANGED <<turn, record>>
    BY <1>0, <1>11 DEF TurnFails, SetHistory, Unmark, Goto, disk
  <2> QED
    BY <1>0, <2>1
<1>12. CASE Unrecord(w)
  <2>1. pc'[w] = "forgetting" /\ record' = None
    BY <1>0, <1>12 DEF Unrecord, RecordFinished, Goto
  <2> QED
    BY <2>1
<1>13. CASE Forget(w)
  <2>1. pc'[w] = "drain"
    BY <1>0, <1>13 DEF Forget, Goto
  <2> QED
    BY <2>1
<1>14. CASE DrainNext(w)
  <2>1. PICK n \in 1..Len(queue) :
           /\ turn'[w].prompt = SubSeq(queue, 1, n)
           /\ turn'[w].seen = {}
    BY <1>0, <1>14, DrainedFrame
  <2>2. pc'[w] = "starting" /\ UNCHANGED checkpoint
    BY <1>0, <1>14 DEF DrainNext, Goto, disk
  <2>3. queue \in Seq(Messages) /\ n \in Nat /\ 1 <= n /\ n <= Len(queue)
    BY <1>0 DEF TypeOK
  <2>4. queue[1] \in ToSet(queue)
    BY <2>3 DEF ToSet
  <2>5. queue[1] \in ToSet(turn'[w].prompt)
    <3> DEFINE s == SubSeq(queue, 1, n)
    <3>1. 1 \in DOMAIN s /\ s[1] = queue[1]
      BY <2>3
    <3>2. s[1] \in ToSet(s)
      BY <3>1 DEF ToSet
    <3> QED
      BY <2>1, <3>1, <3>2
  <2>6. checkpoint # None => queue[1] \notin checkpoint
    BY <1>0, <2>4, LineIsFree DEF Filed
  <2>7. ~(checkpoint' # None /\ ToSet(turn'[w].prompt) \subseteq checkpoint')
    BY <2>2, <2>5, <2>6
  <2> QED
    BY <2>1, <2>2, <2>7
<1>15. CASE Refuse(w) \/ DrainNothing(w) \/ DrainTooDeep(w)
  <2>1. pc'[w] = "done"
    BY <1>0, <1>15 DEF Refuse, DrainNothing, DrainTooDeep, Return, Goto
  <2> QED
    BY <2>1
<1>16. CASE RecordFails(w) \/ UnrecordFails(w)
  BY <1>16 DEF RecordFails, UnrecordFails
<1> QED
  BY <1>1, <1>2, <1>3, <1>4, <1>5, <1>6, <1>7, <1>8, <1>9, <1>10, <1>11, <1>12, <1>13, <1>14, <1>15, <1>16
  DEF TurnStep

(* The files after the only turn's step. *)
LEMMA FitsStep ==
  ASSUME CalmInv, [Next]_vars, mishaps = {}, mishaps' = {}, NEW w \in Workers, TurnStep(w)
  PROVE  CheckpointFits' /\ history \subseteq history'
<1> /\ TypeOK /\ QueueIsFresh /\ StoredIsSettled /\ CheckpointFits
    /\ pc \in [Workers -> PCs] /\ turn \in [Workers -> Turn]
    /\ Sound(w) /\ (pc[w] \in RecordedPC => record = Own(w))
    /\ pc[w] \in LivePC
  BY TurnStepMoves DEF CalmInv, InboxInv, MarkInv, RecordIsOwn, TurnsAreSound, TypeOK
<1>0. \A v \in Workers \ {w} : pc[v] \notin LivePC /\ pc'[v] = pc[v]
  BY OtherFrames DEF CalmInv, InboxInv, OneLive, Live
<1>l. /\ LockFree <=> pc[w] \notin LockPC
      /\ LockFree' <=> pc'[w] \notin LockPC
  BY <1>0 DEF LockFree, LockPC, LivePC, StartPC, EndPC
<1>1. CASE Record(w)
  <2>1. pc'[w] = "unlinking" /\ history' = history
    BY <1>1 DEF Record, Goto
  <2> QED
    BY <1>l, <2>1 DEF CheckpointFits, LockPC
<1>2. CASE StartClean(w) \/ Forget(w) \/ Unrecord(w)
  <2>1. (checkpoint' = None \/ record' = None) /\ history' = history
    BY <1>2 DEF StartClean, Forget, UnlinkCheckpoint, Unrecord, RecordFinished
  <2> QED
    BY <2>1 DEF CheckpointFits
<1>3. CASE Request(w)
  <2>1. /\ pc[w] = "request" /\ UNCHANGED <<record, history>>
        /\ checkpoint' = IF record = None THEN checkpoint ELSE turn[w].seen
    BY <1>3 DEF Request, SaveCheckpoint
  <2>2. record = Own(w) /\ ToSet(turn[w].prompt) \cup history \subseteq turn[w].seen
    BY <2>1 DEF Sound, AgentPC, RecordedPC, RunPC, BeforeSetup
  <2>3. record.prompt = turn[w].prompt
    BY <2>2 DEF Own
  <2> QED
    BY <2>1, <2>2, <2>3 DEF CheckpointFits
<1>4. CASE SetHistory(w)
  <2>1. /\ pc[w] = "saving" /\ pc'[w] = "unmark" /\ UNCHANGED <<record, checkpoint>>
        /\ history' = turn[w].seen
    BY <1>4 DEF SetHistory, Goto
  <2>2. LockFree /\ history \subseteq turn[w].seen /\ (checkpoint # None => turn[w].seen \subseteq checkpoint)
    BY <1>l, <2>1 DEF LockPC, Sound, RunPC
  <2> QED
    BY <2>1, <2>2 DEF CheckpointFits
<1>5. CASE \/ ReadHistory(w) \/ Refuse(w) \/ Mark(w) \/ RunAgent(w) \/ CallTool(w) \/ ToolReturns(w)
           \/ Halt(w) \/ Skip(w) \/ AttemptFails(w) \/ TurnFails(w) \/ PostReply(w) \/ Unmark(w)
           \/ DrainNothing(w) \/ DrainNext(w) \/ DrainTooDeep(w)
  <2>1. UNCHANGED <<record, checkpoint, history>>
    BY <1>5 DEF disk, ReadHistory, Refuse, Mark, RunAgent, CallTool, ToolReturns, Halt, Skip, AttemptFails,
                TurnFails, PostReply, Unmark, DrainNothing, DrainNext, DrainTooDeep
  <2>2. pc[w] \notin LockPC
    BY <1>5 DEF LockPC, RunPC, ReadHistory, Refuse, Mark, RunAgent, CallTool, ToolReturns, Halt, Skip, AttemptFails,
                TurnFails, PostReply, Unmark, DrainNothing, DrainNext, DrainTooDeep
  <2> QED
    BY <1>l, <2>1, <2>2 DEF CheckpointFits
<1>6. CASE RecordFails(w) \/ UnrecordFails(w)
  BY <1>6 DEF RecordFails, UnrecordFails
<1> QED
  BY <1>1, <1>2, <1>3, <1>4, <1>5, <1>6 DEF TurnStep

LEMMA CalmStep ==
  CalmInv /\ InboxInv' /\ [Next]_vars =>
    RecordIsOwn' /\ CheckpointFits' /\ TurnsAreSound' /\ (mishaps' = {} => history \subseteq history')
<1> SUFFICES ASSUME CalmInv, InboxInv', [Next]_vars, mishaps' = {}
             PROVE  /\ RecordIsOwn' /\ CheckpointFits' /\ TurnsAreSound'
                    /\ history \subseteq history'
  BY DEF RecordIsOwn, CheckpointFits, TurnsAreSound
<1> DEFINE Goal == RecordIsOwn' /\ CheckpointFits' /\ TurnsAreSound' /\ history \subseteq history'
<1>0. /\ TypeOK /\ ResumerIsIdle /\ QueueIsFresh /\ OneLive
      /\ RecordIsOwn /\ CheckpointFits /\ TurnsAreSound
      /\ pc \in [Workers -> PCs] /\ turn \in [Workers -> Turn]
      /\ Messages \subseteq Workers /\ Resumer \in Workers
  BY DEF CalmInv, InboxInv, MarkInv, TypeOK, Workers
<1>1. ASSUME NEW w \in Workers, TurnStep(w) PROVE Goal
  <2>0. mishaps = {} /\ pc[w] \in LivePC
    BY <1>0, <1>1, TurnStepMoves
  <2>1. \A v \in Workers \ {w} : pc'[v] \notin LivePC
    BY <1>0, <1>1, <2>0, OtherFrames DEF OneLive, Live
  <2>2. Sound(w)' /\ (pc'[w] \in RecordedPC => record' = Own(w)')
    BY <1>1, <2>0, SoundStep
  <2>3. \A v \in Workers : Sound(v)'
    BY <2>1, <2>2, IdleSound
  <2>4. \A v \in Workers : pc'[v] \in RecordedPC => v = w
    BY <2>1, RecordedIsLive
  <2>5. RecordIsOwn'
    BY <2>2, <2>4 DEF RecordIsOwn
  <2> QED
    BY <1>1, <2>0, <2>3, <2>5, FitsStep DEF TurnsAreSound
<1>2. ASSUME mishaps = {}, UNCHANGED <<record, checkpoint, history>>,
             NEW m \in Workers,
             \A v \in Workers \ {m} : pc'[v] = pc[v] /\ turn'[v] = turn[v],
             pc[m] \notin LivePC \/ pc[m] \in {"loading", "starting"},
             pc'[m] \notin LivePC \/ (pc'[m] = "starting" /\ Sound(m)')
      PROVE  Goal
  <2>1. \A v \in Workers : Sound(v)
    BY <1>0, <1>2 DEF TurnsAreSound
  <2>2. \A v \in Workers \ {m} : Sound(v)'
    BY <1>2, <2>1 DEF Sound
  <2>3. Sound(m)'
    BY <1>2, IdleSound
  <2>4. pc'[m] \notin RecordedPC
    BY <1>2, RecordedIsLive DEF RecordedPC, RunPC
  <2>5. RecordIsOwn'
    BY <1>0, <1>2, <2>4 DEF RecordIsOwn, Own
  <2>6. LockFree' => LockFree
    <3>1. pc[m] \notin LockPC
      BY <1>2 DEF LockPC, LivePC, StartPC, EndPC
    <3> QED
      BY <1>2, <3>1 DEF LockFree
  <2> QED
    BY <1>0, <1>2, <2>2, <2>3, <2>5, <2>6 DEF TurnsAreSound, CheckpointFits
<1>3. ASSUME NEW m \in Messages, Ignore(m) \/ Steer(m) \/ QueueSteering(m) PROVE Goal
  BY <1>0, <1>2, <1>3, ArrivalHands
<1>4. ASSUME NEW m \in Messages, HandlerFails(m) PROVE Goal
  <2>1. pc'[m] \notin LivePC
    BY <1>0, <1>4, FailHands DEF LivePC, StartPC, RunPC, EndPC
  <2> QED
    BY <1>0, <1>2, <1>4, <2>1, FailHands
<1>5. ASSUME NEW m \in Messages, Start(m) PROVE Goal
  <2>1. /\ turn'[m].seen = {} /\ ToSet(turn'[m].prompt) = {m} /\ mishaps = {}
        /\ pc'[m] = "starting" /\ checkpoint' = checkpoint
    <3>1. turn'[m] = NewTurn(<<m>>, Sender[m], 0)
      BY <1>0, <1>5 DEF Start
    <3> QED
      BY <1>0, <1>5, <3>1, StartHands, FieldsOf, ToSetSingle
  <2>2. checkpoint # None => m \notin checkpoint
    BY <1>0, <1>5, StartHands, LineIsFree DEF Unseen, Filed
  <2>3. Sound(m)'
    BY <2>1, <2>2 DEF Sound, BeforeSetup, AgentPC, RunPC
  <2>4. pc[m] \notin LivePC
    BY <1>0, <1>5, StartHands DEF LivePC, StartPC, RunPC, EndPC
  <2> QED
    BY <1>0, <1>2, <1>5, <2>1, <2>3, <2>4, StartHands
<1>6. CASE Stop \/ SetBan \/ Boot \/ UNCHANGED vars
  <2>1. UNCHANGED <<pc, turn, record, checkpoint, history, mishaps>>
    BY <1>6 DEF Stop, SetBan, Boot, vars, disk, ghosts
  <2> QED
    BY <1>0, <2>1 DEF RecordIsOwn, Own, CheckpointFits, LockFree, TurnsAreSound, Sound
<1>7. CASE Crash
  <2>1. /\ mishaps = {} /\ ~RecordIsTorn /\ UNCHANGED <<record, checkpoint, history>>
    BY <1>7 DEF Crash, disk
  <2>2. \A v \in Workers : Sound(v)' /\ pc'[v] \notin RecordedPC
    BY <1>7, CrashHands, IdleSound, RecordedIsLive
  <2>3. CheckpointFits'
    <3>1. CASE LockFree
      BY <1>0, <2>1, <3>1 DEF CheckpointFits
    <3>2. ASSUME NEW w \in Workers, pc[w] = "forgetting" PROVE record = None
      BY <1>0, <2>1, <3>2 DEF TurnsAreSound, Sound
    <3>3. ASSUME NEW w \in Workers, pc[w] = "unlinking", checkpoint # None
          PROVE  ToSet(record.prompt) \cup history \subseteq checkpoint
      <4>1. record = Own(w) /\ Sound(w)
        BY <1>0, <2>1, <3>3 DEF RecordIsOwn, TurnsAreSound, RecordedPC
      <4>2. ToSet(turn[w].prompt) \subseteq checkpoint
        BY <2>1, <3>3 DEF RecordIsTorn
      <4>3. record.prompt = turn[w].prompt
        BY <4>1 DEF Own
      <4> QED
        BY <3>3, <4>1, <4>2, <4>3 DEF Sound, BeforeSetup
    <3> QED
      BY <2>1, <3>1, <3>2, <3>3 DEF CheckpointFits, LockFree, LockPC
  <2> QED
    BY <2>1, <2>2, <2>3 DEF RecordIsOwn, TurnsAreSound
<1>8. CASE PopAll
  <2>1. CASE record = None
    <3>1. UNCHANGED <<pc, turn, record, checkpoint, history, mishaps>>
      BY <1>8, <2>1 DEF PopAll
    <3> QED
      BY <1>0, <3>1 DEF RecordIsOwn, Own, CheckpointFits, LockFree, TurnsAreSound, Sound
  <2>2. CASE record # None
    <3>1. /\ mishaps = {} /\ Live = {} /\ LockFree /\ record' = None
          /\ UNCHANGED <<checkpoint, history>>
          /\ turn'[Resumer] = NewTurn(record.prompt, record.user, 0)
      BY <1>0, <1>8, <2>2 DEF PopAll
    <3>2. turn'[Resumer].prompt = record.prompt
      BY <3>1 DEF NewTurn
    <3>3. \A v \in Workers \ {Resumer} : pc'[v] \notin LivePC
      BY <1>0, <1>8, <2>2, <3>1, PopHands DEF Live
    <3>4. pc'[Resumer] = "loading"
      BY <1>0, <1>8, <2>2, PopHands
    <3>5. Sound(Resumer)'
      BY <1>0, <2>2, <3>1, <3>2, <3>4 DEF Sound, BeforeSetup, AgentPC, RunPC, CheckpointFits
    <3>6. \A v \in Workers : Sound(v)' /\ pc'[v] \notin RecordedPC
      BY <3>3, <3>4, <3>5, IdleSound, RecordedIsLive DEF RecordedPC, RunPC
    <3> QED
      BY <3>1, <3>6 DEF RecordIsOwn, CheckpointFits, TurnsAreSound
  <2> QED
    BY <2>1, <2>2
<1>9. CASE Resume
  <2>1. /\ UNCHANGED <<record, checkpoint, history>> /\ mishaps = {}
        /\ \A v \in Workers \ {Resumer} : pc'[v] = pc[v] /\ turn'[v] = turn[v]
        /\ pc[Resumer] = "loading" /\ pc'[Resumer] = "starting"
    BY <1>0, <1>9, ResumeHands DEF Resume, disk, CalmInv, InboxInv
  <2>2. turn'[Resumer].prompt = turn[Resumer].prompt /\ turn'[Resumer].seen = LoadCheckpoint
    BY <1>0, <1>9 DEF Resume, Turn
  <2>3. Sound(Resumer)
    BY <1>0, <2>1 DEF TurnsAreSound
  <2>4. Sound(Resumer)'
    BY <2>1, <2>2, <2>3 DEF Sound, BeforeSetup, AgentPC, RunPC, LoadCheckpoint
  <2> QED
    BY <1>0, <1>2, <2>1, <2>4
<1> QED
  BY <1>1, <1>3, <1>4, <1>5, <1>6, <1>7, <1>8, <1>9 DEF Next, Arrival

LEMMA CalmInit == Init => CalmInv
<1> SUFFICES ASSUME Init PROVE CalmInv
  OBVIOUS
<1>1. /\ record = None /\ checkpoint = None
      /\ \A w \in Workers : pc[w] \in {"sent", "done"}
  BY DEF Init, Workers
<1>2. \A w \in Workers : pc[w] \notin LivePC
  BY <1>1 DEF LivePC, StartPC, RunPC, EndPC
<1>3. RecordIsOwn /\ TurnsAreSound
  BY <1>2, IdleSound, RecordedIsLive DEF RecordIsOwn, TurnsAreSound
<1> QED
  BY <1>1, <1>3, InboxInit DEF CalmInv, CheckpointFits

LEMMA CalmInvariant == Spec => []CalmInv
<1>1. CalmInv /\ [Next]_vars => CalmInv'
  BY InboxStep, CalmStep DEF CalmInv
<1> QED
  BY <1>1, CalmInit, PTL DEF Spec

(* A death at any point between record_start and record_finished resumes    *)
(* exactly the turn it cut short: its own record and, once record_start is  *)
(* over, no checkpoint that lacks its prompt.                               *)
THEOREM CrashResumesTheTurn == Spec => []CrashResumesTurn
<1>1. CalmInv => CrashResumesTurn
  <2> SUFFICES ASSUME CalmInv, mishaps = {}, NEW w \in Workers, pc[w] \in RecordedPC
               PROVE  /\ record = Own(w)
                      /\ checkpoint # None /\ pc[w] # "unlinking" => ToSet(turn[w].prompt) \subseteq checkpoint
    BY DEF CrashResumesTurn, Own
  <2>0. TypeOK /\ OneLive /\ RecordIsOwn /\ CheckpointFits
    BY DEF CalmInv, InboxInv, MarkInv
  <2>1. record = Own(w)
    BY <2>0 DEF RecordIsOwn
  <2>2. record.prompt = turn[w].prompt
    BY <2>1 DEF Own
  <2>3. record # None
    <3>1. turn[w] \in Turn
      BY <2>0 DEF TypeOK
    <3>2. Own(w) \in [prompt: Seq(Messages), user: Users \cup {None}]
      BY <3>1 DEF Own, Turn
    <3> QED
      BY <2>1, <3>2, ThreadTurnsAssumption
  <2>4. ASSUME pc[w] # "unlinking" PROVE LockFree
    BY <2>0, <2>4, RecordedIsLive DEF OneLive, Live, LockFree, LockPC, LivePC, StartPC, EndPC, RecordedPC, RunPC
  <2> QED
    BY <2>0, <2>1, <2>2, <2>3, <2>4 DEF CheckpointFits
<1> QED
  BY <1>1, CalmInvariant, PTL

(* A turn of a message's thread keeps the history it read: only one that    *)
(* start-up resumed goes on from something older.                           *)
KeepsBase(m) ==
  /\ pc[m] = "starting" => turn[m].seen = {}
  /\ pc[m] \in LivePC \ {"loading", "starting"} => turn[m].base \subseteq turn[m].seen
  /\ pc[m] \in AgentPC => turn[m].base \subseteq turn[m].safe

BaseInv == TypeOK /\ \A m \in Messages : KeepsBase(m)

LEMMA BaseStays ==
  ASSUME TypeOK, NEW m \in Messages, KeepsBase(m), [Next]_vars
  PROVE  KeepsBase(m)'
<1> /\ pc \in [Workers -> PCs] /\ turn \in [Workers -> Turn] /\ m \in Workers /\ m # Resumer
  BY ThreadTurnsAssumption DEF TypeOK, Workers
<1>1. ASSUME pc'[m] \notin LivePC PROVE KeepsBase(m)'
  BY <1>1 DEF KeepsBase, LivePC, StartPC, RunPC, EndPC, AgentPC
<1>2. ASSUME pc'[m] = pc[m], turn'[m] = turn[m] PROVE KeepsBase(m)'
  BY <1>2 DEF KeepsBase
<1>3. ASSUME NEW w \in Workers, TurnStep(w) PROVE KeepsBase(m)'
  <2>1. CASE w # m
    BY <1>2, <1>3, <2>1, OtherFrames
  <2>2. CASE w = m
    <3> USE DEF KeepsBase, LivePC, StartPC, RunPC, EndPC, AgentPC
    <3>0. TurnStep(m)
      BY <1>3, <2>2
    <3>1. CASE ReadHistory(m)
      <4>1. pc'[m] = "entering" /\ pc[m] = "starting"
        BY <3>1 DEF ReadHistory, Goto
      <4>2. /\ turn'[m].base = history
            /\ turn'[m].seen = history \cup ToSet(turn[m].prompt)
        BY <3>1, <4>1, Frames DEF Frame
      <4> QED
        BY <4>1, <4>2
    <3>2. CASE \/ Mark(m) \/ Record(m) \/ StartClean(m) \/ TurnFails(m) \/ PostReply(m) \/ SetHistory(m)
               \/ Unmark(m) \/ Unrecord(m) \/ Forget(m) \/ Request(m)
      <4>1. /\ turn' = turn
            /\ pc[m] \in {"entering", "recording", "unlinking", "setup", "response", "tool", "saving",
                          "unmark", "unrecord", "forgetting"} \/ (pc[m] = "request" /\ pc'[m] = "response")
            /\ pc'[m] \in {"recording", "unlinking", "setup", "saving", "unmark", "unrecord", "forgetting",
                           "drain"} \/ (pc[m] = "request" /\ pc'[m] = "response")
        BY <3>2 DEF Mark, Record, StartClean, TurnFails, PostReply, SetHistory, Unmark, Unrecord, Forget,
                    Request, Goto
      <4> QED
        BY <4>1
    <3>3. CASE RunAgent(m) \/ CallTool(m) \/ Halt(m)
      <4>1. /\ pc[m] \in {"setup", "response"} /\ pc'[m] \in {"request", "tool", "saving"}
        BY <3>3 DEF RunAgent, CallTool, Halt, Goto
      <4>2. Frame(m, turn[m].base, turn[m].seen, turn[m].seen)
        BY <3>3, Frames
      <4> QED
        BY <4>1, <4>2 DEF Frame
    <3>4. CASE ToolReturns(m)
      <4>1. pc[m] = "tool" /\ pc'[m] = "request"
        BY <3>4 DEF ToolReturns, Goto
      <4>2. \E some \in {{}, ToSet(queue)} : Frame(m, turn[m].base, turn[m].seen \cup some, turn[m].safe)
        <5>1. turn[m].seen \cup {} = turn[m].seen
          OBVIOUS
        <5> QED
          BY <3>4, <5>1, Frames
      <4> QED
        BY <4>1, <4>2 DEF Frame
    <3>5. CASE Skip(m)
      <4>1. pc[m] = "tool" /\ pc'[m] = "saving"
        BY <3>5 DEF Skip, Goto
      <4>2. PICK kept \in {turn[m].base, turn[m].safe} : Frame(m, turn[m].base, kept, turn[m].safe)
        BY <3>5, Frames
      <4> QED
        BY <4>1, <4>2 DEF Frame
    <3>6. CASE AttemptFails(m)
      <4>1. pc[m] \in {"response", "tool"} /\ pc'[m] = "request"
        BY <3>6 DEF AttemptFails, Goto
      <4>2. Frame(m, turn[m].base, turn[m].safe, turn[m].safe)
        BY <3>6, Frames
      <4> QED
        BY <4>1, <4>2 DEF Frame
    <3>7. CASE DrainNext(m)
      <4>1. turn'[m].seen = {}
        BY <3>7, DrainedFrame
      <4>2. pc'[m] = "starting"
        BY <3>7 DEF DrainNext, Goto
      <4> QED
        BY <4>1, <4>2
    <3>8. CASE \/ Refuse(m) \/ RecordFails(m) \/ UnrecordFails(m) \/ DrainNothing(m) \/ DrainTooDeep(m)
      <4>1. pc'[m] = "done"
        BY <3>8 DEF Refuse, RecordFails, UnrecordFails, DrainNothing, DrainTooDeep, Return, Goto
      <4> QED
        BY <4>1
    <3> QED
      BY <3>0, <3>1, <3>2, <3>3, <3>4, <3>5, <3>6, <3>7, <3>8 DEF TurnStep
  <2> QED
    BY <2>1, <2>2
<1>4. ASSUME NEW x \in Messages, Ignore(x) \/ Steer(x) \/ QueueSteering(x) PROVE KeepsBase(m)'
  <2>1. turn' = turn /\ \E l \in {"ignored", "queueing", "queued"} : Goto(x, l)
    BY <1>4 DEF Ignore, Steer, QueueSteering
  <2>2. pc'[m] = pc[m] \/ pc'[m] \in {"ignored", "queueing", "queued"}
    BY <2>1 DEF Goto
  <2> QED
    BY <1>1, <1>2, <2>1, <2>2 DEF LivePC, StartPC, RunPC, EndPC
<1>5. ASSUME NEW x \in Messages, Start(x) PROVE KeepsBase(m)'
  <2>1. CASE x = m
    <3>1. turn'[m] = NewTurn(<<m>>, Sender[m], 0) /\ pc'[m] = "starting"
      BY <1>5, <2>1 DEF Start, Goto
    <3>2. turn'[m].seen = {}
      BY <3>1, FieldsOf
    <3> QED
      BY <3>1, <3>2 DEF KeepsBase, AgentPC
  <2>2. CASE x # m
    BY <1>2, <1>5, <2>2, StartHands
  <2> QED
    BY <2>1, <2>2
<1>6. ASSUME NEW x \in Messages, HandlerFails(x) PROVE KeepsBase(m)'
  <2>1. pc' = [pc EXCEPT ![x] = "done"] /\ turn' = [turn EXCEPT ![x] = NoTurn]
    BY <1>6 DEF HandlerFails, Return, Goto
  <2> QED
    BY <1>1, <1>2, <2>1 DEF LivePC, StartPC, RunPC, EndPC
<1>7. CASE Stop \/ SetBan \/ Boot \/ UNCHANGED vars
  BY <1>2, <1>7 DEF Stop, SetBan, Boot, vars
<1>8. CASE Crash
  BY <1>1, <1>8, CrashHands
<1>9. CASE PopAll \/ Resume
  BY <1>2, <1>9 DEF PopAll, Resume, Goto
<1> QED
  BY <1>3, <1>4, <1>5, <1>6, <1>7, <1>8, <1>9 DEF Next, Arrival

LEMMA BaseInvariant == Spec => []BaseInv
<1>1. Init => BaseInv
  <2> SUFFICES ASSUME Init, NEW m \in Messages PROVE KeepsBase(m)
    BY TypeInit DEF BaseInv
  <2>1. pc[m] \in {"sent", "done"}
    BY DEF Init, Workers
  <2> QED
    BY <2>1 DEF KeepsBase, LivePC, StartPC, RunPC, EndPC, AgentPC
<1>2. BaseInv /\ [Next]_vars => BaseInv'
  BY TypeStep, BaseStays DEF BaseInv
<1> QED
  BY <1>1, <1>2, PTL DEF Spec

(* Storing a turn's history forgets a message an earlier turn stored only   *)
(* when turns overlapped or a write failed, and then none that the turn had *)
(* read, unless it was resumed from its checkpoint.                         *)
THEOREM StoredHistoryGrows == Spec => HistoryGrows
<1> DEFINE Grows == \A m \in history \ history' : mishaps # {} /\ \E w \in Workers : Forgets(w, m)
<1>1. CalmInv /\ InboxInv' /\ BaseInv /\ [Next]_vars => [Grows]_history
  <2> SUFFICES ASSUME CalmInv, InboxInv', BaseInv, [Next]_vars, NEW m \in history \ history'
               PROVE  mishaps # {} /\ \E w \in Workers : Forgets(w, m)
    OBVIOUS
  <2>0. pc \in [Workers -> PCs]
    BY DEF BaseInv, TypeOK
  <2>1. history' # history
    OBVIOUS
  <2>2. PICK w \in Workers : SetHistory(w)
    BY <2>1 DEF Next, Arrival, TurnStep, vars, memory, disk, Ignore, Steer, Start, QueueSteering, HandlerFails,
                ReadHistory, Refuse, Mark, Record, StartClean, RecordFails, RunAgent, Request, CallTool,
                ToolReturns, Halt, Skip, AttemptFails, TurnFails, PostReply, Unmark, Unrecord, Forget,
                UnrecordFails, DrainNothing, DrainNext, DrainTooDeep, Stop, SetBan, Crash, Boot, PopAll, Resume
  <2>3. /\ pc[w] = "saving" /\ pc'[w] = "unmark" /\ history' = turn[w].seen /\ mishaps' = mishaps
    BY <2>0, <2>2 DEF SetHistory, Goto, ghosts
  <2>4. mishaps # {}
    BY <2>3, CalmStep
  <2>5. m \in turn[w].base => w = Resumer
    BY <2>3 DEF BaseInv, KeepsBase, LivePC, RunPC, Workers
  <2> QED
    BY <2>3, <2>4, <2>5 DEF Forgets
<1>2. CalmInv => InboxInv
  BY DEF CalmInv
<1> HIDE DEF Grows
<1>3. Spec => [][Grows]_history
  BY <1>1, <1>2, CalmInvariant, BaseInvariant, PTL DEF Spec
<1> QED
  BY <1>3 DEF HistoryGrows, Grows

----------------------------------------------------------------------------
(* The refinement of Inbox.                                                 *)

(* While coolton is down or starting, the messages the files would resume. *)
Saved == IF proc = "up" THEN {} ELSE Orphaned \cup ToLoad

(* Inbox's ToSet is this module's. *)
LEMMA LineToSet == \A s : Line!ToSet(s) = ToSet(s)
BY DEF Line!ToSet, ToSet

LEMMA LineInit == Init => Line!Init
<1> SUFFICES ASSUME Init PROVE Line!Init
  OBVIOUS
<1>1. /\ queue = <<>> /\ settled = {} /\ lost = {} /\ proc = "up"
      /\ \A w \in Workers : pc[w] \in {"sent", "done"}
  BY DEF Init, Workers
<1>2. InHand = {}
  BY <1>1 DEF InHand, Live, LivePC, StartPC, RunPC, EndPC
<1> QED
  BY <1>1, <1>2 DEF Line!Init

(* What a turn has had, or a file names, is a message of the thread.        *)
LEMMA TouchedType ==
  ASSUME TypeOK
  PROVE  /\ Filed \subseteq Messages /\ Orphaned \cup ToLoad \subseteq Messages /\ InHand \subseteq Messages
         /\ \A w \in Workers : Fields(w) \subseteq Messages
<1>1. ASSUME NEW w \in Workers PROVE Fields(w) \subseteq Messages
  <2>1. turn[w] \in Turn
    BY DEF TypeOK
  <2>2. ToSet(turn[w].prompt) \subseteq Messages
    BY <2>1, ToSetType DEF Turn
  <2> QED
    BY <2>1, <2>2 DEF Turn, Fields
<1>2. Filed \subseteq Messages
  <2>1. record # None => ToSet(record.prompt) \subseteq Messages
    <3> SUFFICES ASSUME record # None PROVE ToSet(record.prompt) \subseteq Messages
      OBVIOUS
    <3>1. record.prompt \in Seq(Messages)
      BY DEF TypeOK
    <3> QED
      BY <3>1, ToSetType
  <2> QED
    BY <2>1 DEF Filed, TypeOK
<1> QED
  BY <1>1, <1>2, OrphansFiled, UnreadFiled, CustodyFields DEF InHand, Live

(* What has been touched is settled, given up on, in hand or saved.         *)
LEMMA TouchedIsHeld ==
  ASSUME TypeOK, QueueIsFresh, NothingVanishes, NEW m \in Messages, Touched(m)
  PROVE  m \in settled \cup lost \cup InHand \cup Saved
BY DEF QueueIsFresh, NothingVanishes, Unseen, Saved

LEMMA SavedIsTouched == \A m \in Orphaned \cup ToLoad : Touched(m)
BY OrphansFiled, UnreadFiled DEF Touched

LEMMA UnreadIsSaved == ASSUME ResumerIsIdle PROVE ToLoad \subseteq Saved
BY DEF ResumerIsIdle, ToLoad, Saved, Workers

(* A turn's step settles and gives up on what it, or the files, had.        *)
LEMMA StepSettles ==
  ASSUME TypeOK, ResumerIsIdle, StoredIsSettled, NEW w \in Workers, TurnStep(w), ~DrainTooDeep(w)
  PROVE  /\ settled' \subseteq settled \cup InHand /\ settled \subseteq settled'
         /\ lost' \subseteq lost \cup ((InHand \cup Saved) \ settled) /\ lost \subseteq lost'
<1>0. pc[w] \in LivePC /\ Custody(w) \subseteq InHand
  BY TurnStepMoves DEF InHand, Live
<1>1. CASE \/ ReadHistory(w) \/ Mark(w) \/ RunAgent(w) \/ CallTool(w) \/ ToolReturns(w) \/ SetHistory(w)
           \/ Unmark(w) \/ Unrecord(w) \/ UnrecordFails(w) \/ DrainNothing(w) \/ DrainNext(w)
  <2>1. UNCHANGED <<settled, lost>>
    BY <1>1 DEF ghosts, ReadHistory, Mark, RunAgent, CallTool, ToolReturns, SetHistory, Unmark, Unrecord,
                UnrecordFails, DrainNothing, DrainNext
  <2> QED
    BY <2>1
<1>2. CASE Refuse(w) \/ Halt(w) \/ Skip(w) \/ TurnFails(w) \/ PostReply(w)
  <2>1. settled' = settled \cup Custody(w) /\ lost' = lost
    BY <1>2 DEF Refuse, Halt, Skip, TurnFails, PostReply
  <2> QED
    BY <1>0, <2>1
<1>3. CASE RecordFails(w)
  <2>1. \/ settled' = settled \cup Custody(w) /\ lost' = lost
        \/ lost' = lost \cup (Custody(w) \ settled) /\ settled' = settled
    BY <1>3 DEF RecordFails
  <2> QED
    BY <1>0, <2>1
<1>4. CASE Record(w)
  BY <1>4 DEF Record, Saved
<1>6. CASE StartClean(w) \/ Forget(w) \/ Request(w)
  BY <1>6, UnreadIsSaved DEF StartClean, Forget, Request, LoseUnread
<1>5. CASE AttemptFails(w)
  <2>1. /\ lost' = lost \cup (turn[w].seen \ (turn[w].safe \cup settled)) /\ settled' = settled
        /\ pc[w] \notin {"loading", "starting"}
    BY <1>5 DEF AttemptFails
  <2>2. turn[w].base \subseteq settled /\ Custody(w) = turn[w].seen \ turn[w].base
    BY <1>0, <2>1, CustodyIs DEF StoredIsSettled, Stored, Live
  <2> QED
    BY <1>0, <2>1, <2>2
<1> QED
  BY <1>1, <1>2, <1>3, <1>4, <1>5, <1>6 DEF TurnStep

(* What is saved changes only to what some turn had; what is no longer      *)
(* saved is accounted for.                                                  *)
LEMMA StepSaved ==
  ASSUME InboxInv, NothingVanishes', NEW w \in Workers, TurnStep(w)
  PROVE  /\ Saved' \subseteq Saved \cup InHand \cup settled \cup lost
         /\ Saved \ Saved' \subseteq InHand' \cup settled' \cup lost'
<1>0. /\ TypeOK /\ QueueIsFresh /\ NothingVanishes /\ pc \in [Workers -> PCs] /\ Messages \subseteq Workers
      /\ proc' = proc
  BY TurnStepMoves DEF InboxInv, MarkInv, TypeOK, Workers
<1>1. ASSUME NEW m \in Saved' PROVE m \in Saved \cup InHand \cup settled \cup lost
  <2>1. m \in Filed'
    BY <1>1, OrphansFiled DEF Saved, Orphaned, ToLoad, Filed
  <2>2. Touched(m) /\ m \in Messages
    BY <1>0, <2>1, StepFiles, TouchedType DEF Touched
  <2> QED
    BY <1>0, <2>2, TouchedIsHeld
<1>2. ASSUME NEW m \in Saved, m \notin Saved' PROVE m \in InHand' \cup settled' \cup lost'
  <2>1. m \in Orphaned \cup ToLoad
    BY <1>2 DEF Saved
  <2>2. m \in Messages /\ Touched(m) /\ ~Unseen(m) /\ m \notin ToSet(queue)
    BY <1>0, <2>1, TouchedType, SavedIsTouched DEF QueueIsFresh
  <2>3. m \notin ToSet(queue')
    BY <1>0, <2>2, StepLine
  <2>4. pc'[m] \notin {"sent", "ignored", "queueing"}
    <3>1. CASE m = w
      BY <1>0, <3>1, TurnStepMoves DEF LivePC, StartPC, RunPC, EndPC
    <3>2. CASE m # w
      BY <1>0, <2>2, <3>2, OtherFrames DEF Unseen
    <3> QED
      BY <3>1, <3>2
  <2> QED
    BY <1>2, <2>2, <2>3, <2>4 DEF NothingVanishes, Saved
<1> QED
  BY <1>1, <1>2

(* One turn's hands change: what all the turns hold changes likewise.       *)
LEMMA HandsTogether ==
  ASSUME NEW w \in Workers, \A v \in Workers \ {w} : Hand(v)' = Hand(v)
  PROVE  /\ InHand' \subseteq InHand \cup Hand(w)'
         /\ InHand \subseteq InHand' \cup Hand(w)
         /\ Hand(w) \subseteq InHand /\ Hand(w)' \subseteq InHand'
<1>1. \A m : m \in InHand <=> \E v \in Workers : m \in Hand(v)
  BY InHandIs
<1>2. \A m : m \in InHand' <=> \E v \in Workers : m \in Hand(v)'
  BY DEF InHand, Hand, Live
<1> QED
  BY <1>1, <1>2

(* A step of a turn is one of the line's, or none.                          *)
LEMMA LineTurnStep ==
  ASSUME InboxInv, InboxInv', NEW w \in Workers, TurnStep(w)
  PROVE  Line!Carry /\ Line!KeepsSaved
<1>0. /\ TypeOK /\ ResumerIsIdle /\ QueueIsFresh /\ StoredIsSettled /\ NothingVanishes' /\ ToSet(queue) \subseteq Messages
      /\ queue \in Seq(Messages)
  BY ToSetType DEF InboxInv, MarkInv, TypeOK
<1>1. \A v \in Workers \ {w} : Hand(v)' = Hand(v)
  BY <1>0, OtherFrames DEF Hand, Custody
<1>2. /\ InHand' \subseteq InHand \cup (ToSet(queue) \ ToSet(queue'))
      /\ InHand \subseteq InHand' \cup settled' \cup lost'
      /\ ToSet(queue) \ ToSet(queue') \subseteq InHand' \cup lost'
  BY <1>0, <1>1, StepHand, HandsTogether
<1>3. Line!KeepsSaved
  BY <1>0, StepSaved DEF Line!KeepsSaved, Saved
<1>4. CASE queue' = queue
  <2>1. ~DrainTooDeep(w)
    BY <1>4 DEF DrainTooDeep
  <2>2. /\ settled' = settled \cup (settled' \ settled) /\ settled' \ settled \subseteq InHand
        /\ lost' = lost \cup ((lost' \ lost) \ settled) /\ lost' \ lost \subseteq InHand \cup Saved
    BY <1>0, <2>1, StepSettles
  <2>3. Line!Keeps({})
    BY <1>2, <1>4 DEF Line!Keeps
  <2> QED
    BY <1>3, <1>4, <2>2, <2>3 DEF Line!Carry, Line!Settle, Saved
<1>5. ASSUME NEW n \in 1..Len(queue), queue' = SubSeq(queue, n + 1, Len(queue)), UNCHANGED <<settled, lost>>
      PROVE  Line!Take(n)
  <2> DEFINE front == ToSet(SubSeq(queue, 1, n))
  <2>1. ToSet(queue) = front \cup ToSet(queue') /\ front \cap ToSet(queue') = {}
    BY <1>0, <1>5, ToSetCut DEF QueueIsFresh
  <2>2. \A m \in ToSet(queue) : m \notin lost
    BY <1>0 DEF QueueIsFresh, Touched
  <2> HIDE DEF front
  <2>3. front \subseteq InHand' /\ InHand' \subseteq InHand \cup front
        /\ (InHand \cup front) \ InHand' \subseteq settled' \cup lost'
    BY <1>2, <1>5, <2>1, <2>2
  <2> QED
    BY <1>5, <2>3, LineToSet DEF Line!Take, Line!Keeps, front
<1>6. CASE ToolReturns(w) /\ queue' # queue
  <2>1. queue' = <<>> /\ UNCHANGED <<settled, lost>>
    BY <1>6 DEF ToolReturns, ghosts
  <2>2. Len(queue) \in 1..Len(queue) /\ queue' = SubSeq(queue, Len(queue) + 1, Len(queue))
    BY <1>0, <1>6, <2>1
  <2> QED
    BY <1>3, <1>5, <2>1, <2>2 DEF Line!Carry
<1>7. CASE DrainNext(w)
  <2>1. PICK n \in 1..Len(queue) : queue' = SubSeq(queue, n + 1, Len(queue))
    BY <1>0, <1>7, DrainedFrame
  <2>2. UNCHANGED <<settled, lost>>
    BY <1>7 DEF DrainNext, ghosts
  <2> QED
    BY <1>3, <1>5, <2>1, <2>2 DEF Line!Carry
<1>8. CASE DrainTooDeep(w)
  <2>1. /\ queue # <<>> /\ queue' = <<>> /\ lost' = lost \cup ToSet(queue) /\ settled' = settled
        /\ pc'[w] = "done"
    BY <1>0, <1>8 DEF DrainTooDeep, Return, Goto, TypeOK
  <2>2. Hand(w)' = {}
    BY <2>1 DEF Hand, LivePC, StartPC, RunPC, EndPC
  <2>3. InHand' \subseteq InHand
    BY <1>1, <2>2, HandsTogether
  <2> QED
    BY <1>2, <1>3, <2>1, <2>3, LineToSet DEF Line!Carry, Line!DropLine, Line!Keeps
<1>9. queue' = queue \/ ToolReturns(w) \/ DrainNext(w) \/ DrainTooDeep(w)
  BY DEF TurnStep, memory, ReadHistory, Refuse, Mark, Record, StartClean, RecordFails, RunAgent, Request, CallTool,
         Halt, Skip, AttemptFails, TurnFails, PostReply, SetHistory, Unmark, Unrecord, Forget, UnrecordFails,
         DrainNothing
<1> QED
  BY <1>4, <1>6, <1>7, <1>8, <1>9

(* A death: the line is lost, and what a turn had is lost or saved.         *)
LEMMA LineCrash == ASSUME InboxInv, Crash PROVE Line!Die
<1>0. TypeOK /\ QueueIsFresh /\ NothingVanishes /\ ToSet(queue) \subseteq Messages
  BY ToSetType DEF InboxInv, MarkInv, TypeOK
<1>1. /\ queue' = <<>> /\ settled' = settled /\ proc' = "down" /\ UNCHANGED <<record, checkpoint>>
      /\ lost' = lost \cup ((InHand \cup ToSet(queue) \cup {m \in Messages : pc[m] = "queueing"} \cup ToLoad)
                              \ (Orphaned \cup settled))
  BY DEF Crash, disk
<1>2. InHand' = {}
  <2>1. \A m : m \in InHand' <=> \E v \in Workers : m \in Hand(v)'
    BY DEF InHand, Hand, Live
  <2> QED
    BY <2>1, CrashHands
<1>3. Saved' = Orphaned
  <2>1. ToLoad' = {}
    BY <1>0, CrashHands DEF ToLoad, Workers, LivePC, StartPC
  <2> QED
    BY <1>1, <2>1 DEF Saved, Orphaned
<1>4. Orphaned \subseteq Saved \cup InHand \cup settled \cup lost
  BY <1>0, SavedIsTouched, TouchedIsHeld, TouchedType
<1>5. Saved \subseteq Orphaned \cup ToLoad
  BY DEF Saved
<1>6. /\ (ToSet(queue) \cup InHand \cup Saved) \ Saved' \subseteq settled \cup lost'
      /\ lost' = lost \cup (lost' \ lost) /\ lost' \ lost \subseteq Messages
  BY <1>0, <1>1, <1>3, <1>5, TouchedType
<1> QED
  BY <1>1, <1>2, <1>3, <1>4, <1>6, LineToSet DEF Line!Die, Saved

(* Start-up takes up the record ... *)
LEMMA LinePopAll == ASSUME InboxInv, PopAll PROVE Line!Resume
<1>0. /\ TypeOK /\ ResumerIsIdle /\ Resumer \in Workers
  BY DEF InboxInv, MarkInv, Workers
<1>1. /\ proc = "booting" /\ record' = None /\ UNCHANGED <<queue, settled, checkpoint>>
      /\ ToLoad = {}
  BY DEF PopAll, memory, ToLoad
<1>2. Saved = Orphaned
  BY <1>1 DEF Saved
<1>3. CASE record = None
  <2>1. UNCHANGED <<pc, turn, lost>> /\ proc' = "up"
    BY <1>3 DEF PopAll
  <2>2. InHand' = InHand
    BY <2>1 DEF InHand, Live, Custody
  <2>3. Saved' = {} /\ Saved = {}
    BY <1>2, <1>3, <2>1 DEF Saved, Orphaned
  <2> QED
    BY <1>1, <2>1, <2>2, <2>3 DEF Line!Resume, Line!Keeps, Saved
<1>4. CASE record # None
  <2> DEFINE H == ToSet(record.prompt)
  <2>1. /\ H = Hand(Resumer)' /\ Hand(Resumer) = {} /\ ToLoad' = LoadCheckpoint
        /\ \A v \in Workers \ {Resumer} : Hand(v)' = Hand(v)
    BY <1>0, <1>4, PopHands
  <2>2. InHand' = InHand \cup H
    BY <1>0, <2>1, HandsTogether
  <2>3. lost' = lost \ H
    BY <1>4 DEF PopAll
  <2>4. Orphaned = H \cup LoadCheckpoint
    BY <1>4 DEF Orphaned, LoadCheckpoint
  <2>5. Saved' \subseteq LoadCheckpoint /\ LoadCheckpoint \subseteq Saved'
    BY <1>1, <1>4, <2>1 DEF Saved, Orphaned, PopAll
  <2> HIDE DEF H
  <2>6. Line!Keeps(H)
    BY <2>2 DEF Line!Keeps
  <2> QED
    BY <1>1, <1>2, <2>2, <2>3, <2>4, <2>5, <2>6 DEF Line!Resume, Saved
<1> QED
  BY <1>3, <1>4

(* ... and what is left of its checkpoint. *)
LEMMA LineResume == ASSUME InboxInv, Resume PROVE Line!Resume
<1>0. /\ TypeOK /\ ResumerIsIdle /\ StoredIsSettled /\ QueueIsFresh /\ Resumer \in Workers
  BY DEF InboxInv, MarkInv, Workers
<1>1. /\ pc[Resumer] = "loading" /\ proc = "booting" /\ proc' = "up" /\ UNCHANGED <<queue, settled>>
  BY <1>0 DEF Resume, memory, ResumerIsIdle
<1>2. Saved' = {} /\ Saved = Orphaned \cup ToLoad
  BY <1>1 DEF Saved
<1> DEFINE P == ToSet(turn[Resumer].prompt)
           H == IF ToLoad = {} THEN P ELSE ToLoad
<1>3. /\ Hand(Resumer) = P /\ Hand(Resumer)' = H /\ ToLoad = LoadCheckpoint
      /\ \A v \in Workers \ {Resumer} : Hand(v)' = Hand(v)
  BY <1>0, ResumeHands
<1>4. InHand' \subseteq InHand \cup H /\ InHand \subseteq InHand' \cup P /\ P \subseteq InHand /\ H \subseteq InHand'
  BY <1>0, <1>3, HandsTogether
<1>5. lost' = IF checkpoint = None THEN lost ELSE (lost \ checkpoint) \cup (P \ (checkpoint \cup settled))
  BY DEF Resume
<1> HIDE DEF P
<1>6. /\ P \subseteq H \cup settled \cup lost'
      /\ ToLoad \subseteq H /\ H \subseteq P \cup ToLoad
      /\ lost' \subseteq lost \cup P /\ lost \ lost' \subseteq H
  BY <1>3, <1>5 DEF LoadCheckpoint
<1>7. Orphaned \subseteq InHand \cup settled \cup lost \cup ToLoad
  <2> SUFFICES ASSUME NEW m \in Orphaned PROVE m \in InHand \cup settled \cup lost \cup ToLoad
    OBVIOUS
  <2>1. record # None /\ m \in Messages /\ Touched(m)
    BY <1>0, TouchedType, SavedIsTouched DEF Orphaned
  <2>2. Accounted(m) \/ m \in ToLoad
    BY <1>1, <2>1 DEF InboxInv, FilesAreSpare
  <2> QED
    BY <1>0, <2>1, <2>2 DEF Accounted, QueueIsFresh
<1> HIDE DEF H
<1>8. Line!Keeps(ToLoad)
  BY <1>1, <1>4, <1>6 DEF Line!Keeps
<1>9. Saved \subseteq InHand' \cup settled \cup lost'
  BY <1>2, <1>4, <1>6, <1>7
<1> QED
  BY <1>1, <1>2, <1>4, <1>6, <1>8, <1>9 DEF Line!Resume, Saved

LEMMA LineStep == InboxInv /\ InboxInv' /\ [Next]_vars => [Line!Next]_Line!inboxVars
<1> SUFFICES ASSUME InboxInv, InboxInv', [Next]_vars PROVE [Line!Next]_Line!inboxVars
  OBVIOUS
<1>0. /\ TypeOK /\ ResumerIsIdle /\ QueueIsFresh /\ NothingVanishes
      /\ Messages \subseteq Workers
  BY DEF InboxInv, MarkInv, Workers
<1> DEFINE Stutters == UNCHANGED <<queue, InHand, settled, lost, Saved>>
<1>s. Stutters => UNCHANGED Line!inboxVars
  BY DEF Line!inboxVars, Saved
<1>1. ASSUME NEW m \in Messages, Ignore(m) \/ Steer(m) \/ QueueSteering(m)
      PROVE  (Line!Queue(m) /\ Line!KeepsSaved) \/ Stutters
  <2>1. /\ \A v \in Workers : Hand(v)' = Hand(v)
        /\ UNCHANGED <<proc, record, checkpoint, settled, lost>> /\ pc'[Resumer] = pc[Resumer]
    BY <1>0, <1>1, ArrivalHands, ThreadTurnsAssumption DEF Workers
  <2>2. InHand' = InHand
    BY <1>0, <2>1, HandsTogether
  <2>3. Saved' = Saved
    BY <2>1 DEF Saved, Orphaned, ToLoad
  <2>4. CASE Ignore(m) \/ Steer(m)
    BY <2>1, <2>2, <2>3, <2>4 DEF Ignore, Steer, memory
  <2>5. CASE QueueSteering(m)
    <3>1. Unseen(m) /\ pc[m] # "queued" /\ queue' = Append(queue, m)
      BY <2>5 DEF QueueSteering, QueueSteeringMessage, Unseen
    <3>2. Line!Fresh(m)
      BY <1>0, <3>1, InHandIsTouched, LineToSet DEF Line!Fresh, QueueIsFresh, Touched
    <3> QED
      BY <2>1, <2>2, <2>3, <3>1, <3>2 DEF Line!Queue, Line!KeepsSaved, Saved
  <2> QED
    BY <1>1, <2>4, <2>5
<1>2. ASSUME NEW m \in Messages, Start(m) PROVE Line!Begin(m) /\ Line!KeepsSaved
  <2>1. /\ Hand(m) = {} /\ Hand(m)' = {m} /\ pc[m] = "sent"
        /\ \A v \in Workers \ {m} : Hand(v)' = Hand(v)
        /\ UNCHANGED <<proc, queue, record, checkpoint, settled, lost>> /\ pc'[Resumer] = pc[Resumer]
    BY <1>0, <1>2, StartHands, ThreadTurnsAssumption DEF Workers
  <2>2. InHand' = InHand \cup {m}
    BY <1>0, <2>1, HandsTogether
  <2>3. Saved' = Saved
    BY <2>1 DEF Saved, Orphaned, ToLoad
  <2>4. Line!Fresh(m)
    BY <1>0, <2>1, InHandIsTouched, LineToSet DEF Line!Fresh, QueueIsFresh, Touched, Unseen
  <2> QED
    BY <2>1, <2>2, <2>3, <2>4 DEF Line!Begin, Line!KeepsSaved, Saved
<1>3. ASSUME NEW m \in Messages, HandlerFails(m) PROVE Line!Settle /\ Line!KeepsSaved
  <2>1. /\ Hand(m)' = {} /\ settled' = settled \cup Hand(m)
        /\ \A v \in Workers \ {m} : Hand(v)' = Hand(v)
        /\ UNCHANGED <<proc, queue, record, checkpoint, lost>> /\ pc'[Resumer] = pc[Resumer]
    BY <1>0, <1>3, FailHands, ThreadTurnsAssumption DEF Workers
  <2>2. InHand' \subseteq InHand /\ InHand \subseteq InHand' \cup Hand(m) /\ Hand(m) \subseteq InHand
    BY <1>0, <2>1, HandsTogether
  <2>3. Saved' = Saved
    BY <2>1 DEF Saved, Orphaned, ToLoad
  <2>4. lost' = lost \cup ({} \ settled) /\ {} \subseteq InHand \cup Saved
    BY <2>1
  <2> QED
    BY <2>1, <2>2, <2>3, <2>4 DEF Line!Settle, Line!Keeps, Line!KeepsSaved, Saved
<1>4. CASE Stop \/ SetBan \/ Boot \/ UNCHANGED vars
  <2>1. UNCHANGED <<queue, pc, turn, settled, lost, record, checkpoint>>
    BY <1>4 DEF Stop, SetBan, Boot, vars, memory, disk, ghosts
  <2>2. Saved' = Saved
    <3>1. proc' = proc \/ (proc # "up" /\ proc' # "up")
      BY <1>4 DEF Stop, SetBan, Boot, vars
    <3> QED
      BY <2>1, <3>1 DEF Saved, Orphaned, ToLoad
  <2>3. InHand' = InHand
    BY <2>1 DEF InHand, Live, Custody
  <2> QED
    BY <1>s, <2>1, <2>2, <2>3
<1>5. ASSUME NEW w \in Workers, TurnStep(w) PROVE Line!Next
  BY <1>5, LineTurnStep DEF Line!Next
<1>6. Crash \/ PopAll \/ Resume => Line!Next
  BY LineCrash, LinePopAll, LineResume DEF Line!Next
<1> HIDE DEF Stutters
<1> QED
  BY <1>s, <1>1, <1>2, <1>3, <1>4, <1>5, <1>6 DEF Next, Arrival, Line!Next, Line!Carry

(* The queue, the turns with their drains, the tools that fold, the deaths  *)
(* and the restarts keep what Inbox promises: first come first taken, by    *)
(* one turn, to an outcome.                                                 *)
THEOREM ThreadImplementsInbox == Spec => ImplementsInbox
<1>1. Spec => Line!Init /\ [][Line!Next]_Line!inboxVars
  BY LineInit, LineStep, InboxInvariant, PTL DEF Spec
<1> QED
  BY <1>1 DEF ImplementsInbox, Line!Spec
============================================================================
